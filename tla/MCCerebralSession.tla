-------------------------- MODULE MCCerebralSession --------------------------
(* TLC instances of CerebralSession. *)
EXTENDS CerebralSession, TLC

CONSTANTS b1, b2, q1, q2, q3

OneBrowser == {b1}
TwoBrowsers == {b1, b2}
TwoQuestions == {q1, q2}
ThreeQuestions == {q1, q2, q3}

\* Browsers and questions are only compared for equality.
ChatSymmetry == Permutations(Browsers) \cup Permutations(Questions)

\* A bound: while a file of one browser's page is served, no request of another
\* browser is, with which it would share nothing but the restarts.
FetchesAlone ==
    \A b, c \in Browsers : fetch[b].open /\ b # c => ~Busy(c)

\* Without what some releases of Flask-Session do besides.
NoFetches == \A b \in Browsers : ~fetch[b].open

\* Left out is what no step to come and no property reads: the copies of
\* threads that are not open, the histories in replies to pages that are gone,
\* what the conversation holds but for the questions the model is being asked,
\* and, once a browser is disturbed (which it stays), what it has been answered
\* and what was cleared.
ChatView ==
    <<redis, page, disturbed,
      [q \in Questions |->
        LET r == request[q]
        IN  CASE r.pc \in Serving -> <<r.pc, r.from, r.current, r.session>>
              [] r.pc = "replied" /\ r.current -> <<r.pc, r.from, r.session>>
              [] r.pc = "sent" -> <<r.pc, r.from, r.current>>
              [] OTHER -> <<r.pc, r.from>>],
      [b \in Browsers |->
        CASE nav[b].pc = "idle" -> <<"idle">>
          [] nav[b].pc = "sent" -> <<"sent", nav[b].route>>
          [] nav[b].pc = "open" -> <<"open", nav[b].route, nav[b].session>>],
      [b \in Browsers |-> IF fetch[b].open THEN fetch[b] ELSE NoFetch],
      {q \in Questions :
        request[q].pc = "chat" /\ [role |-> "user", about |-> q]
                                    \in Range(conversation)},
      [b \in Browsers |->
        IF disturbed[b] THEN <<>> ELSE <<answered[b], cleared[b]>>]>>
=============================================================================
