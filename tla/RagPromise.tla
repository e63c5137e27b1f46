------------------------------ MODULE RagPromise ------------------------------
(***************************************************************************)
(* What the document search promises its user, whatever happens between    *)
(* the web page and the language model: a question, asked of one index, is *)
(* told one outcome, once, and an answer that is shown was inferred for    *)
(* that very question from a document of that very index.                  *)
(***************************************************************************)
EXTENDS Naturals

CONSTANTS Questions, Indexes, Document, NoAnswer

VARIABLE told   \* told[q]: what the user knows of question q

Answer == [query : Questions, doc : Document]

Outcomes == {"answered", "timeout", "error", "superseded", "silent"}

Told == [status : Outcomes \cup {"unasked", "waiting"},
         index : Indexes, answer : Answer \cup {NoAnswer}]

Init == \E ix \in Indexes :
    told = [q \in Questions |->
                [status |-> "unasked", index |-> ix, answer |-> NoAnswer]]

Ask(q, ix) ==
    /\ told[q].status = "unasked"
    /\ told' = [told EXCEPT ![q] = [@ EXCEPT !.status = "waiting",
                                             !.index = ix]]

\* An answer to q itself, from a document of the index it was asked of.
Show(q) ==
    /\ told[q].status = "waiting"
    /\ \E d \in Document :
        /\ d.index = told[q].index
        /\ told' = [told EXCEPT ![q] =
                        [@ EXCEPT !.status = "answered",
                                  !.answer = [query |-> q, doc |-> d]]]

GiveUp(q) ==
    /\ told[q].status = "waiting"
    /\ \E o \in Outcomes \ {"answered"} :
        told' = [told EXCEPT ![q] = [@ EXCEPT !.status = o]]

Next ==
    \/ \E q \in Questions : Show(q) \/ GiveUp(q)
    \/ \E q \in Questions, ix \in Indexes : Ask(q, ix)

Spec == Init /\ [][Next]_told
=============================================================================
