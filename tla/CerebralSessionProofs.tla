------------------------ MODULE CerebralSessionProofs ------------------------
(* Proofs about CerebralSession: for any browsers and any questions.          *)
EXTENDS CerebralSession, TLAPS

-----------------------------------------------------------------------------
(* Types *)

\* Appending a value of the set leaves a sequence over the set.
LEMMA AppendType ==
    ASSUME NEW S, NEW s \in Seq(S), NEW e \in S
    PROVE  Append(s, e) \in Seq(S)
  OBVIOUS

\* What a route makes of a session is a session.
LEMMA AfterType ==
    ASSUME NEW route, NEW s \in Session
    PROVE  After(route, s) \in Session
  <1>1. /\ After(route, s).history \in Seq(Questions)
        /\ After(route, s) = [user |-> After(route, s).user,
                              history |-> After(route, s).history]
    BY DEF After, Session
  <1>2. After(route, s).user \in BOOLEAN
    BY DEF After
  <1> QED
    BY <1>1, <1>2 DEF Session

\* What may be stored for a browser: its session as it is, or the copy.
LEMMA StoredRest ==
    ASSUME TypeOK, NEW b \in Browsers, NEW s \in Session, NEW modified,
           Stored(b, s, modified)
    PROVE  /\ redis' \in [Browsers -> Session]
           /\ \A c \in Browsers \ {b} : redis'[c] = redis[c]
           /\ redis'[b] = s \/ (~modified /\ redis'[b] = redis[b])
  BY DEF TypeOK, Stored

\* A flag of a browser that is set to a truth value.
LEMMA FlagType ==
    ASSUME NEW f \in [Browsers -> BOOLEAN], NEW b \in Browsers, NEW v \in BOOLEAN
    PROVE  [f EXCEPT ![b] = v] \in [Browsers -> BOOLEAN]
  BY Zenon

\* A request that has taken a step is a request.
LEMMA MovesType ==
    ASSUME TypeOK, NEW q \in Questions, NEW from,
           NEW to \in Serving \cup {"unsent", "sent", "replied", "over"},
           Moves(q, from, to)
    PROVE  request' \in [Questions -> Request]
  BY DEF TypeOK, Moves, Request

LEMMA LeftType ==
    ASSUME TypeOK, NEW b
    PROVE  Left(b) \in [Questions -> Request]
  <1> SUFFICES ASSUME NEW q \in Questions
               PROVE  Left(b)[q] \in Request
    BY DEF Left
  <1>1. request[q] \in Request
    BY DEF TypeOK
  <1>2. [request[q] EXCEPT !.current = FALSE] \in Request
    BY <1>1 DEF Request
  <1> QED
    BY <1>1, <1>2 DEF Left

LEMMA InitType == Init => TypeOK
  <1> SUFFICES ASSUME Init PROVE TypeOK
    OBVIOUS
  <1>1. NewSession \in Session
    BY DEF NewSession, Session
  <1>2. \A view \in {"blank", "login", "index"} : Showing(view) \in Page
    BY DEF Showing, Page
  <1>3. NoFetch \in Fetch
    BY <1>1 DEF NoFetch, Fetch
  <1> QED
    BY <1>1, <1>2, <1>3 DEF Init, TypeOK, Request, Navigation, Routes

\* A request that was sent came from a browser.
SentFrom ==
    \A q \in Questions :
        IF request[q].pc = "unsent" THEN request[q].from = NoBrowser
        ELSE request[q].from \in Browsers

TypeInv == TypeOK /\ SentFrom

\* A page that is left.
LEMMA LeavesType ==
    ASSUME TypeOK, NEW b \in Browsers, NEW route \in Routes, Leaves(b, route)
    PROVE  /\ nav' \in [Browsers -> Navigation]
           /\ page' \in [Browsers -> Page]
  <1>1. nav[b] \in Navigation
    BY DEF TypeOK
  <1>2. [nav[b] EXCEPT !.pc = "sent", !.route = route] \in Navigation
    BY <1>1 DEF Navigation
  <1>3. Showing("blank") \in Page
    BY DEF Showing, Page
  <1> QED
    BY <1>2, <1>3 DEF Leaves, TypeOK

\* A request as the browser sends it.
LEMMA SentType ==
    ASSUME NEW r \in Request, NEW b \in Browsers
    PROVE  /\ [r EXCEPT !.pc = "sent", !.from = b] \in Request
           /\ [r EXCEPT !.pc = "sent", !.from = b, !.current = TRUE] \in Request
<1>1. [r EXCEPT !.pc = "sent", !.from = b] \in Request
  BY DEF Request
<1>2. [r EXCEPT !.pc = "sent", !.from = b, !.current = TRUE] \in Request
  BY DEF Request
<1> QED
  BY <1>1, <1>2

\* A request with its thread's copy of the session.
LEMMA ServedType ==
    ASSUME NEW r \in Request, NEW s \in Session,
           NEW at \in Serving \cup {"replied"}
    PROVE  [r EXCEPT !.pc = at, !.session = s] \in Request
  BY DEF Request

\* Every step keeps the types.
LEMMA NextType == TypeInv /\ [Next]_vars => TypeOK'
  <1> SUFFICES ASSUME TypeOK, SentFrom, [Next]_vars PROVE TypeOK'
    BY DEF TypeInv
  <1> USE DEF TypeOK
  <1>0. \A view \in {"blank", "login", "index"} : Showing(view) \in Page
    BY DEF Showing, Page
  <1>s. <<>> \in Seq(Questions) /\ <<>> \in Seq(Message)
    OBVIOUS
  <1>1. ASSUME NEW b \in Browsers, OpenPage(b) PROVE TypeOK'
    <2>1. nav[b] \in Navigation /\ redis[b] \in Session
      OBVIOUS
    <2>2. [nav[b] EXCEPT !.pc = "open", !.session = redis[b]] \in Navigation
      BY <2>1 DEF Navigation
    <2>3. nav' \in [Browsers -> Navigation]
      BY <1>1, <2>2 DEF OpenPage
    <2>4. (disturbed[b] \/ Busy(b)) \in BOOLEAN
      OBVIOUS
    <2>5. disturbed' \in [Browsers -> BOOLEAN]
      BY <1>1, <2>4, FlagType, Zenon DEF OpenPage
    <2> QED
      BY <1>1, <2>3, <2>5 DEF OpenPage
  <1>2. ASSUME NEW b \in Browsers, FetchOpen(b) \/ FetchSave(b) PROVE TypeOK'
    <2>1. redis[b] \in Session /\ fetch[b].session \in Session
      BY DEF Fetch
    <2>2. /\ NoFetch \in Fetch
          /\ [open |-> TRUE, session |-> redis[b]] \in Fetch
      BY <2>1 DEF Fetch, NoFetch, NewSession, Session
    <2>3. fetch' \in [Browsers -> Fetch]
      BY <1>2, <2>2 DEF FetchOpen, FetchSave
    <2>4. CASE FetchOpen(b)
      <3>1. (disturbed[b] \/ Busy(b)) \in BOOLEAN
        OBVIOUS
      <3>2. disturbed' \in [Browsers -> BOOLEAN]
        BY <2>4, <3>1, FlagType, Zenon DEF FetchOpen
      <3> QED
        BY <2>3, <2>4, <3>2 DEF FetchOpen
    <2>5. CASE FetchSave(b)
      <3>1. redis' \in [Browsers -> Session]
        BY <2>1, <2>5, StoredRest DEF FetchSave
      <3> QED
        BY <2>3, <2>5, <3>1 DEF FetchSave
    <2> QED
      BY <1>2, <2>4, <2>5
  <1>3. ASSUME NEW b \in Browsers, Save(b) PROVE TypeOK'
    <2>1. /\ nav[b] \in Navigation
          /\ nav[b].session \in Session
      BY <1>3 DEF Navigation, Save
    <2>2. After(nav[b].route, nav[b].session) \in Session
      BY <2>1, AfterType
    <2>3. redis' \in [Browsers -> Session]
      BY <1>3, <2>2, StoredRest DEF Save
    <2>4. nav' \in [Browsers -> Navigation]
      <3>1. [nav EXCEPT ![b].pc = "idle"] \in [Browsers -> Navigation]
        BY DEF Navigation
      <3>2. [nav[b] EXCEPT !.pc = "sent", !.route = "home"] \in Navigation
        BY <2>1 DEF Navigation, Routes
      <3> QED
        BY <1>3, <3>1, <3>2 DEF Save
    <2>5. page' \in [Browsers -> Page]
      <3>1. View(nav[b].route, nav[b].session) \in {"blank", "login", "index"}
        BY DEF View
      <3> QED
        BY <1>0, <1>3, <3>1 DEF Save
    <2>6. Range(nav[b].session.history) \subseteq Questions
      BY <2>1 DEF Session, Range
    <2>7. answered' \in [Browsers -> Seq(Questions)]
      BY <1>3, <1>s DEF Save
    <2>8. cleared' \in [Browsers -> SUBSET Questions]
      <3>1. (cleared[b] \cup Range(nav[b].session.history))
                \in SUBSET Questions
        BY <2>6
      <3> HIDE DEF TypeOK
      <3>2. cleared \in [Browsers -> SUBSET Questions]
        BY DEF TypeOK
      <3> QED
        BY <1>3, <3>1, <3>2, Zenon DEF Save
    <2> QED
      BY <1>3, <2>3, <2>4, <2>5, <2>7, <2>8 DEF Save
  <1>4. ASSUME NEW b \in Browsers, NEW route \in Routes, Follow(b, route)
        PROVE  TypeOK'
    BY <1>4, LeavesType, LeftType DEF Follow
  <1>5. ASSUME NEW b \in Browsers, NEW q \in Questions, Click(b, q)
        PROVE  TypeOK'
    <2>1. [request[q] EXCEPT !.pc = "sent", !.from = b, !.current = TRUE]
            \in Request
      <3>1. request[q] \in Request
        OBVIOUS
      <3> QED
        BY <3>1, SentType
    <2> QED
      BY <1>5, <2>1 DEF Click
  <1>6. ASSUME NEW b \in Browsers, NEW q \in Questions, ResetAsks(b, q)
        PROVE  TypeOK'
    <2>1. [request[q] EXCEPT !.pc = "sent", !.from = b] \in Request
      <3>1. request[q] \in Request
        OBVIOUS
      <3> QED
        BY <3>1, SentType
    <2>2. request' \in [Questions -> Request]
      BY <1>6, <2>1, LeftType DEF ResetAsks
    <2>3. "reset" \in Routes
      BY DEF Routes
    <2> QED
      BY <1>6, <2>2, <2>3, LeavesType DEF ResetAsks
  <1>7. ASSUME NEW q \in Questions, Open(q) PROVE TypeOK'
    <2> DEFINE b == request[q].from
    <2>0. b \in Browsers
      BY <1>7 DEF Open, SentFrom
    <2>1. [request[q] EXCEPT !.pc = "classify", !.session = redis[b]] \in Request
      <3>1. request[q] \in Request /\ redis[b] \in Session
        BY <2>0
      <3> QED
        BY <3>1, ServedType DEF Serving
    <2>2. request' \in [Questions -> Request]
      BY <1>7, <2>1 DEF Open
    <2>3. (disturbed[b] \/ Busy(b)) \in BOOLEAN
      OBVIOUS
    <2>4. disturbed' \in [Browsers -> BOOLEAN]
      BY <1>7, <2>0, <2>3, FlagType, Zenon DEF Open
    <2> QED
      BY <1>7, <2>2, <2>4 DEF Open
  <1>8. ASSUME NEW q \in Questions, Classify(q) \/ FetchData(q) PROVE TypeOK'
    BY <1>8, MovesType DEF Classify, FetchData, Serving
  <1>9. ASSUME NEW q \in Questions, AskModel(q) PROVE TypeOK'
    <2>1. [role |-> "user", about |-> q] \in Message
      BY DEF Message
    <2> QED
      BY <1>9, <2>1, MovesType, AppendType DEF AskModel, Serving
  <1>10. ASSUME NEW q \in Questions, ModelAnswers(q) PROVE TypeOK'
    <2>1. [role |-> "system", about |-> q] \in Message
      BY DEF Message
    <2> QED
      BY <1>10, <2>1, MovesType, AppendType DEF ModelAnswers, Serving
  <1>11. ASSUME NEW q \in Questions, Finish(q) PROVE TypeOK'
    <2> DEFINE b == request[q].from
               s == [request[q].session EXCEPT !.history = Append(@, q)]
    <2>0. b \in Browsers
      BY <1>11 DEF Finish, SentFrom
    <2>1. request[q] \in Request /\ request[q].session \in Session
      BY DEF Request
    <2>2. s \in Session
      BY <2>1, AppendType DEF Session
    <2>3. [request[q] EXCEPT !.pc = "replied", !.session = s] \in Request
      BY <2>1, <2>2, ServedType
    <2>4. request' \in [Questions -> Request] /\ redis' \in [Browsers -> Session]
      BY <1>11, <2>2, <2>3 DEF Finish
    <2>5. answered' \in [Browsers -> Seq(Questions)]
      <3>1. Append(answered[b], q) \in Seq(Questions)
        BY <2>0, AppendType
      <3> QED
        BY <1>11, <3>1 DEF Finish
    <2> QED
      BY <1>11, <2>4, <2>5 DEF Finish
  <1>12. ASSUME NEW q \in Questions, Fail(q) PROVE TypeOK'
    BY <1>12 DEF Fail, Request
  <1>13. ASSUME NEW q \in Questions, Deliver(q) PROVE TypeOK'
    <2>1. request' \in [Questions -> Request]
      BY <1>13, MovesType DEF Deliver
    <2>2. request[q].session.history \in Seq(Questions)
      BY DEF Request, Session
    <2>3. request[q].from \in Browsers
      BY <1>13 DEF Deliver, Moves, SentFrom
    <2>4. page' \in [Browsers -> Page]
      BY <1>13, <2>2, <2>3 DEF Deliver, Page
    <2> QED
      BY <1>13, <2>1, <2>4 DEF Deliver
  <1>14. ASSUME AppRestart PROVE TypeOK'
    <2>1. request' \in [Questions -> Request]
      <3>1. ASSUME NEW q \in Questions
            PROVE  [request[q] EXCEPT !.pc = "over"] \in Request
        BY DEF Request
      <3> QED
        BY <1>14, <3>1 DEF AppRestart
    <2>2. nav' \in [Browsers -> Navigation]
      BY <1>14 DEF AppRestart, Navigation
    <2>3. fetch' \in [Browsers -> Fetch]
      BY <1>14 DEF AppRestart, NoFetch, Fetch, NewSession, Session
    <2> QED
      BY <1>14, <1>s, <2>1, <2>2, <2>3 DEF AppRestart
  <1>15. ASSUME RedisRestart PROVE TypeOK'
    <2>1. NewSession \in Session
      BY DEF NewSession, Session
    <2>2. \A b \in Browsers : InUse(b) \in BOOLEAN
      BY DEF InUse, Busy, Navigating
    <2> QED
      BY <1>15, <1>s, <2>1, <2>2 DEF RedisRestart
  <1>16. ASSUME UNCHANGED vars PROVE TypeOK'
    BY <1>16 DEF vars
  <1> QED
    BY <1>1, <1>2, <1>3, <1>4, <1>5, <1>6, <1>7, <1>8, <1>9, <1>10, <1>11,
       <1>12, <1>13, <1>14, <1>15, <1>16 DEF Next

\* A record of which one field is set.
LEMMA MovedPc ==
    ASSUME TypeOK, NEW q \in Questions, NEW from, NEW to, Moves(q, from, to)
    PROVE  /\ request[q].pc = from
           /\ request'[q] = [request[q] EXCEPT !.pc = to]
           /\ request'[q].pc = to
           /\ request'[q].from = request[q].from
           /\ request'[q].session = request[q].session
           /\ \A r \in Questions \ {q} : request'[r] = request[r]
  BY DEF Moves, TypeOK, Request

\* The browser a request came from is settled when it is sent, and an answered
\* or failed request stays so.
Kept(R, S, q) ==
    /\ R[q].pc # "unsent" => S[q].pc # "unsent" /\ S[q].from = R[q].from
    /\ R[q].pc \in {"replied", "over"} => S[q].pc \in {"replied", "over"}
    /\ R[q].pc = "unsent" /\ S[q].pc # "unsent" => S[q].from \in Browsers
    /\ S[q].pc = "unsent" => S[q].from = R[q].from

LEMMA RequestsKept ==
    ASSUME TypeInv, [Next]_vars, NEW q \in Questions
    PROVE  Kept(request, request', q)
  <1> USE DEF TypeInv, Kept
  <1>0. request \in [Questions -> Request]
    BY DEF TypeOK
  <1>1. ASSUME NEW r \in Questions, NEW from, NEW to, Moves(r, from, to),
               from # "unsent", to # "unsent",
               from \in {"replied", "over"} => to \in {"replied", "over"}
        PROVE  Kept(request, request', q)
    <2>1. CASE q = r
      <3>1. /\ request[r].pc = from /\ request'[r].pc = to
            /\ request'[r].from = request[r].from
        BY <1>1, MovedPc
      <3> QED
        BY <1>1, <2>1, <3>1
    <2>2. CASE q # r
      <3>1. request'[q] = request[q]
        BY <1>1, <2>2, MovedPc
      <3> QED
        BY <3>1 DEF SentFrom
    <2> QED
      BY <2>1, <2>2
  <1>2. ASSUME NEW b \in Browsers, request' = Left(b)
        PROVE  Kept(request, request', q)
    BY <1>0, <1>2 DEF Left, Request, SentFrom
  <1>3. ASSUME NEW b \in Browsers, NEW r \in Questions, Click(b, r)
        PROVE  Kept(request, request', q)
    BY <1>0, <1>3 DEF Click, Request, SentFrom
  <1>4. ASSUME NEW b \in Browsers, NEW r \in Questions, ResetAsks(b, r)
        PROVE  Kept(request, request', q)
    <2>1. request'[r] = [request[r] EXCEPT !.pc = "sent", !.from = b]
      BY <1>4 DEF ResetAsks, Left
    <2>2. q # r => request'[q] = Left(b)[q]
      BY <1>4 DEF ResetAsks, Left
    <2>0. request'[r].pc = "sent" /\ request'[r].from = b
      BY <1>0, <2>1 DEF Request
    <2>3. CASE q = r
      BY <1>4, <2>0, <2>3 DEF ResetAsks
    <2>4. CASE q # r
      BY <1>0, <2>2, <2>4 DEF Left, Request, SentFrom
    <2> QED
      BY <2>3, <2>4
  <1>5. ASSUME NEW r \in Questions, Open(r) PROVE Kept(request, request', q)
    BY <1>0, <1>5 DEF Open, Request, SentFrom
  <1>6. ASSUME NEW r \in Questions, Finish(r) PROVE Kept(request, request', q)
    BY <1>0, <1>6 DEF Finish, Request, SentFrom
  <1>7. ASSUME NEW r \in Questions, Fail(r) PROVE Kept(request, request', q)
    BY <1>0, <1>7 DEF Fail, Request, SentFrom, Serving
  <1>8. ASSUME AppRestart PROVE Kept(request, request', q)
    BY <1>0, <1>8 DEF AppRestart, Request, SentFrom, Serving
  <1>9. ASSUME UNCHANGED request PROVE Kept(request, request', q)
    BY <1>0, <1>9 DEF SentFrom
  <1>10. ASSUME NEW r \in Questions,
                \/ Classify(r) \/ FetchData(r) \/ AskModel(r)
                \/ ModelAnswers(r) \/ Deliver(r)
         PROVE  Kept(request, request', q)
    BY <1>1, <1>10 DEF Classify, FetchData, AskModel, ModelAnswers, Deliver
  <1> QED
    BY <1>2, <1>3, <1>4, <1>5, <1>6, <1>7, <1>8, <1>9, <1>10
    DEF Next, Follow, OpenPage, Save, FetchOpen, FetchSave, RedisRestart, vars

\* The inductive part of the type invariant.
LEMMA TypeInvKept == TypeInv /\ [Next]_vars => TypeInv'
  <1> SUFFICES ASSUME TypeInv, [Next]_vars PROVE TypeInv'
    OBVIOUS
  <1>1. ASSUME NEW q \in Questions
        PROVE  IF request'[q].pc = "unsent" THEN request'[q].from = NoBrowser
               ELSE request'[q].from \in Browsers
    <2>1. Kept(request, request', q)
      BY RequestsKept
    <2> QED
      BY <2>1 DEF Kept, TypeInv, SentFrom
  <1>2. SentFrom'
    BY <1>1 DEF SentFrom
  <1> QED
    BY <1>2, NextType DEF TypeInv

LEMMA TypeInvInit == Init => TypeInv
  BY InitType DEF Init, TypeInv, SentFrom

\* Types of all variables, for any browsers and questions.
THEOREM TypeCorrect == Spec => []TypeOK
  <1>1. TypeInv => TypeOK
    BY DEF TypeInv
  <1> QED
    BY <1>1, TypeInvInit, TypeInvKept, PTL DEF Spec

-----------------------------------------------------------------------------
(* Own lines.  However copies of a session overwrite each other, every one of *)
(* them, what is stored and what is shown holds questions of its browser that *)
(* have been answered, each once: an open question is in none of them yet.    *)

Own(R, b, h) ==
    /\ \A i \in 1..Len(h) :
        R[h[i]].from = b /\ R[h[i]].pc \in {"replied", "over"}
    /\ \A i, j \in 1..Len(h) : h[i] = h[j] => i = j

\* What request q holds: nothing before it is opened, then its browser's lines.
Holds(R, q) ==
    /\ R[q].pc \in {"unsent", "sent"} => R[q].session.history = <<>>
    /\ Own(R, R[q].from, R[q].session.history)

LinesInv ==
    /\ \A b \in Browsers :
        /\ Own(request, b, redis[b].history)
        /\ Own(request, b, nav[b].session.history)
        /\ Own(request, b, fetch[b].session.history)
        /\ Own(request, b, page[b].shown)
    /\ \A q \in Questions : Holds(request, q)

LEMMA OwnEmpty == ASSUME NEW R, NEW b PROVE Own(R, b, <<>>)
  BY DEF Own

LEMMA OwnKept ==
    ASSUME NEW R, NEW S, \A q \in Questions : Kept(R, S, q),
           NEW b, NEW h \in Seq(Questions), Own(R, b, h)
    PROVE  Own(S, b, h)
  <1>1. ASSUME NEW i \in 1..Len(h)
        PROVE  S[h[i]].from = b /\ S[h[i]].pc \in {"replied", "over"}
    <2>1. h[i] \in Questions
      OBVIOUS
    <2>2. R[h[i]].from = b /\ R[h[i]].pc \in {"replied", "over"}
      BY DEF Own
    <2> QED
      BY <2>1, <2>2 DEF Kept
  <1> QED
    BY <1>1 DEF Own

\* An answered question is appended to lines it is not among.
LEMMA OwnAppend ==
    ASSUME NEW R, NEW b, NEW h \in Seq(Questions), Own(R, b, h),
           NEW q \in Questions, R[q].from = b, R[q].pc \in {"replied", "over"},
           \A i \in 1..Len(h) : h[i] # q
    PROVE  Own(R, b, Append(h, q))
  <1>1. /\ Len(Append(h, q)) = Len(h) + 1
        /\ \A i \in 1..Len(h) : Append(h, q)[i] = h[i]
        /\ Append(h, q)[Len(h) + 1] = q
    OBVIOUS
  <1>2. Len(h) \in Nat
    OBVIOUS
  <1> QED
    BY <1>1, <1>2 DEF Own

\* The history after a route.
LEMMA OwnAfter ==
    ASSUME NEW R, NEW b, NEW route, NEW s \in Session,
           Own(R, b, s.history)
    PROVE  Own(R, b, After(route, s).history)
  <1>1. After(route, s).history \in {s.history, <<>>}
    BY DEF After
  <1> QED
    BY <1>1, OwnEmpty

LEMMA LinesInit == Init => LinesInv
  BY OwnEmpty DEF Init, LinesInv, Holds, NewSession, NoFetch, Showing

\* Every session a browser has, stored, copied or shown, after a step.
LEMMA LinesNext ==
    ASSUME TypeInv, LinesInv, [Next]_vars
    PROVE  LinesInv'
  <1>r. \A q \in Questions : Kept(request, request', q)
    BY RequestsKept
  <1>t. /\ request \in [Questions -> Request]
        /\ redis \in [Browsers -> Session]
        /\ nav \in [Browsers -> Navigation]
        /\ fetch \in [Browsers -> Fetch]
        /\ page \in [Browsers -> Page]
    BY DEF TypeInv, TypeOK
  <1>h. /\ \A b \in Browsers :
             /\ redis[b].history \in Seq(Questions)
             /\ nav[b].session.history \in Seq(Questions)
             /\ fetch[b].session \in Session
             /\ fetch[b].session.history \in Seq(Questions)
             /\ page[b].shown \in Seq(Questions)
        /\ \A q \in Questions : request[q].session.history \in Seq(Questions)
    BY <1>t DEF Session, Navigation, Fetch, Page, Request
  <1>o. /\ \A b \in Browsers :
             /\ Own(request', b, redis[b].history)
             /\ Own(request', b, nav[b].session.history)
             /\ Own(request', b, fetch[b].session.history)
             /\ Own(request', b, page[b].shown)
        /\ \A q \in Questions :
             Own(request', request[q].from, request[q].session.history)
    BY <1>r, <1>h, OwnKept DEF LinesInv, Holds
  <1>e. \A b : Own(request', b, <<>>)
    BY OwnEmpty
  \* A request that keeps its session, or loses it, holds what it held.
  <1>k. ASSUME NEW q \in Questions, request'[q].session = request[q].session,
               request'[q].pc \in {"unsent", "sent"} =>
                    request[q].pc \in {"unsent", "sent"}
        PROVE  Holds(request', q)
    <2>1. CASE request[q].pc = "unsent"
      BY <1>e, <1>k, <2>1 DEF LinesInv, Holds
    <2>2. CASE request[q].pc # "unsent"
      <3>1. request'[q].from = request[q].from
        BY <1>r, <2>2 DEF Kept
      <3> QED
        BY <1>k, <1>o, <3>1 DEF LinesInv, Holds
    <2> QED
      BY <2>1, <2>2
  <1> DEFINE Sessions == \A b \in Browsers :
                            /\ Own(request', b, redis'[b].history)
                            /\ Own(request', b, nav'[b].session.history)
                            /\ Own(request', b, fetch'[b].session.history)
                            /\ Own(request', b, page'[b].shown)
             Requests == \A q \in Questions : Holds(request', q)
  <1>s. ASSUME UNCHANGED <<redis, nav, fetch, page>> PROVE Sessions
    BY <1>o, <1>s
  <1>q. ASSUME UNCHANGED request PROVE Requests
    BY <1>k, <1>q
  <1>m. ASSUME NEW r \in Questions, NEW from, NEW to, Moves(r, from, to),
               to \notin {"unsent", "sent"}
        PROVE  Requests
    <2>1. /\ request'[r].pc = to
          /\ request'[r].session = request[r].session
          /\ \A q \in Questions \ {r} : request'[q] = request[q]
      <3>1. TypeOK
        BY DEF TypeInv
      <3> QED
        <4>1. request'[r].pc = to /\ request'[r].session = request[r].session
          <5>1. /\ request'[r] = [request[r] EXCEPT !.pc = to]
                /\ request'[r].pc = to
            BY <1>m, <3>1, MovedPc
          <5>2. request[r] \in Request
            BY <1>t
          <5> QED
            BY <5>1, <5>2 DEF Request
        <4>2. \A q \in Questions \ {r} : request'[q] = request[q]
          BY <1>m, <3>1, MovedPc
        <4> QED
          BY <4>1, <4>2
    <2> QED
      BY <1>k, <1>m, <2>1
  <1>l. ASSUME NEW b \in Browsers, NEW route, Leaves(b, route),
               redis' = redis, fetch' = fetch
        PROVE  Sessions
    <2>1. \A c \in Browsers :
            /\ nav'[c].session = nav[c].session
            /\ page'[c].shown \in {page[c].shown, <<>>}
      BY <1>l, <1>t DEF Leaves, Navigation, Showing
    <2> QED
      BY <1>e, <1>l, <1>o, <2>1
  <1>1. ASSUME NEW b \in Browsers, OpenPage(b) PROVE Sessions /\ Requests
    <2>1. \A c \in Browsers :
            nav'[c].session \in {nav[c].session, redis[c]}
      BY <1>1, <1>t DEF OpenPage, Navigation
    <2> QED
      BY <1>1, <1>o, <1>q, <2>1 DEF OpenPage
  <1>2. ASSUME NEW b \in Browsers, FetchOpen(b) \/ FetchSave(b)
        PROVE  Sessions /\ Requests
    <2>1. UNCHANGED <<request, nav, page>>
      BY <1>2 DEF FetchOpen, FetchSave
    <2>2. \A c \in Browsers :
            fetch'[c].session.history \in
                {fetch[c].session.history, redis[c].history, <<>>}
      <3>1. \A c \in Browsers :
              \/ fetch'[c] = fetch[c]
              \/ fetch'[c] = [open |-> TRUE, session |-> redis[c]]
              \/ fetch'[c] = NoFetch
        BY <1>2, <1>t DEF FetchOpen, FetchSave
      <3>2. NoFetch.session.history = <<>>
        BY DEF NoFetch, NewSession
      <3>3. ASSUME NEW c \in Browsers,
                   fetch'[c] = [open |-> TRUE, session |-> redis[c]]
            PROVE  fetch'[c].session.history = redis[c].history
        BY <3>3
      <3> QED
        BY <3>1, <3>2, <3>3
    <2>3. \A c \in Browsers : redis'[c] \in {redis[c], fetch[c].session}
      <3>1. CASE FetchOpen(b)
        BY <3>1 DEF FetchOpen
      <3>2. CASE FetchSave(b)
        BY <1>h, <3>2, StoredRest DEF FetchSave, TypeInv
      <3> QED
        BY <1>2, <3>1, <3>2
    <2> QED
      BY <1>e, <1>o, <1>q, <2>1, <2>2, <2>3
  <1>3. ASSUME NEW b \in Browsers, Save(b) PROVE Sessions /\ Requests
    <2> DEFINE s == nav[b].session
    <2>1. s \in Session
      BY <1>t DEF Navigation
    <2>2. Own(request', b, After(nav[b].route, s).history)
      BY <1>o, <2>1, OwnAfter
    <2>3. \A c \in Browsers :
            /\ redis'[c] = redis[c] \/ (c = b /\ redis'[c] = After(nav[b].route, s))
            /\ nav'[c].session = nav[c].session
            /\ page'[c].shown \in {page[c].shown, <<>>}
      <3>1. \A c \in Browsers :
              redis'[c] = redis[c] \/ (c = b /\ redis'[c] = After(nav[b].route, s))
        BY <1>3, <2>1, AfterType, StoredRest DEF Save, TypeInv
      <3>2. \A c \in Browsers : nav'[c].session = nav[c].session
        <4>1. \/ nav' = [nav EXCEPT ![b].pc = "idle"]
              \/ nav' = [nav EXCEPT ![b] =
                            [nav[b] EXCEPT !.pc = "sent", !.route = "home"]]
          BY <1>3, Zenon DEF Save
        <4>2. nav[b] \in Navigation
          BY <1>t
        <4>3. nav'[b].session = nav[b].session
          <5>1. \/ nav'[b] = [nav[b] EXCEPT !.pc = "idle"]
                \/ nav'[b] = [nav[b] EXCEPT !.pc = "sent", !.route = "home"]
            BY <1>t, <4>1
          <5> QED
            BY <4>2, <5>1 DEF Navigation
        <4>4. \A c \in Browsers \ {b} : nav'[c] = nav[c]
          BY <1>t, <4>1
        <4> QED
          BY <4>3, <4>4
      <3>3. \A c \in Browsers : page'[c].shown \in {page[c].shown, <<>>}
        BY <1>3, <1>t DEF Save, Showing
      <3> QED
        BY <3>1, <3>2, <3>3
    <2> QED
      BY <1>3, <1>e, <1>o, <1>q, <2>2, <2>3 DEF Save
  <1>4. ASSUME NEW b \in Browsers, NEW route \in Routes, Follow(b, route)
        PROVE  Sessions /\ Requests
    <2>1. \A q \in Questions :
            /\ request'[q].session = request[q].session
            /\ request'[q].pc = request[q].pc
      BY <1>4, <1>t DEF Follow, Left, Request
    <2> QED
      BY <1>4, <1>k, <1>l, <2>1 DEF Follow
  <1>5. ASSUME NEW b \in Browsers, NEW r \in Questions,
               Click(b, r) \/ ResetAsks(b, r)
        PROVE  Sessions /\ Requests
    <2>1. CASE Click(b, r)
      <3>1. \A q \in Questions :
              /\ request'[q].session = request[q].session
              /\ request'[q].pc = request[q].pc \/ q = r
        BY <2>1, <1>t DEF Click, Request
      <3>2. Requests
        BY <2>1, <1>k, <3>1 DEF Click
      <3> QED
        BY <2>1, <1>s, <3>2 DEF Click
    <2>2. CASE ResetAsks(b, r)
      <3>1. request'[r] = [request[r] EXCEPT !.pc = "sent", !.from = b]
        BY <2>2, <1>t DEF ResetAsks, Left
      <3>2. \A q \in Questions \ {r} : request'[q] = Left(b)[q]
        BY <2>2, <1>t DEF ResetAsks, Left
      <3>3. \A q \in Questions \ {r} :
              /\ Left(b)[q].session = request[q].session
              /\ Left(b)[q].pc = request[q].pc
        BY <1>t DEF Left, Request
      <3>4. request'[r].session = request[r].session
        BY <1>t, <3>1 DEF Request
      <3>5. request[r].pc = "unsent"
        BY <2>2 DEF ResetAsks
      <3>6. Requests
        BY <1>k, <3>2, <3>3, <3>4, <3>5
      <3> QED
        BY <2>2, <1>l, <3>6 DEF ResetAsks
    <2> QED
      BY <1>5, <2>1, <2>2
  <1>6. ASSUME NEW r \in Questions, Open(r) PROVE Sessions /\ Requests
    <2> DEFINE b == request[r].from
    <2>1. b \in Browsers
      BY <1>6 DEF Open, TypeInv, SentFrom
    <2>2. /\ request'[r].session = redis[b] /\ request'[r].pc = "classify"
          /\ request'[r].from = b
          /\ \A q \in Questions \ {r} : request'[q] = request[q]
      BY <1>6, <1>t DEF Open, Request
    <2>3. Holds(request', r)
      BY <1>o, <2>1, <2>2 DEF Holds
    <2>4. Requests
      BY <1>k, <2>2, <2>3
    <2> QED
      BY <1>6, <1>s, <2>4 DEF Open
  <1>7. ASSUME NEW r \in Questions, Finish(r) PROVE Sessions /\ Requests
    <2> DEFINE b == request[r].from
               h == request[r].session.history
               s == [request[r].session EXCEPT !.history = Append(h, r)]
    <2>1. b \in Browsers /\ request[r].session \in Session
      BY <1>7, <1>t DEF Finish, TypeInv, SentFrom, Request
    <2>2. s.history = Append(h, r)
      BY <2>1 DEF Session
    <2>3. /\ request'[r].session = s /\ request'[r].pc = "replied"
          /\ request'[r].from = b
          /\ \A q \in Questions \ {r} : request'[q] = request[q]
      BY <1>7, <1>t DEF Finish, Request
    <2>4. \A i \in 1..Len(h) : h[i] # r
      <3>1. \A i \in 1..Len(h) : request[h[i]].pc \in {"replied", "over"}
        BY DEF LinesInv, Holds, Own
      <3> QED
        BY <1>7, <3>1 DEF Finish
    <2>5. Own(request', b, Append(h, r))
      BY <1>h, <1>o, <2>3, <2>4, OwnAppend
    <2>6. Requests
      <3>1. Holds(request', r)
        BY <2>2, <2>3, <2>5 DEF Holds
      <3> QED
        BY <1>k, <2>3, <3>1
    <2>7. \A c \in Browsers : redis'[c] = redis[c] \/ (c = b /\ redis'[c] = s)
      <3>1. redis' = [redis EXCEPT ![b] = s]
        BY <1>7, Zenon DEF Finish
      <3> QED
        BY <1>t, <3>1
    <2>8. Sessions
      BY <1>7, <1>o, <2>2, <2>5, <2>7 DEF Finish
    <2> QED
      BY <2>6, <2>8
  <1>8. ASSUME NEW r \in Questions,
               Classify(r) \/ FetchData(r) \/ AskModel(r) \/ ModelAnswers(r)
        PROVE  Sessions /\ Requests
    BY <1>8, <1>m, <1>s DEF Classify, FetchData, AskModel, ModelAnswers
  <1>9. ASSUME NEW r \in Questions, Deliver(r) PROVE Sessions /\ Requests
    <2>1. /\ request[r].from \in Browsers
          /\ Own(request', request[r].from, request[r].session.history)
      BY <1>9, <1>o DEF Deliver, Moves, TypeInv, SentFrom
    <2>2. \A c \in Browsers :
            \/ page'[c].shown = page[c].shown
            \/ /\ c = request[r].from
               /\ page'[c].shown = request[r].session.history
      BY <1>9, <1>t DEF Deliver, Page
    <2>3. Requests
      BY <1>9, <1>m DEF Deliver
    <2> QED
      BY <1>9, <1>o, <2>1, <2>2, <2>3 DEF Deliver
  <1>10. ASSUME NEW r \in Questions, Fail(r) PROVE Sessions /\ Requests
    <2>1. \A q \in Questions :
            /\ request'[q].session = request[q].session
            /\ request'[q].pc = "over" \/ request'[q] = request[q]
      BY <1>10, <1>t DEF Fail, Request
    <2>2. Requests
      BY <1>k, <2>1
    <2> QED
      BY <1>10, <1>s, <2>2 DEF Fail
  <1>11. ASSUME AppRestart PROVE Sessions /\ Requests
    <2>1. \A q \in Questions :
            /\ request'[q].session = request[q].session
            /\ request'[q].pc = "over" \/ request'[q] = request[q]
      BY <1>11, <1>t DEF AppRestart, Request
    <2>2. \A c \in Browsers : nav'[c].session = nav[c].session
      BY <1>11, <1>t DEF AppRestart, Navigation
    <2>3. Requests
      BY <1>k, <2>1
    <2>4. \A c \in Browsers : fetch'[c].session.history = <<>>
      BY <1>11 DEF AppRestart, NoFetch, NewSession
    <2> QED
      BY <1>11, <1>e, <1>o, <2>2, <2>3, <2>4 DEF AppRestart
  <1>12. ASSUME RedisRestart PROVE Sessions /\ Requests
    <2>1. \A c \in Browsers : redis'[c].history = <<>>
      BY <1>12 DEF RedisRestart, NewSession
    <2> QED
      BY <1>12, <1>e, <1>o, <1>q, <2>1 DEF RedisRestart
  <1>13. ASSUME UNCHANGED vars PROVE Sessions /\ Requests
    BY <1>13, <1>q, <1>s DEF vars
  <1>14. Sessions /\ Requests
    BY <1>1, <1>2, <1>3, <1>4, <1>5, <1>6, <1>7, <1>8, <1>9, <1>10, <1>11,
       <1>12, <1>13 DEF Next
  <1> QED
    BY <1>14 DEF LinesInv

\* Own questions only, and none twice, for any browsers and questions.
THEOREM LinesAreOwn == Spec => []OwnLines
  <1>1. TypeInv /\ LinesInv => OwnLines
    <2> SUFFICES ASSUME TypeInv, LinesInv, NEW b \in Browsers,
                        NEW lines \in {redis[b].history, page[b].shown}
                 PROVE  /\ \A q \in Range(lines) : request[q].from = b
                        /\ \A i, j \in 1..Len(lines) : lines[i] = lines[j] => i = j
      BY DEF OwnLines
    <2>1. Own(request, b, lines)
      BY DEF LinesInv
    <2>2. lines \in Seq(Questions)
      BY DEF TypeInv, TypeOK, Session, Page
    <2>3. DOMAIN lines = 1..Len(lines)
      BY <2>2
    <2> QED
      BY <2>1, <2>3 DEF Own, Range
  <1>2. TypeInv /\ LinesInv /\ [Next]_vars => LinesInv'
    BY LinesNext
  <1>3. Init => LinesInv
    BY LinesInit
  <1> QED
    BY <1>1, <1>2, <1>3, TypeInvInit, TypeInvKept, PTL DEF Spec

-----------------------------------------------------------------------------
(* The exact history.  While no requests of a browser overlap, it has one open *)
(* request at most, and what that request has loaded is still what is stored.  *)

Serves(R, q, b) == R[q].from = b /\ R[q].pc \in Serving

\* s, n, f, a: the stored session, the navigation, the fetch and the answers
\* of browser b.
Calm(R, s, n, f, a, b) ==
    /\ s.history = a
    /\ n.pc = "open" => n.session = s
    /\ f.open => f.session = s /\ n.pc # "open"
    /\ \A q \in Questions :
        Serves(R, q, b) =>
            /\ R[q].session = s
            /\ n.pc # "open" /\ ~f.open
            /\ \A r \in Questions : Serves(R, r, b) => r = q

CalmOf(b) == Calm(request, redis[b], nav[b], fetch[b], answered[b], b)

ExactInv == \A b \in Browsers : ~disturbed[b] => CalmOf(b)

\* Requests of b end, its navigation and its fetch do not begin.
LEMMA CalmEnds ==
    ASSUME NEW R, NEW Q, NEW s, NEW n, NEW m, NEW f, NEW g, NEW a, NEW b,
           Calm(R, s, n, f, a, b),
           m.pc = "open" => n.pc = "open" /\ m.session = n.session,
           g.open => f.open /\ g.session = f.session,
           \A q \in Questions :
                Serves(Q, q, b) => Serves(R, q, b) /\ Q[q].session = R[q].session
    PROVE  Calm(Q, s, m, g, a, b)
  BY DEF Calm

\* The browser's only request begins with what is stored.
LEMMA CalmBegins ==
    ASSUME NEW R, NEW Q, NEW s, NEW n, NEW f, NEW a, NEW b, NEW q \in Questions,
           Calm(R, s, n, f, a, b), n.pc # "open", ~f.open,
           \A r \in Questions : ~Serves(R, r, b),
           Q[q].session = s, \A r \in Questions \ {q} : Q[r] = R[r]
    PROVE  Calm(Q, s, n, f, a, b)
  BY DEF Calm, Serves

\* With no request open, anything may be stored that has the answers.
LEMMA CalmStored ==
    ASSUME NEW R, NEW s, NEW n, NEW f, NEW a, NEW b,
           s.history = a, n.pc # "open", ~f.open,
           \A r \in Questions : ~Serves(R, r, b)
    PROVE  Calm(R, s, n, f, a, b)
  BY DEF Calm

LEMMA DisturbedStays ==
    ASSUME TypeInv, [Next]_vars, NEW b \in Browsers, disturbed[b]
    PROVE  disturbed'[b]
  <1>t. disturbed \in [Browsers -> BOOLEAN]
    BY DEF TypeInv, TypeOK
  <1>1. ASSUME NEW c \in Browsers, OpenPage(c) PROVE disturbed'[b]
    BY <1>1, <1>t, Zenon DEF OpenPage
  <1>2. ASSUME NEW q \in Questions, Open(q) PROVE disturbed'[b]
    BY <1>2, <1>t, Zenon DEF Open
  <1>3. ASSUME RedisRestart PROVE disturbed'[b]
    BY <1>3, Zenon DEF RedisRestart
  <1>4. ASSUME NEW c \in Browsers, FetchOpen(c) PROVE disturbed'[b]
    BY <1>4, <1>t, Zenon DEF FetchOpen
  <1>5. ASSUME UNCHANGED disturbed PROVE disturbed'[b]
    BY <1>5
  <1> QED
    BY <1>1, <1>2, <1>3, <1>4, <1>5
    DEF Next, FetchSave, Save, Follow, Click, ResetAsks, Classify, FetchData,
        AskModel, ModelAnswers, Finish, Fail, Deliver, AppRestart, vars

LEMMA ExactNext ==
    ASSUME TypeInv, ExactInv, [Next]_vars, NEW b \in Browsers, ~disturbed'[b]
    PROVE  CalmOf(b)'
  <1>c. Calm(request, redis[b], nav[b], fetch[b], answered[b], b)
    BY DisturbedStays DEF ExactInv, CalmOf
  <1>t. /\ request \in [Questions -> Request]
        /\ redis \in [Browsers -> Session]
        /\ nav \in [Browsers -> Navigation]
        /\ fetch \in [Browsers -> Fetch]
        /\ answered \in [Browsers -> Seq(Questions)]
        /\ disturbed \in [Browsers -> BOOLEAN]
    BY DEF TypeInv, TypeOK
  <1> DEFINE Goal == Calm(request', redis'[b], nav'[b], fetch'[b], answered'[b], b)
  <1> SUFFICES Goal
    BY DEF CalmOf
  \* What leaves b's session and navigation alone and opens none of its requests.
  <1>k. ASSUME redis'[b] = redis[b], answered'[b] = answered[b],
               nav'[b].pc = "open" =>
                    nav[b].pc = "open" /\ nav'[b].session = nav[b].session,
               fetch'[b].open =>
                    fetch[b].open /\ fetch'[b].session = fetch[b].session,
               \A q \in Questions :
                    Serves(request', q, b) =>
                        /\ Serves(request, q, b)
                        /\ request'[q].session = request[q].session
        PROVE  Goal
    BY <1>c, <1>k, CalmEnds
  <1>m. ASSUME NEW r \in Questions, NEW from, NEW to, Moves(r, from, to),
               to \in Serving => from \in Serving,
               UNCHANGED <<redis, answered, nav, fetch>>
        PROVE  Goal
    <2>1. TypeOK
      BY DEF TypeInv
    <2>2. /\ request[r].pc = from /\ request'[r].pc = to
          /\ request'[r].from = request[r].from
          /\ request'[r].session = request[r].session
      <3>1. /\ request[r].pc = from /\ request'[r].pc = to
            /\ request'[r] = [request[r] EXCEPT !.pc = to]
        BY <1>m, <2>1, MovedPc
      <3>2. request[r] \in Request
        BY <1>t
      <3> QED
        BY <3>1, <3>2 DEF Request
    <2>3. \A q \in Questions \ {r} : request'[q] = request[q]
      BY <1>m, <2>1, MovedPc
    <2>4. \A q \in Questions :
            Serves(request', q, b) =>
                /\ Serves(request, q, b)
                /\ request'[q].session = request[q].session
      BY <1>m, <2>2, <2>3 DEF Serves
    <2> QED
      BY <1>k, <1>m, <2>4
  <1>l. ASSUME NEW c \in Browsers, NEW route, Leaves(c, route) 
        PROVE  nav'[b].pc = "open" =>
                    nav[b].pc = "open" /\ nav'[b].session = nav[b].session
    <2>1. nav'[c] = [nav[c] EXCEPT !.pc = "sent", !.route = route]
      BY <1>l, <1>t DEF Leaves
    <2>2. nav[c] \in Navigation
      BY <1>t
    <2>3. nav'[c].pc = "sent"
      BY <2>1, <2>2 DEF Navigation
    <2>4. b # c => nav'[b] = nav[b]
      BY <1>l, <1>t DEF Leaves
    <2> QED
      BY <2>3, <2>4
  <1>1. ASSUME NEW c \in Browsers, OpenPage(c) PROVE Goal
    <2>1. CASE b = c
      <3>1. ~Busy(b)
        BY <1>1, <1>t, <2>1, Zenon DEF OpenPage
      <3>2. \A q \in Questions : ~Serves(request, q, b)
        BY <3>1 DEF Busy, Asking, Serves
      <3>7. ~fetch[b].open
        BY <3>1 DEF Busy
      <3>3. nav[b] \in Navigation
        BY <1>t
      <3>4. nav'[b] = [nav[b] EXCEPT !.pc = "open", !.session = redis[b]]
        BY <1>1, <1>t, <2>1 DEF OpenPage
      <3>5. nav'[b].session = redis[b]
        BY <3>3, <3>4 DEF Navigation
      <3>6. /\ request' = request /\ redis'[b] = redis[b]
            /\ answered'[b] = answered[b] /\ fetch'[b] = fetch[b]
        BY <1>1 DEF OpenPage
      <3> QED
        BY <1>c, <3>2, <3>5, <3>6, <3>7 DEF Calm
    <2>2. CASE b # c
      <3>1. nav'[b] = nav[b]
        BY <1>1, <1>t, <2>2 DEF OpenPage
      <3> QED
        BY <1>1, <1>k, <3>1 DEF OpenPage
    <2> QED
      BY <2>1, <2>2
  <1>2. ASSUME NEW c \in Browsers, FetchOpen(c) \/ FetchSave(c) PROVE Goal
    <2>1. UNCHANGED <<request, nav, answered>>
      BY <1>2 DEF FetchOpen, FetchSave
    <2>2. CASE b # c
      <3>1. fetch'[b] = fetch[b]
        BY <1>2, <1>t, <2>2 DEF FetchOpen, FetchSave
      <3>2. fetch[c].session \in Session
        BY <1>t DEF Fetch
      <3>3. redis'[b] = redis[b]
        BY <1>2, <2>2, <3>2, StoredRest DEF FetchOpen, FetchSave, TypeInv
      <3> QED
        BY <1>k, <2>1, <3>1, <3>3
    <2>3. CASE b = c /\ FetchOpen(b)
      <3>1. ~Busy(b)
        BY <1>t, <2>3, Zenon DEF FetchOpen
      <3>2. nav[b].pc # "open" /\ \A q \in Questions : ~Serves(request, q, b)
        BY <3>1 DEF Busy, Navigating, Asking, Serves
      <3>3. fetch'[b].session = redis[b] /\ redis' = redis
        BY <1>t, <2>3 DEF FetchOpen
      <3> QED
        BY <1>c, <2>1, <3>2, <3>3 DEF Calm
    <2>4. CASE b = c /\ FetchSave(b)
      <3>1. /\ fetch[b].session = redis[b] /\ nav[b].pc # "open"
            /\ redis[b].history = answered[b]
            /\ \A q \in Questions : ~Serves(request, q, b)
        BY <1>c, <2>4 DEF FetchSave, Calm
      <3>2. ~fetch'[b].open
        BY <1>t, <2>4 DEF FetchSave, NoFetch
      <3>3. redis[b] \in Session
        BY <1>t
      <3>4. redis'[b] = redis[b]
        BY <2>4, <3>1, <3>3, StoredRest DEF FetchSave, TypeInv
      <3> QED
        BY <2>1, <3>1, <3>2, <3>4, CalmStored
    <2> QED
      BY <1>2, <2>2, <2>3, <2>4
  <1>3. ASSUME NEW c \in Browsers, Save(c) PROVE Goal
    <2>1. CASE b # c
      <3>1. nav'[b] = nav[b]
        BY <1>3, <1>t, <2>1 DEF Save
      <3>2. answered'[b] = answered[b]
        BY <1>3, <1>t, <2>1 DEF Save
      <3>3. nav[c].session \in Session
        BY <1>t DEF Navigation
      <3>4. redis'[b] = redis[b]
        BY <1>3, <2>1, <3>3, AfterType, StoredRest DEF Save, TypeInv
      <3> QED
        BY <1>3, <1>k, <3>1, <3>2, <3>4 DEF Save
    <2>2. CASE b = c
      <3> DEFINE s == nav[b].session
                 route == nav[b].route
      <3>1. /\ s \in Session /\ s = redis[b]
            /\ s.history = answered[b] /\ ~fetch[b].open
            /\ \A q \in Questions : ~Serves(request, q, b)
        BY <1>3, <1>c, <1>t, <2>2 DEF Save, Calm, Navigation
      <3>2. \/ redis'[b] = After(route, s)
            \/ ~Modified(route, s) /\ redis'[b] = s
        BY <1>3, <2>2, <3>1, AfterType, StoredRest DEF Save, TypeInv
      <3>3. answered'[b] = IF route = "reset" THEN <<>> ELSE answered[b]
        BY <1>3, <1>t, <2>2 DEF Save
      <3>4. After(route, s).history =
                IF route = "reset" THEN <<>> ELSE s.history
        BY DEF After
      <3>5. route = "reset" /\ ~Modified(route, s) => s.history = <<>>
        BY DEF Modified
      <3>6. redis'[b].history = answered'[b]
        BY <3>1, <3>2, <3>3, <3>4, <3>5
      <3>7. nav'[b].pc # "open"
        <4>1. nav[b] \in Navigation
          BY <1>t
        <4>2. \/ nav'[b] = [nav[b] EXCEPT !.pc = "idle"]
              \/ nav'[b] = [nav[b] EXCEPT !.pc = "sent", !.route = "home"]
          BY <1>3, <1>t, <2>2 DEF Save
        <4> QED
          BY <4>1, <4>2 DEF Navigation
      <3>8. request' = request /\ fetch' = fetch
        BY <1>3 DEF Save
      <3> QED
        BY <3>1, <3>6, <3>7, <3>8, CalmStored
    <2> QED
      BY <2>1, <2>2
  <1>4. ASSUME NEW c \in Browsers, NEW route \in Routes, Follow(c, route)
        PROVE  Goal
    <2>1. \A q \in Questions :
            /\ request'[q].from = request[q].from
            /\ request'[q].pc = request[q].pc
            /\ request'[q].session = request[q].session
      BY <1>4, <1>t DEF Follow, Left, Request
    <2> QED
      BY <1>4, <1>k, <1>l, <2>1 DEF Follow, Serves
  <1>5. ASSUME NEW c \in Browsers, NEW r \in Questions, Click(c, r) PROVE Goal
    <2>1. request'[r].pc = "sent" /\ \A q \in Questions \ {r} : request'[q] = request[q]
      BY <1>5, <1>t DEF Click, Request
    <2> QED
      BY <1>5, <1>k, <2>1 DEF Click, Serves, Serving
  <1>6. ASSUME NEW c \in Browsers, NEW r \in Questions, ResetAsks(c, r)
        PROVE  Goal
    <2>1. request'[r] = [request[r] EXCEPT !.pc = "sent", !.from = c]
      BY <1>6, <1>t DEF ResetAsks, Left
    <2>2. request[r] \in Request
      BY <1>t
    <2>3. request'[r].pc = "sent"
      BY <2>1, <2>2 DEF Request
    <2>4. \A q \in Questions \ {r} : request'[q] = Left(c)[q]
      BY <1>6, <1>t DEF ResetAsks, Left
    <2>5. \A q \in Questions :
            /\ Left(c)[q].from = request[q].from
            /\ Left(c)[q].pc = request[q].pc
            /\ Left(c)[q].session = request[q].session
      BY <1>t DEF Left, Request
    <2> QED
      BY <1>6, <1>k, <1>l, <2>3, <2>4, <2>5 DEF ResetAsks, Serves, Serving
  <1>7. ASSUME NEW r \in Questions, Open(r) PROVE Goal
    <2>1. /\ request'[r].session = redis[request[r].from]
          /\ request'[r].from = request[r].from
          /\ \A q \in Questions \ {r} : request'[q] = request[q]
      BY <1>7, <1>t DEF Open, Request
    <2>2. UNCHANGED <<redis, nav, fetch, answered>>
      BY <1>7 DEF Open
    <2>3. CASE request[r].from = b
      <3>1. ~Busy(b)
        BY <1>7, <1>t, <2>3, Zenon DEF Open
      <3>2. /\ nav[b].pc # "open" /\ ~fetch[b].open
            /\ \A q \in Questions : ~Serves(request, q, b)
        BY <3>1 DEF Busy, Navigating, Asking, Serves
      <3> QED
        BY <1>c, <2>1, <2>2, <2>3, <3>2, CalmBegins
    <2>4. CASE request[r].from # b
      BY <1>k, <2>1, <2>2, <2>4 DEF Serves
    <2> QED
      BY <2>3, <2>4
  <1>8. ASSUME NEW r \in Questions, Finish(r) PROVE Goal
    <2> DEFINE c == request[r].from
               h == request[r].session.history
               s == [request[r].session EXCEPT !.history = Append(h, r)]
    <2>1. c \in Browsers /\ request[r].session \in Session
      BY <1>8, <1>t DEF Finish, TypeInv, SentFrom, Request
    <2>2. /\ request'[r].pc = "replied"
          /\ \A q \in Questions \ {r} : request'[q] = request[q]
      BY <1>8, <1>t DEF Finish, Request
    <2>3. redis' = [redis EXCEPT ![c] = s]
      BY <1>8, Zenon DEF Finish
    <2>4. answered' = [answered EXCEPT ![c] = Append(answered[c], r)]
      BY <1>8, Zenon DEF Finish
    <2>5. nav' = nav /\ fetch' = fetch
      BY <1>8 DEF Finish
    <2>6. CASE c = b
      <3>1. Serves(request, r, b)
        BY <1>8, <2>6 DEF Finish, Serves, Serving
      <3>2. /\ request[r].session = redis[b]
            /\ nav[b].pc # "open" /\ ~fetch[b].open
            /\ redis[b].history = answered[b]
            /\ \A q \in Questions : Serves(request, q, b) => q = r
        BY <1>c, <3>1 DEF Calm
      <3>3. redis'[b] = s
        BY <1>t, <2>3, <2>6
      <3>4. s.history = Append(h, r)
        BY <2>1 DEF Session
      <3>5. answered'[b] = Append(answered[b], r)
        BY <1>t, <2>4, <2>6
      <3>6. \A q \in Questions : ~Serves(request', q, b)
        BY <2>2, <3>2 DEF Serves, Serving
      <3>7. redis'[b].history = answered'[b]
        BY <3>2, <3>3, <3>4, <3>5
      <3> QED
        BY <2>5, <3>2, <3>6, <3>7, CalmStored
    <2>7. CASE c # b
      <3>1. redis'[b] = redis[b] /\ answered'[b] = answered[b]
        BY <1>t, <2>3, <2>4, <2>7
      <3>2. \A q \in Questions :
              Serves(request', q, b) =>
                /\ Serves(request, q, b)
                /\ request'[q].session = request[q].session
        BY <2>2 DEF Serves, Serving
      <3> QED
        BY <1>k, <2>5, <3>1, <3>2
    <2> QED
      BY <2>6, <2>7
  <1>9. ASSUME NEW r \in Questions,
               \/ Classify(r) \/ FetchData(r) \/ AskModel(r)
               \/ ModelAnswers(r) \/ Deliver(r)
        PROVE  Goal
    BY <1>9, <1>m
    DEF Classify, FetchData, AskModel, ModelAnswers, Deliver, Serving
  <1>10. ASSUME NEW r \in Questions, Fail(r) PROVE Goal
    <2>1. \A q \in Questions :
            request'[q].pc = "over" \/ request'[q] = request[q]
      BY <1>10, <1>t DEF Fail, Request
    <2> QED
      BY <1>10, <1>k, <2>1 DEF Fail, Serves, Serving
  <1>11. ASSUME AppRestart PROVE Goal
    <2>1. \A q \in Questions :
            request'[q].pc = "over" \/ request'[q] = request[q]
      BY <1>11, <1>t DEF AppRestart, Request
    <2>2. nav'[b].pc = "open" =>
            nav[b].pc = "open" /\ nav'[b].session = nav[b].session
      BY <1>11, <1>t DEF AppRestart, Navigation
    <2>3. ~fetch'[b].open
      BY <1>11 DEF AppRestart, NoFetch
    <2> QED
      BY <1>11, <1>k, <2>1, <2>2, <2>3 DEF AppRestart, Serves, Serving
  <1>12. ASSUME RedisRestart PROVE Goal
    <2>1. ~Busy(b)
      BY <1>12, Zenon DEF RedisRestart, InUse
    <2>2. /\ nav[b].pc # "open" /\ ~fetch[b].open
          /\ \A q \in Questions : ~Serves(request, q, b)
      BY <2>1 DEF Busy, Navigating, Asking, Serves
    <2>3. /\ redis'[b].history = <<>> /\ answered'[b] = <<>>
          /\ UNCHANGED <<request, nav, fetch>>
      BY <1>12 DEF RedisRestart, NewSession
    <2> QED
      BY <2>2, <2>3, CalmStored
  <1>13. ASSUME UNCHANGED vars PROVE Goal
    BY <1>13, <1>c DEF vars
  <1> QED
    BY <1>1, <1>2, <1>3, <1>4, <1>5, <1>6, <1>7, <1>8, <1>9, <1>10, <1>11,
       <1>12, <1>13 DEF Next

\* Requests that do not overlap find what the last one stored.
THEOREM ExactInvariant == Spec => []ExactInv
  <1>1. Init => ExactInv
    BY DEF Init, ExactInv, CalmOf, Calm, Serves, Serving, NewSession, NoFetch
  <1>2. TypeInv /\ ExactInv /\ [Next]_vars => ExactInv'
    <2> SUFFICES ASSUME TypeInv, ExactInv, [Next]_vars,
                        NEW b \in Browsers, ~disturbed'[b]
                 PROVE  CalmOf(b)'
      BY DEF ExactInv
    <2> QED
      BY ExactNext
  <1> QED
    BY <1>1, <1>2, TypeInvInit, TypeInvKept, PTL DEF Spec

\* A question that a reset has cleared was over by then: it is not answered
\* again, so it is not among those answered since.
ClearedInv ==
    \A b \in Browsers : \A q \in cleared[b] :
        /\ request[q].pc \in {"replied", "over"}
        /\ \A i \in 1..Len(answered[b]) : answered[b][i] # q

LEMMA ClearedNext ==
    ASSUME TypeInv, LinesInv, ClearedInv, [Next]_vars
    PROVE  ClearedInv'
  <1>t. /\ request \in [Questions -> Request]
        /\ nav \in [Browsers -> Navigation]
        /\ answered \in [Browsers -> Seq(Questions)]
        /\ cleared \in [Browsers -> SUBSET Questions]
    BY DEF TypeInv, TypeOK
  <1>r. \A q \in Questions : request[q].pc \in {"replied", "over"} =>
            request'[q].pc \in {"replied", "over"}
    BY RequestsKept DEF Kept
  <1>1. ASSUME UNCHANGED <<answered, cleared>> PROVE ClearedInv'
    BY <1>1, <1>r, <1>t DEF ClearedInv
  <1>2. ASSUME NEW c \in Browsers, Save(c), nav[c].route = "reset"
        PROVE  ClearedInv'
    <2> DEFINE h == nav[c].session.history
    <2>1. h \in Seq(Questions) /\ Own(request, c, h)
      BY <1>t DEF Navigation, Session, LinesInv
    <2>2. \A q \in Range(h) : q \in Questions
                             /\ request[q].pc \in {"replied", "over"}
      BY <2>1 DEF Own, Range
    <2>3. /\ answered' = [answered EXCEPT ![c] = <<>>]
          /\ cleared' = [cleared EXCEPT ![c] = cleared[c] \cup Range(h)]
      BY <1>2 DEF Save
    <2>4. ASSUME NEW b \in Browsers, NEW q \in cleared'[b]
          PROVE  /\ request'[q].pc \in {"replied", "over"}
                 /\ \A i \in 1..Len(answered'[b]) : answered'[b][i] # q
      <3>1. CASE b = c
        <4>1. answered'[b] = <<>> /\ q \in cleared[c] \cup Range(h)
          BY <1>t, <2>3, <2>4, <3>1
        <4>2. request[q].pc \in {"replied", "over"} /\ q \in Questions
          BY <1>t, <2>2, <4>1 DEF ClearedInv
        <4> QED
          BY <1>r, <4>1, <4>2
      <3>2. CASE b # c
        <4>1. answered'[b] = answered[b] /\ q \in cleared[b]
          BY <1>t, <2>3, <2>4, <3>2
        <4> QED
          BY <1>r, <1>t, <4>1 DEF ClearedInv
      <3> QED
        BY <3>1, <3>2
    <2> QED
      BY <2>4 DEF ClearedInv
  <1>3. ASSUME NEW r \in Questions, Finish(r) PROVE ClearedInv'
    <2> DEFINE c == request[r].from
    <2>1. /\ answered' = [answered EXCEPT ![c] = Append(answered[c], r)]
          /\ cleared' = cleared /\ request[r].pc = "finish"
      BY <1>3 DEF Finish
    <2>2. ASSUME NEW b \in Browsers, NEW q \in cleared[b],
                 NEW i \in 1..Len(answered'[b])
          PROVE  answered'[b][i] # q
      <3>1. request[q].pc \in {"replied", "over"} /\ q # r
        BY <2>1 DEF ClearedInv
      <3>2. CASE b = c
        <4>1. answered'[b] = Append(answered[b], r)
          BY <1>t, <2>1, <3>2
        <4>2. answered[b] \in Seq(Questions)
          BY <1>t
        <4>3. CASE i = Len(answered[b]) + 1
          BY <3>1, <4>1, <4>2, <4>3
        <4>4. CASE i \in 1..Len(answered[b])
          BY <4>1, <4>2, <4>4 DEF ClearedInv
        <4> QED
          BY <4>1, <4>2, <4>3, <4>4
      <3>3. CASE b # c
        BY <1>t, <2>1, <3>3 DEF ClearedInv
      <3> QED
        BY <3>2, <3>3
    <2> QED
      BY <1>r, <1>t, <2>1, <2>2 DEF ClearedInv
  <1>4. ASSUME RedisRestart PROVE ClearedInv'
    BY <1>4, <1>r, <1>t DEF RedisRestart, ClearedInv
  <1> QED
    BY <1>1, <1>2, <1>3, <1>4
    DEF Next, OpenPage, Save, FetchOpen, FetchSave, Follow, Click, ResetAsks,
        Open, Classify, FetchData, AskModel, ModelAnswers, Fail, Deliver, AppRestart, vars

\* A stored history is exactly the questions answered since the last reset, and
\* none that a reset cleared comes back, for any browsers and questions, as
\* long as the browser's requests do not overlap.
THEOREM HistoryIsExact == Spec => []HistoryExact
  <1>1. TypeInv /\ ExactInv /\ ClearedInv => HistoryExact
    <2> SUFFICES ASSUME TypeInv, ExactInv, ClearedInv,
                        NEW b \in Browsers, ~disturbed[b]
                 PROVE  /\ redis[b].history = answered[b]
                        /\ Range(redis[b].history) \cap cleared[b] = {}
      BY DEF HistoryExact
    <2>1. redis[b].history = answered[b]
      BY DEF ExactInv, CalmOf, Calm
    <2>2. DOMAIN answered[b] = 1..Len(answered[b])
      BY DEF TypeInv, TypeOK
    <2> QED
      BY <2>1, <2>2 DEF ClearedInv, Range
  <1>2. Init => ClearedInv
    BY DEF Init, ClearedInv
  <1>3. TypeInv /\ LinesInv /\ ClearedInv /\ [Next]_vars => ClearedInv'
    BY ClearedNext
  <1> QED
    BY <1>1, <1>2, <1>3, ExactInvariant, LinesInit, LinesNext, TypeInvInit,
       TypeInvKept, PTL DEF Spec

-----------------------------------------------------------------------------
(* The conversation all browsers share *)

\* The model is given the asker's own question, for any browsers and questions.
THEOREM OwnQuestionSeen == Spec => []SeesOwnQuestion
  <1>1. Init => SeesOwnQuestion
    BY DEF Init, SeesOwnQuestion
  <1>2. TypeInv /\ SeesOwnQuestion /\ [Next]_vars => SeesOwnQuestion'
    <2> SUFFICES ASSUME TypeInv, SeesOwnQuestion, [Next]_vars,
                        NEW q \in Questions, request'[q].pc = "chat"
                 PROVE  [role |-> "user", about |-> q] \in Range(conversation')
      BY DEF SeesOwnQuestion
    <2> DEFINE m == [role |-> "user", about |-> q]
               Goal == m \in Range(conversation')
    <2>t. /\ request \in [Questions -> Request]
          /\ conversation \in Seq(Message)
      BY DEF TypeInv, TypeOK
    <2>a. ASSUME NEW e, e \in Message, conversation' = Append(conversation, e)
          PROVE  /\ Range(conversation) \subseteq Range(conversation')
                 /\ e \in Range(conversation')
      <3>1. /\ DOMAIN conversation = 1..Len(conversation)
            /\ DOMAIN conversation' = 1..(Len(conversation) + 1)
            /\ Len(conversation) \in Nat
            /\ \A i \in DOMAIN conversation : conversation'[i] = conversation[i]
            /\ conversation'[Len(conversation) + 1] = e
        BY <2>a, <2>t
      <3>2. Range(conversation) \subseteq Range(conversation')
        BY <3>1 DEF Range
      <3>3. Len(conversation) + 1 \in DOMAIN conversation'
        BY <3>1
      <3>4. e \in Range(conversation')
        BY <3>1, <3>3 DEF Range
      <3> QED
        BY <3>2, <3>4
    \* A question that was in the chat before, and a conversation that grew.
    <2>k. ASSUME request[q].pc = "chat",
                 Range(conversation) \subseteq Range(conversation')
          PROVE  Goal
      BY <2>k DEF SeesOwnQuestion
    <2>m. ASSUME NEW r \in Questions, NEW from, NEW to, Moves(r, from, to),
                 to # "chat"
          PROVE  request[q].pc = "chat"
      BY <2>m, <2>t DEF Moves, Request
    <2>1. ASSUME NEW r \in Questions, AskModel(r) PROVE Goal
      <3>1. [role |-> "user", about |-> r] \in Message
        BY DEF Message
      <3>2. CASE q = r
        BY <2>1, <2>a, <3>1, <3>2 DEF AskModel
      <3>3. CASE q # r
        <4>1. request[q].pc = "chat"
          BY <2>1, <2>t, <3>3 DEF AskModel, Moves, Request
        <4> QED
          BY <2>1, <2>a, <2>k, <3>1, <4>1 DEF AskModel
      <3> QED
        BY <3>2, <3>3
    <2>2. ASSUME NEW r \in Questions, ModelAnswers(r) PROVE Goal
      <3>1. [role |-> "system", about |-> r] \in Message
        BY DEF Message
      <3>2. request[q].pc = "chat"
        BY <2>2, <2>m DEF ModelAnswers
      <3> QED
        BY <2>2, <2>a, <2>k, <3>1, <3>2 DEF ModelAnswers
    <2>3. ASSUME NEW r \in Questions, Classify(r) \/ FetchData(r) \/ Deliver(r)
          PROVE  Goal
      BY <2>3, <2>k, <2>m DEF Classify, FetchData, Deliver
    <2>4. ASSUME NEW r \in Questions, Open(r) \/ Finish(r) \/ Fail(r)
          PROVE  Goal
      <3>1. request[q].pc = "chat"
        BY <2>4, <2>t DEF Open, Finish, Fail, Request
      <3> QED
        BY <2>4, <2>k, <3>1 DEF Open, Finish, Fail
    <2>5. ASSUME NEW b \in Browsers, NEW r \in Questions,
                 Click(b, r) \/ ResetAsks(b, r)
          PROVE  Goal
      <3>1. request[q].pc = "chat"
        BY <2>5, <2>t DEF Click, ResetAsks, Left, Request
      <3> QED
        BY <2>5, <2>k, <3>1 DEF Click, ResetAsks
    <2>6. ASSUME NEW b \in Browsers, NEW route, Follow(b, route) PROVE Goal
      <3>1. request[q].pc = "chat"
        BY <2>6, <2>t DEF Follow, Left, Request
      <3> QED
        BY <2>6, <2>k, <3>1 DEF Follow
    <2>7. ASSUME AppRestart PROVE Goal
      BY <2>7, <2>t DEF AppRestart, Request, Serving
    <2>8. ASSUME UNCHANGED <<request, conversation>> PROVE Goal
      BY <2>8, <2>k
    <2> QED
      BY <2>1, <2>2, <2>3, <2>4, <2>5, <2>6, <2>7, <2>8
      DEF Next, OpenPage, Save, FetchOpen, FetchSave, RedisRestart, vars
  <1> QED
    BY <1>1, <1>2, TypeInvInit, TypeInvKept, PTL DEF Spec

-----------------------------------------------------------------------------
(* What a page shows.  A page that is being left shows nothing, and its script *)
(* gets no replies.  Otherwise, while requests do not overlap, the page and    *)
(* the replies under way to it are beginnings of the stored history.           *)

\* n, p: the navigation and the page of browser b.
LeavingAlone(R, n, p, b) ==
    n.pc # "idle" =>
        /\ p.shown = <<>>
        /\ \A q \in Questions : R[q].from = b => ~R[q].current

UnsentAside(R) == \A q \in Questions : R[q].pc = "unsent" => ~R[q].current

LeavingInv ==
    /\ UnsentAside(request)
    /\ \A b \in Browsers : LeavingAlone(request, nav[b], page[b], b)

Starts(s, t) == Len(s) <= Len(t) /\ \A i \in 1..Len(s) : s[i] = t[i]

\* q has a reply that the page of browser b will show.
Replied(R, q, b) == R[q].from = b /\ R[q].pc = "replied" /\ R[q].current

\* h: the stored history of browser b.
Begins(R, h, p, b) ==
    /\ Starts(p.shown, h)
    /\ \A q \in Questions :
        Replied(R, q, b) => Starts(R[q].session.history, h)

BeginsInv ==
    \A b \in Browsers :
        ~disturbed[b] => Begins(request, redis[b].history, page[b], b)

\* No navigation begins, and no page or request comes to be its script's.
LEMMA LeavingKept ==
    ASSUME NEW R, NEW S, NEW n, NEW m, NEW p, NEW o, NEW b,
           LeavingAlone(R, n, p, b),
           m.pc # "idle" => n.pc # "idle",
           o.shown = p.shown \/ o.shown = <<>>,
           \A q \in Questions :
                S[q].from = b /\ S[q].current => R[q].from = b /\ R[q].current
    PROVE  LeavingAlone(S, m, o, b)
  BY DEF LeavingAlone

LEMMA BeginsKept ==
    ASSUME NEW R, NEW S, NEW h \in Seq(Questions), NEW p, NEW o, NEW b,
           Begins(R, h, p, b),
           o.shown = p.shown \/ o.shown = <<>>,
           \A q \in Questions :
                Replied(S, q, b) =>
                    Replied(R, q, b) /\ S[q].session = R[q].session
    PROVE  Begins(S, h, o, b)
  <1>1. Starts(<<>>, h)
    BY DEF Starts
  <1> QED
    BY <1>1 DEF Begins

\* What the steps of a request leave as it is.
LEMMA MovedRest ==
    ASSUME TypeOK, NEW r \in Questions, NEW from, NEW to, Moves(r, from, to)
    PROVE  \A q \in Questions :
              /\ request'[q].from = request[q].from
              /\ request'[q].current = request[q].current
              /\ request'[q].session = request[q].session
              /\ request'[q].pc = request[q].pc \/ request'[q].pc = to
              /\ request'[q].pc # request[q].pc => q = r
  <1>1. /\ request'[r] = [request[r] EXCEPT !.pc = to]
        /\ request[r] \in Request
        /\ request'[r].pc = to
        /\ \A q \in Questions \ {r} : request'[q] = request[q]
    BY MovedPc DEF TypeOK
  <1>2. /\ request'[r].from = request[r].from
        /\ request'[r].current = request[r].current
        /\ request'[r].session = request[r].session
    BY <1>1 DEF Request
  <1> QED
    BY <1>1, <1>2

\* Opening, answering, failing: a request's step keeps where it is from and
\* whether its page is still there.
LEMMA RequestRest ==
    ASSUME TypeOK,
           \/ \E r \in Questions :
                \/ Open(r) \/ Classify(r) \/ FetchData(r) \/ AskModel(r)
                \/ ModelAnswers(r) \/ Finish(r) \/ Fail(r) \/ Deliver(r)
           \/ AppRestart
    PROVE  \A q \in Questions :
              /\ request'[q].from = request[q].from
              /\ request'[q].current = request[q].current
              /\ request'[q].pc = "unsent" => request[q].pc = "unsent"
  <1>t. request \in [Questions -> Request]
    BY DEF TypeOK
  <1>1. ASSUME NEW r \in Questions,
               \/ Classify(r) \/ FetchData(r) \/ AskModel(r)
               \/ ModelAnswers(r) \/ Deliver(r)
        PROVE  \E from, to : to # "unsent" /\ Moves(r, from, to)
    BY <1>1 DEF Classify, FetchData, AskModel, ModelAnswers, Deliver
  <1>2. ASSUME NEW r \in Questions, NEW from, NEW to, to # "unsent",
               Moves(r, from, to)
        PROVE  \A q \in Questions :
                  /\ request'[q].from = request[q].from
                  /\ request'[q].current = request[q].current
                  /\ request'[q].pc = "unsent" => request[q].pc = "unsent"
    BY <1>2, MovedRest
  <1>3. ASSUME NEW r \in Questions, Open(r) \/ Finish(r)
        PROVE  /\ \A q \in Questions \ {r} : request'[q] = request[q]
               /\ request'[r].from = request[r].from
               /\ request'[r].current = request[r].current
               /\ request'[r].pc # "unsent"
    <2>1. ASSUME NEW pc \in {"classify", "replied"}, NEW x,
                 request' = [request EXCEPT ![r] =
                               [request[r] EXCEPT !.pc = pc, !.session = x]]
          PROVE  /\ \A q \in Questions \ {r} : request'[q] = request[q]
                 /\ request'[r].from = request[r].from
                 /\ request'[r].current = request[r].current
                 /\ request'[r].pc # "unsent"
      <3>1. /\ request'[r] = [request[r] EXCEPT !.pc = pc, !.session = x]
            /\ request[r] \in Request
            /\ \A q \in Questions \ {r} : request'[q] = request[q]
        BY <1>t, <2>1
      <3>2. QED BY <3>1 DEF Request
    <2>2. CASE Open(r)
      BY <2>1, <2>2 DEF Open
    <2>3. CASE Finish(r)
      BY <2>1, <2>3 DEF Finish
    <2>4. QED BY <1>3, <2>2, <2>3
  <1>4. ASSUME NEW r \in Questions, Fail(r)
        PROVE  Moves(r, request[r].pc, "over")
    BY <1>4 DEF Fail, Moves
  <1>5. ASSUME AppRestart, NEW q \in Questions
        PROVE  /\ request'[q].from = request[q].from
               /\ request'[q].current = request[q].current
               /\ request'[q].pc = "unsent" => request[q].pc = "unsent"
    BY <1>5, <1>t DEF AppRestart, Request
  <1> QED
    BY <1>1, <1>2, <1>3, <1>4, <1>5

\* Following a form or a link takes the page from its requests.
LEMMA LeftRest ==
    ASSUME TypeOK, NEW c \in Browsers, NEW q \in Questions
    PROVE  /\ Left(c)[q].from = request[q].from
           /\ Left(c)[q].pc = request[q].pc
           /\ Left(c)[q].session = request[q].session
           /\ Left(c)[q].current => request[q].current /\ request[q].from # c
  <1>1. request[q] \in Request
    BY DEF TypeOK
  <1> QED
    BY <1>1 DEF Left, Request

\* The requests once their browser has left the page, with a question or not.
LEMMA AfterLeaving ==
    ASSUME TypeInv, UnsentAside(request), NEW c \in Browsers,
           \/ \E route \in Routes : Follow(c, route)
           \/ \E r \in Questions : ResetAsks(c, r)
    PROVE  \A q \in Questions :
              /\ request'[q].current =>
                    /\ request[q].current
                    /\ request'[q].from = request[q].from
                    /\ request'[q].from # c
                    /\ request'[q].pc = request[q].pc
                    /\ request'[q].session = request[q].session
              /\ request'[q].pc = "unsent" => request[q].pc = "unsent"
  <1>t. TypeOK /\ request \in [Questions -> Request]
    BY DEF TypeInv, TypeOK
  <1>1. ASSUME NEW route \in Routes, Follow(c, route), NEW q \in Questions
        PROVE  request'[q] = Left(c)[q]
    BY <1>1 DEF Follow
  <1>2. ASSUME NEW r \in Questions, ResetAsks(c, r)
        PROVE  /\ \A q \in Questions \ {r} : request'[q] = Left(c)[q]
               /\ ~request'[r].current /\ request'[r].pc # "unsent"
    <2>1. /\ request'[r] = [request[r] EXCEPT !.pc = "sent", !.from = c]
          /\ \A q \in Questions \ {r} : request'[q] = Left(c)[q]
      BY <1>2, <1>t DEF ResetAsks, Left
    <2>2. request[r] \in Request /\ ~request[r].current
      BY <1>2, <1>t DEF ResetAsks, UnsentAside
    <2>3. ~request'[r].current /\ request'[r].pc = "sent"
      BY <2>1, <2>2 DEF Request
    <2> QED
      BY <2>1, <2>3
  <1> QED
    BY <1>t, <1>1, <1>2, LeftRest

LEMMA LeavingNext ==
    ASSUME TypeInv, LeavingInv, [Next]_vars
    PROVE  LeavingInv'
  <1>t. /\ TypeOK
        /\ request \in [Questions -> Request]
        /\ nav \in [Browsers -> Navigation]
        /\ page \in [Browsers -> Page]
    BY DEF TypeInv, TypeOK
  <1>s. \A view : Showing(view).shown = <<>>
    BY DEF Showing
  \* Requests that stay where they are, pages that are shown less of.
  <1>k. ASSUME \A b \in Browsers :
                  /\ nav'[b].pc # "idle" => nav[b].pc # "idle"
                  /\ page'[b].shown \in {page[b].shown, <<>>},
               \A q \in Questions :
                  /\ request'[q].from = request[q].from
                  /\ request'[q].current = request[q].current
                  /\ request'[q].pc = "unsent" => request[q].pc = "unsent"
        PROVE  LeavingInv'
    <2>1. UnsentAside(request')
      BY <1>k DEF LeavingInv, UnsentAside
    <2>2. ASSUME NEW b \in Browsers
          PROVE  LeavingAlone(request', nav'[b], page'[b], b)
      <3>1. LeavingAlone(request, nav[b], page[b], b)
        BY DEF LeavingInv
      <3> QED
        BY <1>k, <3>1, LeavingKept
    <2> QED
      BY <2>1, <2>2 DEF LeavingInv
  <1>1. ASSUME NEW c \in Browsers, OpenPage(c) \/ Save(c)
        PROVE  LeavingInv'
    <2>1. request' = request /\ nav[c].pc # "idle"
      BY <1>1 DEF OpenPage, Save
    <2>2. \A b \in Browsers : page'[b].shown \in {page[b].shown, <<>>}
      BY <1>1, <1>t, <1>s DEF OpenPage, Save
    <2>3. \A b \in Browsers \ {c} : nav'[b] = nav[b]
      BY <1>1, <1>t DEF OpenPage, Save
    <2> QED
      BY <1>k, <2>1, <2>2, <2>3
  <1>2. ASSUME NEW c \in Browsers,
               \/ \E route \in Routes : Follow(c, route)
               \/ \E r \in Questions : ResetAsks(c, r)
        PROVE  LeavingInv'
    <2>1. \A q \in Questions :
            /\ request'[q].current =>
                  /\ request[q].current
                  /\ request'[q].from = request[q].from
                  /\ request'[q].from # c
                  /\ request'[q].pc = request[q].pc
            /\ request'[q].pc = "unsent" => request[q].pc = "unsent"
      BY <1>2, AfterLeaving DEF LeavingInv
    <2>2. /\ page'[c].shown = <<>>
          /\ \A b \in Browsers \ {c} : page'[b] = page[b] /\ nav'[b] = nav[b]
      BY <1>2, <1>t, <1>s DEF Follow, ResetAsks, Leaves
    <2>3. UnsentAside(request')
      BY <2>1 DEF LeavingInv, UnsentAside
    <2>4. ASSUME NEW b \in Browsers
          PROVE  LeavingAlone(request', nav'[b], page'[b], b)
      <3>1. CASE b = c
        BY <2>1, <2>2, <3>1 DEF LeavingAlone
      <3>2. CASE b # c
        BY <2>1, <2>2, <3>2 DEF LeavingInv, LeavingAlone
      <3> QED
        BY <3>1, <3>2
    <2> QED
      BY <2>3, <2>4 DEF LeavingInv
  <1>3. ASSUME NEW c \in Browsers, NEW r \in Questions, Click(c, r)
        PROVE  LeavingInv'
    <2>1. /\ nav[c].pc = "idle"
          /\ request'[r] = [request[r] EXCEPT !.pc = "sent", !.from = c,
                                              !.current = TRUE]
          /\ \A q \in Questions \ {r} : request'[q] = request[q]
          /\ UNCHANGED <<nav, page>>
      BY <1>3, <1>t DEF Click
    <2>2. request[r] \in Request
      BY <1>t
    <2>3. request'[r].pc = "sent" /\ request'[r].from = c
      BY <2>1, <2>2 DEF Request
    <2>4. UnsentAside(request')
      BY <2>1, <2>3 DEF LeavingInv, UnsentAside
    <2>5. ASSUME NEW b \in Browsers
          PROVE  LeavingAlone(request', nav[b], page[b], b)
      BY <2>1, <2>3 DEF LeavingInv, LeavingAlone
    <2> QED
      BY <2>1, <2>4, <2>5 DEF LeavingInv
  <1>4. ASSUME NEW r \in Questions, Deliver(r) PROVE LeavingInv'
    <2> DEFINE c == request[r].from
    <2>1. /\ \A q \in Questions :
                /\ request'[q].from = request[q].from
                /\ request'[q].current = request[q].current
                /\ request'[q].pc = "unsent" => request[q].pc = "unsent"
          /\ UNCHANGED nav
      BY <1>4, <1>t, RequestRest DEF Deliver
    <2>2. \A b \in Browsers :
            page'[b] = page[b] \/ (b = c /\ request[r].current)
      BY <1>4, <1>t DEF Deliver
    <2>3. UnsentAside(request')
      BY <2>1 DEF LeavingInv, UnsentAside
    <2>4. ASSUME NEW b \in Browsers
          PROVE  LeavingAlone(request', nav'[b], page'[b], b)
      BY <2>1, <2>2 DEF LeavingInv, LeavingAlone
    <2> QED
      BY <2>3, <2>4 DEF LeavingInv
  <1>5. ASSUME NEW r \in Questions,
               \/ Open(r) \/ Classify(r) \/ FetchData(r) \/ AskModel(r)
               \/ ModelAnswers(r) \/ Finish(r) \/ Fail(r)
        PROVE  LeavingInv'
    <2>1. UNCHANGED <<nav, page>>
      BY <1>5 DEF Open, Classify, FetchData, AskModel, ModelAnswers, Finish,
         Fail
    <2> QED
      BY <1>5, <1>t, <1>k, <2>1, RequestRest
  <1>6. CASE AppRestart
    <2>1. \A b \in Browsers : nav'[b].pc # "idle" => nav[b].pc # "idle"
      BY <1>6, <1>t DEF AppRestart, Navigation
    <2>2. UNCHANGED page
      BY <1>6 DEF AppRestart
    <2> QED
      BY <1>6, <1>t, <1>k, <2>1, <2>2, RequestRest
  <1>7. CASE UNCHANGED <<request, nav, page>>
    BY <1>7, <1>k
  <1> QED
    BY <1>1, <1>2, <1>3, <1>4, <1>5, <1>6, <1>7
    DEF Next, FetchOpen, FetchSave, RedisRestart, vars

LEMMA BeginsNext ==
    ASSUME TypeInv, TypeOK', ExactInv, LeavingInv, BeginsInv, [Next]_vars,
           NEW b \in Browsers, ~disturbed'[b]
    PROVE  Begins(request', redis'[b].history, page'[b], b)
  <1>t. /\ TypeOK
        /\ request \in [Questions -> Request]
        /\ nav \in [Browsers -> Navigation]
        /\ page \in [Browsers -> Page]
        /\ redis \in [Browsers -> Session]
        /\ fetch \in [Browsers -> Fetch]
        /\ redis[b].history \in Seq(Questions)
        /\ redis'[b].history \in Seq(Questions)
    BY DEF TypeInv, TypeOK, Session
  <1>s. \A view : Showing(view).shown = <<>>
    BY DEF Showing
  <1>c. /\ Calm(request, redis[b], nav[b], fetch[b], answered[b], b)
        /\ Begins(request, redis[b].history, page[b], b)
    BY DisturbedStays DEF ExactInv, CalmOf, BeginsInv
  <1> DEFINE Goal == Begins(request', redis'[b].history, page'[b], b)
  <1> SUFFICES Goal
    OBVIOUS
  <1>k. ASSUME redis'[b].history = redis[b].history,
               page'[b].shown \in {page[b].shown, <<>>},
               \A q \in Questions :
                  Replied(request', q, b) =>
                      Replied(request, q, b)
                      /\ request'[q].session = request[q].session
        PROVE  Goal
    BY <1>c, <1>t, <1>k, BeginsKept
  \* With nothing to show there is nothing to check.
  <1>e. ASSUME page'[b].shown = <<>>,
               \A q \in Questions : ~Replied(request', q, b)
        PROVE  Goal
    BY <1>e, <1>t DEF Begins, Starts
  <1>1. ASSUME NEW c \in Browsers, OpenPage(c) \/ FetchOpen(c) PROVE Goal
    <2>1. UNCHANGED <<request, redis, page>>
      BY <1>1 DEF OpenPage, FetchOpen
    <2> QED
      BY <1>k, <2>1
  <1>13. ASSUME NEW c \in Browsers, FetchSave(c) PROVE Goal
    <2>1. UNCHANGED <<request, page>> /\ fetch[c].session \in Session
      BY <1>13, <1>t DEF FetchSave, Fetch
    <2>2. redis'[b] = redis[b] \/ (b = c /\ redis'[b] = fetch[b].session)
      BY <1>13, <2>1, StoredRest DEF FetchSave, TypeInv
    <2>3. b = c => fetch[b].session = redis[b]
      BY <1>13, <1>c DEF FetchSave, Calm
    <2> QED
      BY <1>k, <2>1, <2>2, <2>3
  <1>2. ASSUME NEW c \in Browsers, Save(c) PROVE Goal
    <2>1. request' = request /\ page'[b].shown \in {page[b].shown, <<>>}
      BY <1>2, <1>t, <1>s DEF Save
    <2>2. CASE b # c
      <3>1. nav[c].session \in Session
        BY <1>t DEF Navigation
      <3>2. redis'[b] = redis[b]
        BY <1>2, <2>2, <3>1, AfterType, StoredRest DEF Save, TypeInv
      <3> QED
        BY <1>k, <2>1, <3>2
    <2>3. CASE b = c
      <3>1. /\ page[b].shown = <<>>
            /\ \A q \in Questions : request[q].from = b => ~request[q].current
        BY <1>2, <2>3 DEF Save, LeavingInv, LeavingAlone
      <3> QED
        BY <1>e, <2>1, <3>1 DEF Replied
    <2> QED
      BY <2>2, <2>3
  <1>3. ASSUME NEW c \in Browsers,
               \/ \E route \in Routes : Follow(c, route)
               \/ \E r \in Questions : ResetAsks(c, r)
        PROVE  Goal
    <2>1. \A q \in Questions :
            request'[q].current =>
                /\ request[q].current
                /\ request'[q].from = request[q].from
                /\ request'[q].pc = request[q].pc
                /\ request'[q].session = request[q].session
      BY <1>3, AfterLeaving DEF LeavingInv
    <2>2. UNCHANGED redis /\ page' = [page EXCEPT ![c] = Showing("blank")]
      BY <1>3 DEF Follow, ResetAsks, Leaves
    <2>3. page'[b].shown \in {page[b].shown, <<>>}
      BY <1>t, <1>s, <2>2
    <2> QED
      BY <1>k, <2>1, <2>2, <2>3 DEF Replied
  <1>4. ASSUME NEW c \in Browsers, NEW r \in Questions, Click(c, r) PROVE Goal
    <2>1. /\ request'[r] = [request[r] EXCEPT !.pc = "sent", !.from = c,
                                              !.current = TRUE]
          /\ request[r] \in Request
          /\ \A q \in Questions \ {r} : request'[q] = request[q]
          /\ UNCHANGED <<redis, page>>
      BY <1>4, <1>t DEF Click
    <2>2. request'[r].pc = "sent"
      BY <2>1 DEF Request
    <2> QED
      BY <1>k, <2>1, <2>2 DEF Replied
  <1>5. ASSUME NEW r \in Questions, Open(r) PROVE Goal
    <2>1. /\ request'[r].pc = "classify"
          /\ \A q \in Questions \ {r} : request'[q] = request[q]
          /\ UNCHANGED <<redis, page>>
      BY <1>5, <1>t DEF Open, Request
    <2> QED
      BY <1>k, <2>1 DEF Replied
  <1>m. ASSUME NEW r \in Questions, NEW from, NEW to, Moves(r, from, to),
               to # "replied", UNCHANGED <<redis, page>>
        PROVE  Goal
    BY <1>k, <1>m, <1>t, MovedRest DEF Replied
  <1>6. ASSUME NEW r \in Questions,
               \/ Classify(r) \/ FetchData(r) \/ AskModel(r) \/ ModelAnswers(r)
        PROVE  Goal
    BY <1>6, <1>m DEF Classify, FetchData, AskModel, ModelAnswers
  <1>7. ASSUME NEW r \in Questions, Fail(r) PROVE Goal
    <2>1. Moves(r, request[r].pc, "over") /\ UNCHANGED <<redis, page>>
      BY <1>7 DEF Fail, Moves
    <2> QED
      BY <1>m, <2>1
  <1>8. ASSUME NEW r \in Questions, Deliver(r) PROVE Goal
    <2> DEFINE c == request[r].from
    <2>1. /\ Moves(r, "replied", "over")
          /\ UNCHANGED redis
      BY <1>8 DEF Deliver
    <2>2. \A q \in Questions :
            Replied(request', q, b) =>
                Replied(request, q, b)
                /\ request'[q].session = request[q].session
      BY <1>t, <2>1, MovedRest DEF Replied
    <2>3. CASE page'[b] = page[b]
      BY <1>k, <2>1, <2>2, <2>3
    <2>4. CASE c = b /\ request[r].current
      <3>1. page' = [page EXCEPT ![b].shown = request[r].session.history]
        BY <1>8, <2>4 DEF Deliver
      <3>2. page'[b].shown = request[r].session.history
        BY <1>t, <3>1 DEF Page
      <3>3. Replied(request, r, b)
        BY <2>1, <2>4 DEF Replied, Moves
      <3>4. Starts(page'[b].shown, redis[b].history)
        BY <1>c, <3>2, <3>3 DEF Begins
      <3> QED
        BY <1>c, <2>1, <2>2, <3>4 DEF Begins
    <2>5. page'[b] = page[b] \/ (c = b /\ request[r].current)
      BY <1>8, <1>t DEF Deliver
    <2> QED
      BY <2>3, <2>4, <2>5
  <1>9. ASSUME NEW r \in Questions, Finish(r) PROVE Goal
    <2> DEFINE c == request[r].from
               h == request[r].session.history
               s == [request[r].session EXCEPT !.history = Append(h, r)]
    <2>1. c \in Browsers /\ request[r].session \in Session
      BY <1>9, <1>t DEF Finish, TypeInv, SentFrom, Request
    <2>2. /\ request'[r] = [request[r] EXCEPT !.pc = "replied", !.session = s]
          /\ request[r] \in Request
          /\ \A q \in Questions \ {r} : request'[q] = request[q]
      BY <1>9, <1>t DEF Finish
    <2>3. redis' = [redis EXCEPT ![c] = s] /\ page' = page
      BY <1>9, Zenon DEF Finish
    <2>4. s.history = Append(h, r) /\ h \in Seq(Questions)
      BY <2>1 DEF Session
    <2> HIDE DEF s
    <2>5. request'[r].session = s /\ request'[r].from = c
      BY <2>2 DEF Request
    <2>6. CASE c = b
      <3>1. Serves(request, r, b)
        BY <1>9, <2>6 DEF Finish, Serves, Serving
      <3>2. h = redis[b].history
        BY <1>c, <3>1 DEF Calm
      <3>3. redis'[b].history = Append(h, r)
        BY <1>t, <2>3, <2>4, <2>6
      <3>4. \A x : Starts(x, h) /\ Len(x) \in Nat => Starts(x, Append(h, r))
        BY <2>4 DEF Starts
      <3>5. Starts(Append(h, r), Append(h, r))
        BY <2>4 DEF Starts
      <3>6. Starts(page[b].shown, Append(h, r))
        <4>1. Len(page[b].shown) \in Nat
          BY <1>t DEF Page
        <4> QED
          BY <1>c, <3>2, <3>4, <4>1 DEF Begins
      <3>7. ASSUME NEW q \in Questions, Replied(request', q, b)
            PROVE  Starts(request'[q].session.history, Append(h, r))
        <4>1. CASE q = r
          BY <2>4, <2>5, <3>5, <4>1
        <4>2. CASE q # r
          <5>1. Replied(request, q, b) /\ request'[q] = request[q]
            BY <2>2, <3>7, <4>2 DEF Replied
          <5>2. Len(request[q].session.history) \in Nat
            BY <1>t DEF Request, Session
          <5> QED
            BY <1>c, <3>2, <3>4, <5>1, <5>2 DEF Begins
        <4> QED
          BY <4>1, <4>2
      <3> QED
        BY <2>3, <3>3, <3>6, <3>7 DEF Begins
    <2>7. CASE c # b
      <3>1. redis'[b] = redis[b]
        BY <1>t, <2>3, <2>7
      <3> QED
        BY <1>k, <2>2, <2>3, <2>5, <2>7, <3>1 DEF Replied
    <2> QED
      BY <2>6, <2>7
  <1>10. CASE AppRestart
    <2>1. \A q \in Questions :
            request'[q].pc = "over" \/ request'[q] = request[q]
      BY <1>10, <1>t DEF AppRestart, Request
    <2>2. UNCHANGED <<redis, page>>
      BY <1>10 DEF AppRestart
    <2> QED
      BY <1>k, <2>1, <2>2 DEF Replied
  <1>11. CASE RedisRestart
    <2>1. ~InUse(b)
      BY <1>11, Zenon DEF RedisRestart
    <2>2. /\ page[b].shown = <<>>
          /\ \A q \in Questions : ~Replied(request, q, b)
      BY <2>1 DEF InUse, Replied
    <2>3. UNCHANGED <<request, page>>
      BY <1>11 DEF RedisRestart
    <2> QED
      BY <1>e, <2>2, <2>3
  <1>12. CASE UNCHANGED vars
    BY <1>12, <1>c DEF vars
  <1> QED
    BY <1>1, <1>2, <1>3, <1>4, <1>5, <1>6, <1>7, <1>8, <1>9, <1>10, <1>11,
       <1>12, <1>13 DEF Next

\* However the replies overtake each other, what such a browser's page shows is
\* how its stored history begins.
THEOREM PageIsSaved == Spec => []ShownIsSaved
  <1> DEFINE Inv == LeavingInv /\ BeginsInv
  <1>1. TypeInv /\ Inv => ShownIsSaved
    <2> SUFFICES ASSUME TypeInv, Inv, NEW b \in Browsers, ~disturbed[b]
                 PROVE  LET shown == page[b].shown
                        IN  /\ Len(shown) <= Len(redis[b].history)
                            /\ shown = SubSeq(redis[b].history, 1, Len(shown))
      BY DEF ShownIsSaved
    <2> DEFINE shown == page[b].shown
               h == redis[b].history
    <2>1. shown \in Seq(Questions) /\ h \in Seq(Questions)
      BY DEF TypeInv, TypeOK, Page, Session
    <2>2. Starts(shown, h)
      BY DEF BeginsInv, Begins
    <2> HIDE DEF shown, h
    <2>3. /\ SubSeq(h, 1, Len(shown)) \in Seq(Questions)
          /\ Len(SubSeq(h, 1, Len(shown))) = Len(shown)
          /\ \A i \in 1..Len(shown) : SubSeq(h, 1, Len(shown))[i] = h[i]
      BY <2>1, <2>2 DEF Starts
    <2>4. shown = SubSeq(h, 1, Len(shown))
      BY <2>1, <2>2, <2>3 DEF Starts
    <2> QED
      BY <2>2, <2>4 DEF Starts, shown, h
  <1>2. Init => Inv
    BY DEF Init, LeavingInv, UnsentAside, LeavingAlone, BeginsInv, Begins,
           Starts, Replied, Showing, NewSession
  <1>3. TypeInv /\ TypeInv' /\ ExactInv /\ Inv /\ [Next]_vars => Inv'
    <2> SUFFICES ASSUME TypeInv, TypeInv', ExactInv, Inv, [Next]_vars PROVE Inv'
      OBVIOUS
    <2>1. LeavingInv'
      BY LeavingNext
    <2>2. \A b \in Browsers :
            ~disturbed'[b] => Begins(request', redis'[b].history, page'[b], b)
      BY BeginsNext DEF TypeInv
    <2> QED
      BY <2>1, <2>2 DEF BeginsInv
  <1> QED
    BY <1>1, <1>2, <1>3, ExactInvariant, TypeInvInit, TypeInvKept, PTL DEF Spec
=============================================================================
