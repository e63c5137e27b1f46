-------------------------- MODULE RagPipelineProofs --------------------------
(***************************************************************************)
(* The document search for any number of sessions, questions, uuids,       *)
(* indexes and uploads, with and without failures: types, answers that     *)
(* match their questions, and requests that stay in flight.                *)
(***************************************************************************)
EXTENDS RagPipeline, VdbIndexProofs

-----------------------------------------------------------------------------
(* The inductive invariant *)

\* Uuid i was minted for question q, asked of the index d comes from.
Fits(i, q, d) == minted[i] = [query |-> q, index |-> d.index]

\* Everything under way under a uuid belongs to the request it was minted for.
MessagesFit ==
    /\ \A m \in vdbIn : minted[m.id] = [query |-> m.query, index |-> m.index]
    /\ \A s \in searching :
        /\ Fits(s.msg.id, s.msg.query, s.doc)
        /\ s.doc.index = s.msg.index
    /\ \A m \in llmIn : Fits(m.id, m.query, m.doc)
    /\ \A m \in llmOut : Fits(m.id, m.answer.query, m.answer.doc)

ResultsFit ==
    \A i \in Ids : HasResult(i) =>
        Fits(i, pending[i].result.query, pending[i].result.doc)

\* A running script's question is waiting for it alone, and its id is its own.
PagesFit ==
    /\ \A w \in Pages :
        /\ page[w].pc # "idle" =>
            /\ told[page[w].query].status = "waiting"
            /\ told[page[w].query].index = page[w].index
        /\ page[w].pc \in {"stored", "published", "polling"} =>
            page[w].id \in Ids /\ minted[page[w].id] = Asked(w)
        /\ page[w].next # NoQuestion =>
            told[page[w].next].status = "unasked"
    /\ \A v, w \in Pages : v # w =>
        /\ page[v].pc # "idle" /\ page[w].pc # "idle" =>
            page[v].query # page[w].query
        /\ page[v].next # NoQuestion => page[v].next # page[w].next

\* What is shown was inferred for the question, from the index it was asked of.
AnswersFit ==
    \A q \in Questions :
        told[q].status = "answered" =>
            /\ told[q].answer.query = q
            /\ told[q].answer.doc.index = told[q].index

RagInv ==
    /\ VdbInv /\ RagTypeOK
    /\ MessagesFit /\ ResultsFit /\ PagesFit /\ AnswersFit

USE DEF Answer, Promise!Answer

-----------------------------------------------------------------------------
(* Initially *)

LEMMA AnswerFields ==
    \A a \in Answer : a.query \in Questions /\ a.doc.index \in Indexes
BY DocumentFields DEF Answer, Promise!Answer

LEMMA RagInitInv == Init => RagInv
<1> SUFFICES ASSUME Init PROVE RagInv
  OBVIOUS
<1>1. VdbInv
  BY InitInv DEF Init
<1>2. /\ \A w \in Pages : /\ page[w] \in Page
                          /\ page[w].pc = "idle" /\ page[w].next = NoQuestion
      /\ \E f : page = [w \in Pages |-> f]
  BY RagAssumption, 0 \in Int DEF Init, RagInit, Page, PagePCs
<1>3. /\ \A q \in Questions : told[q].status = "unasked"
      /\ told \in [Questions -> Promise!Told]
  BY DEF Init, RagInit, Promise!Init, Promise!Told
<1>4. RagTypeOK
  BY <1>2, <1>3 DEF Init, RagInit, RagTypeOK
<1>5. MessagesFit /\ ResultsFit /\ PagesFit /\ AnswersFit
  BY <1>2, <1>3 DEF Init, RagInit, MessagesFit, ResultsFit, PagesFit,
                    AnswersFit, HasResult, Known
<1>6. QED
  BY <1>1, <1>4, <1>5 DEF RagInv

-----------------------------------------------------------------------------
(* The page *)

\* One session's record replaced, the others as they were.
LEMMA UpdatePage ==
    ASSUME page \in [Pages -> Page], NEW w \in Pages, NEW rec,
           page' = [page EXCEPT ![w] = rec]
    PROVE  /\ page'[w] = rec
           /\ \A v \in Pages \ {w} : page'[v] = page[v]
           /\ rec \in Page => page' \in [Pages -> Page]
OBVIOUS

LEMMA UpdateTold ==
    ASSUME told \in [Questions -> Promise!Told], NEW q \in Questions, NEW rec,
           told' = [told EXCEPT ![q] = rec]
    PROVE  /\ told'[q] = rec
           /\ \A r \in Questions \ {q} : told'[r] = told[r]
           /\ rec \in Promise!Told => told' \in [Questions -> Promise!Told]
OBVIOUS

LEMMA SubmitInv ==
    ASSUME RagInv, NEW w \in Pages, NEW q \in Questions, Submit(w, q),
           UNCHANGED vdbVars
    PROVE  RagInv'
<1>0. page \in [Pages -> Page] /\ page[w] \in Page
  BY DEF RagInv, RagTypeOK
<1>0a. PICK rec : /\ rec = [page[w] EXCEPT !.next = q]
                  /\ page' = [page EXCEPT ![w] = rec]
  BY DEF Submit
<1>0b. rec \in Page
  BY <1>0, <1>0a DEF Page
<1>0c. page' \in [Pages -> Page]
  BY <1>0, <1>0a, <1>0b, UpdatePage
<1>1. \A v \in Pages :
        page'[v] = IF v = w THEN [page[w] EXCEPT !.next = q] ELSE page[v]
  BY <1>0, <1>0a, UpdatePage
<1>2. RagTypeOK'
  BY <1>0c DEF Submit, RagInv, RagTypeOK
<1>3. PagesFit'
  BY <1>1, RagAssumption DEF Submit, RagInv, RagTypeOK, Page, PagesFit, Asked
<1>4. MessagesFit' /\ ResultsFit' /\ AnswersFit'
  BY DEF Submit, RagInv, MessagesFit, ResultsFit, Fits, HasResult, Known,
         AnswersFit
<1>5. QED
  BY <1>2, <1>3, <1>4, NextInv DEF RagInv

LEMMA BeginInv ==
    ASSUME RagInv, NEW w \in Pages, NEW ix \in Indexes, NEW t \in Timeouts,
           Begin(w, ix, t), UNCHANGED vdbVars
    PROVE  RagInv'
<1> DEFINE q == page[w].next
           line == [role |-> "user", about |-> q]
<1>1. /\ q \in Questions /\ t \in Int /\ page[w].history \in Seq(Line)
      /\ page[w] \in Page
  BY RagAssumption DEF Begin, RagInv, RagTypeOK, Page
<1>2. Append(page[w].history, line) \in Seq(Line)
  <2>1. line \in Line
    BY <1>1 DEF Line
  <2>2. QED
    BY <1>1, <2>1
<1>3. page[w].pc = "idle" /\ page \in [Pages -> Page]
      /\ told \in [Questions -> Promise!Told]
  BY DEF Begin, RagInv, RagTypeOK
<1>4. PICK new : /\ page' = [page EXCEPT ![w] = new]
                 /\ new = [page[w] EXCEPT
                            !.pc = "posting", !.query = q, !.index = ix,
                            !.left = t, !.next = NoQuestion,
                            !.history = Append(page[w].history, line)]
  BY DEF Begin
<1>5. new \in Page /\ new.pc = "posting" /\ new.query = q /\ new.index = ix
      /\ new.next = NoQuestion
  BY <1>1, <1>2, <1>4 DEF Page, PagePCs
<1>6. PICK rec : /\ told' = [told EXCEPT ![q] = rec]
                 /\ rec = [told[q] EXCEPT !.status = "waiting", !.index = ix]
  BY DEF Begin
<1>6a. rec \in Promise!Told /\ rec.status = "waiting" /\ rec.index = ix
  <2>1. told[q] \in Promise!Told
    BY <1>1, <1>3
  <2> HIDE DEF q
  <2>2. QED
    BY <2>1, <1>6 DEF Promise!Told
<1>7. RagTypeOK'
  <2>1. page' \in [Pages -> Page]
    BY <1>3, <1>4, <1>5, UpdatePage
  <2>2. told' \in [Questions -> Promise!Told]
    BY <1>1, <1>3, <1>6, <1>6a, UpdateTold
  <2>3. QED
    BY <2>1, <2>2 DEF Begin, RagInv, RagTypeOK
<1>8. told[q].status = "unasked" /\ page[w].pc = "idle"
  BY <1>1, RagAssumption DEF Begin, RagInv, PagesFit
<1>9. /\ told'[q].status = "waiting" /\ told'[q].index = ix
      /\ \A r \in Questions \ {q} : told'[r] = told[r]
  BY <1>1, <1>3, <1>6, <1>6a, UpdateTold
<1>10. /\ page'[w].pc = "posting" /\ page'[w].query = q /\ page'[w].index = ix
       /\ page'[w].next = NoQuestion
       /\ \A v \in Pages \ {w} : page'[v] = page[v]
  BY <1>3, <1>4, <1>5, UpdatePage
<1> HIDE DEF q, line
<1>11. \A v \in Pages : page[v] \in Page
  BY DEF RagInv, RagTypeOK
<1>12. \A v \in Pages \ {w} : /\ page[v].pc # "idle" => page[v].query # q
                              /\ page[v].next # q
  BY <1>1, <1>8, <1>11, RagAssumption DEF RagInv, PagesFit, q
<1>13. PagesFit'
  <2>1. ASSUME NEW v \in Pages
        PROVE  (/\ page[v].pc # "idle" =>
                    /\ told[page[v].query].status = "waiting"
                    /\ told[page[v].query].index = page[v].index
                /\ page[v].pc \in {"stored", "published", "polling"} =>
                    page[v].id \in Ids /\ minted[page[v].id] = Asked(v)
                /\ page[v].next # NoQuestion =>
                    told[page[v].next].status = "unasked")'
    <3>1. CASE v = w
      BY <3>1, <1>9, <1>10
    <3>2. CASE v # w
      <4>1. page'[v] = page[v] /\ minted' = minted
        BY <3>2, <1>10 DEF Begin
      <4>2. page[v].query \in Questions /\ page[v].next \in Questions \cup {NoQuestion}
        BY <1>11 DEF Page
      <4>3. QED
        BY <3>2, <4>1, <4>2, <1>9, <1>12 DEF RagInv, PagesFit, Asked
    <3>3. QED
      BY <3>1, <3>2
  <2>2. \A u, v \in Pages : u # v =>
            /\ page'[u].pc # "idle" /\ page'[v].pc # "idle" =>
                page'[u].query # page'[v].query
            /\ page'[u].next # NoQuestion => page'[u].next # page'[v].next
    BY <1>10, <1>12 DEF RagInv, PagesFit
  <2>3. QED
    BY <2>1, <2>2 DEF PagesFit
<1>14. MessagesFit' /\ ResultsFit'
  BY DEF Begin, RagInv, MessagesFit, ResultsFit, Fits, HasResult, Known
<1>15. AnswersFit'
  BY <1>1, <1>9 DEF RagInv, AnswersFit
<1>16. QED
  BY <1>7, <1>13, <1>14, <1>15, NextInv DEF RagInv

\* A step that leaves messages and answers alone, and of the pages only moves
\* some between two steps of the same search, or drops a prompt.
LEMMA MoveInv ==
    ASSUME RagInv, UNCHANGED <<vdbIn, llmIn, llmOut, searching, minted, told>>,
           pending' = pending \/ pending' = [i \in Ids |-> NoEntry],
           page' \in [Pages -> Page],
           \A v \in Pages :
            /\ page'[v].query = page[v].query
            /\ page'[v].index = page[v].index
            /\ page'[v].id = page[v].id
            /\ page'[v].pc # "idle" => page[v].pc # "idle"
            /\ page'[v].pc \in {"stored", "published", "polling"} =>
                page[v].pc \in {"stored", "published", "polling"}
            /\ page'[v].next \in {page[v].next, NoQuestion},
           UNCHANGED vdbVars
    PROVE  RagInv'
<1>1. RagTypeOK'
  BY DEF RagInv, RagTypeOK
<1>2. PagesFit'
  BY DEF RagInv, PagesFit, Asked
<1>3. MessagesFit' /\ AnswersFit'
  BY DEF RagInv, MessagesFit, Fits, AnswersFit
<1>4. ResultsFit'
  BY DEF RagInv, ResultsFit, Fits, HasResult, Known
<1>5. QED
  BY <1>1, <1>2, <1>3, <1>4, NextInv DEF RagInv

LEMMA TurnInv ==
    ASSUME RagInv, NEW w \in Pages, UNCHANGED vdbVars,
           \/ PromptIgnored(w) \/ CallFails(w) \/ PublishFails(w)
           \/ ReturnId(w)
    PROVE  RagInv'
<1>1. page \in [Pages -> Page]
  BY DEF RagInv, RagTypeOK
<1>2. CASE PromptIgnored(w)
  <2>1. page' \in [Pages -> Page]
    BY <1>1, <1>2 DEF PromptIgnored, Page
  <2>2. \A v \in Pages :
            page'[v] = IF v = w THEN [page[w] EXCEPT !.next = NoQuestion]
                       ELSE page[v]
    BY <1>1, <1>2 DEF PromptIgnored
  <2>3. QED
    BY <1>1, <1>2, <2>1, <2>2, MoveInv DEF PromptIgnored, Page
<1>3. ASSUME NEW from \in {"posting", "stored", "published", "polling"},
             NEW to \in {"published", "polling", "failing"},
             Turn(w, from, to), to # "failing" => from # "posting",
             UNCHANGED <<pending, vdbIn, llmIn, llmOut, searching, minted, told>>
      PROVE  RagInv'
  <2>0. PICK rec : /\ rec = [page[w] EXCEPT !.pc = to]
                   /\ page' = [page EXCEPT ![w] = rec]
    BY <1>3 DEF Turn
  <2>0a. rec \in Page
    BY <1>1, <1>3, <2>0 DEF Page, PagePCs
  <2>1. page' \in [Pages -> Page]
    BY <1>1, <2>0, <2>0a, UpdatePage
  <2>2. \A v \in Pages :
            page'[v] = IF v = w THEN [page[w] EXCEPT !.pc = to] ELSE page[v]
    BY <1>1, <2>0, UpdatePage
  <2>3. QED
    BY <1>1, <1>3, <2>1, <2>2, MoveInv DEF Turn, Page
<1>4. QED
  BY <1>2, <1>3 DEF CallFails, PublishFails, ReturnId

\* The script of w ends: its question is told an outcome, and if that is an
\* answer it fits the question.
LEMMA EndInv ==
    ASSUME RagInv, NEW w \in Pages, page[w].pc # "idle",
           NEW new \in Page, page' = [page EXCEPT ![w] = new],
           new.pc = "idle", new.next = page[w].next,
           NEW rec \in Promise!Told,
           told' = [told EXCEPT ![page[w].query] = rec],
           rec.index = told[page[w].query].index,
           rec.status # "unasked",
           rec.status = "answered" =>
                /\ rec.answer.query = page[w].query
                /\ rec.answer.doc.index = rec.index,
           UNCHANGED <<pending, vdbIn, llmIn, llmOut, searching, minted>>,
           UNCHANGED vdbVars
    PROVE  RagInv'
<1> DEFINE q == page[w].query
<1>1. /\ page \in [Pages -> Page] /\ told \in [Questions -> Promise!Told]
      /\ q \in Questions
  BY DEF RagInv, RagTypeOK, Page
<1>2. /\ page'[w] = new /\ \A v \in Pages \ {w} : page'[v] = page[v]
      /\ page' \in [Pages -> Page]
  BY <1>1, UpdatePage
<1>3. /\ told'[q] = rec /\ \A r \in Questions \ {q} : told'[r] = told[r]
      /\ told' \in [Questions -> Promise!Told]
  BY <1>1, UpdateTold
<1>4. RagTypeOK'
  BY <1>2, <1>3 DEF RagInv, RagTypeOK
<1>5. \A v \in Pages : page[v].query \in Questions
  BY <1>1 DEF Page
<1>6. told[q].status = "waiting"
  BY DEF RagInv, PagesFit
<1>7. PagesFit'
  <2>1. ASSUME NEW v \in Pages
        PROVE  (/\ page[v].pc # "idle" =>
                    /\ told[page[v].query].status = "waiting"
                    /\ told[page[v].query].index = page[v].index
                /\ page[v].pc \in {"stored", "published", "polling"} =>
                    page[v].id \in Ids /\ minted[page[v].id] = Asked(v))'
    <3>1. CASE v = w
      BY <3>1, <1>2
    <3>2. CASE v # w
      BY <3>2, <1>2, <1>3, <1>5 DEF RagInv, PagesFit, Asked
    <3>3. QED
      BY <3>1, <3>2
  <2>2. ASSUME NEW v \in Pages, page'[v].next # NoQuestion
        PROVE  told'[page'[v].next].status = "unasked"
    <3>1. page'[v].next = page[v].next
      BY <1>2
    <3>2. page[v].next \in Questions
      BY <1>1, <2>2, <3>1 DEF Page
    <3>3. told[page[v].next].status = "unasked"
      BY <2>2, <3>1 DEF RagInv, PagesFit
    <3>4. QED
      BY <1>3, <1>6, <3>1, <3>2, <3>3
  <2>3. \A u, v \in Pages : u # v =>
            /\ page'[u].pc # "idle" /\ page'[v].pc # "idle" =>
                page'[u].query # page'[v].query
            /\ page'[u].next # NoQuestion => page'[u].next # page'[v].next
    BY <1>2 DEF RagInv, PagesFit
  <2>4. QED
    BY <2>1, <2>2, <2>3 DEF PagesFit
<1>8. MessagesFit' /\ ResultsFit'
  BY DEF RagInv, MessagesFit, ResultsFit, Fits, HasResult, Known
<1>9. AnswersFit'
  BY <1>3 DEF RagInv, AnswersFit
<1>10. QED
  BY <1>4, <1>7, <1>8, <1>9, NextInv DEF RagInv

LEMMA EndSearchInv ==
    ASSUME RagInv, NEW w \in Pages, page[w].pc # "idle",
           NEW outcome \in {"timeout", "error", "silent", "superseded"},
           EndSearch(w, outcome),
           UNCHANGED <<pending, vdbIn, llmIn, llmOut, searching, minted>>,
           UNCHANGED vdbVars
    PROVE  RagInv'
<1> DEFINE q == page[w].query
           end == IF page[w].next = NoQuestion THEN outcome ELSE "superseded"
           new == [page[w] EXCEPT !.pc = "idle", !.id = NoId, !.left = 0]
           rec == [told[q] EXCEPT !.status = end]
<1>1. /\ page[w] \in Page /\ q \in Questions /\ told[q] \in Promise!Told
      /\ told \in [Questions -> Promise!Told]
  BY DEF RagInv, RagTypeOK, Page
<1>2. /\ page' = [page EXCEPT ![w] = new]
      /\ told' = [told EXCEPT ![q] = rec]
  BY <1>1 DEF EndSearch
<1>3. new \in Page /\ new.pc = "idle" /\ new.next = page[w].next
  BY <1>1, 0 \in Int DEF Page, PagePCs
<1>4. /\ rec \in Promise!Told /\ rec.index = told[q].index
      /\ rec.status \notin {"unasked", "answered"}
  BY <1>1 DEF Promise!Told, Promise!Outcomes
<1> HIDE DEF new, rec
<1>5. QED
  BY <1>2, <1>3, <1>4, EndInv

LEMMA ShowAnswerInv ==
    ASSUME RagInv, NEW w \in Pages, page[w].pc = "polling",
           HasResult(page[w].id), ShowAnswer(w),
           UNCHANGED <<pending, vdbIn, llmIn, llmOut, searching, minted>>,
           UNCHANGED vdbVars
    PROVE  RagInv'
<1> DEFINE q == page[w].query
           i == page[w].id
           answer == pending[i].result
           line == [role |-> "assistant", about |-> answer.query]
           shown == Trim(Append(page[w].history, line))
           new == [page[w] EXCEPT !.pc = "idle", !.id = NoId, !.left = 0,
                                  !.history = shown]
           rec == [told[q] EXCEPT !.status = "answered", !.answer = answer]
<1>1. /\ page[w] \in Page /\ q \in Questions /\ told[q] \in Promise!Told
      /\ page[w].history \in Seq(Line)
  BY DEF RagInv, RagTypeOK, Page
<1>2. i \in Ids /\ minted[i] = Asked(w) /\ told[q].index = page[w].index
  BY DEF RagInv, PagesFit
<1>3. answer \in Promise!Answer
  BY <1>2 DEF HasResult, Known, RagInv, RagTypeOK, Entry
<1>4. answer.query = q /\ answer.doc.index = page[w].index
  <2>1. minted[i] = [query |-> answer.query, index |-> answer.doc.index]
    BY <1>2 DEF RagInv, ResultsFit, Fits
  <2>2. minted[i] = [query |-> q, index |-> page[w].index]
    BY <1>2 DEF Asked
  <2>3. /\ minted[i].query = answer.query /\ minted[i].query = q
        /\ minted[i].index = answer.doc.index
        /\ minted[i].index = page[w].index
    <3> HIDE DEF answer, q, i
    <3>1. QED
      BY <2>1, <2>2
  <2>4. QED
    BY <2>3
<1>5. Append(page[w].history, line) \in Seq(Line)
  <2>1. line \in Line
    BY <1>3 DEF Line
  <2>2. QED
    BY <1>1, <2>1
<1>6. shown \in Seq(Line)
  <2>1. Len(Append(page[w].history, line)) = Len(page[w].history) + 1
        /\ Len(page[w].history) \in Nat
    BY <1>1
  <2>2. Append(page[w].history, line) # <<>>
    BY <1>1
  <2>3. QED
    BY <1>5, <2>2 DEF Trim
<1>7. page' = [page EXCEPT ![w] = new] /\ told' = [told EXCEPT ![q] = rec]
  BY DEF ShowAnswer
<1> HIDE DEF shown, line
<1>8. new \in Page /\ new.pc = "idle" /\ new.next = page[w].next
  BY <1>1, <1>6, 0 \in Int DEF Page, PagePCs
<1> HIDE DEF answer
<1>9. /\ rec \in Promise!Told /\ rec.index = told[q].index
      /\ rec.status = "answered" /\ rec.answer = answer
  BY <1>1, <1>3 DEF Promise!Told, Promise!Outcomes
<1> HIDE DEF new, rec
<1>10. QED
  BY <1>2, <1>4, <1>7, <1>8, <1>9, EndInv

LEMMA CheckInv ==
    ASSUME RagInv, NEW w \in Pages, Check(w), UNCHANGED vdbVars
    PROVE  RagInv'
<1> DEFINE left == page[w].left - 1
<1>1. /\ page[w].pc = "polling" /\ page[w].pc # "idle"
      /\ UNCHANGED <<pending, vdbIn, llmIn, llmOut, searching, minted>>
  BY DEF Check
<1>2. CASE EndSearch(w, "timeout")
  BY <1>1, <1>2, EndSearchInv
<1>3. CASE EndSearch(w, "superseded")
  BY <1>1, <1>3, EndSearchInv
<1>4. CASE HasResult(page[w].id) /\ ShowAnswer(w)
  BY <1>1, <1>4, ShowAnswerInv
<1>5. CASE page' = [page EXCEPT ![w].left = left] /\ UNCHANGED told
  <2>1. page \in [Pages -> Page] /\ left \in Int
    BY DEF RagInv, RagTypeOK, Page
  <2>2. page' \in [Pages -> Page]
    BY <1>5, <2>1 DEF Page
  <2>3. \A v \in Pages :
            page'[v] = IF v = w THEN [page[w] EXCEPT !.left = left] ELSE page[v]
    BY <1>5, <2>1
  <2>4. QED
    BY <1>1, <1>5, <2>1, <2>2, <2>3, MoveInv DEF Page
<1>6. QED
  BY <1>2, <1>3, <1>4, <1>5 DEF Check

-----------------------------------------------------------------------------
(* The interface *)

\* A fresh uuid: nothing under way can belong to it.
LEMMA StoreRequestInv ==
    ASSUME RagInv, NEW w \in Pages, StoreRequest(w), UNCHANGED vdbVars
    PROVE  RagInv'
<1>1. PICK i \in Ids :
        /\ minted[i] = NoEntry
        /\ minted' = [minted EXCEPT ![i] = Asked(w)]
        /\ pending' = [pending EXCEPT ![i] =
                [query |-> page[w].query, index |-> page[w].index,
                 result |-> NoAnswer]]
        /\ page' = [page EXCEPT ![w] =
                [page[w] EXCEPT !.pc = "stored", !.id = i]]
  BY DEF StoreRequest
<1> DEFINE new == [page[w] EXCEPT !.pc = "stored", !.id = i]
<1>2. /\ page[w].pc = "posting"
      /\ UNCHANGED <<vdbIn, llmIn, llmOut, searching, told>>
  BY DEF StoreRequest
<1>3. /\ page \in [Pages -> Page] /\ minted \in [Ids -> Request \cup {NoEntry}]
      /\ pending \in [Ids -> Entry \cup {NoEntry}]
  BY DEF RagInv, RagTypeOK
<1>4. /\ page[w] \in Page /\ page[w].query \in Questions
      /\ page[w].index \in Indexes
  BY <1>3 DEF Page
<1>5. new \in Page /\ new.pc = "stored" /\ new.id = i /\ new.next = page[w].next
      /\ new.query = page[w].query /\ new.index = page[w].index
  BY <1>4 DEF Page, PagePCs
<1> HIDE DEF new
<1>6. /\ page'[w] = new /\ \A v \in Pages \ {w} : page'[v] = page[v]
      /\ page' \in [Pages -> Page]
  BY <1>1, <1>3, <1>5, UpdatePage DEF new
<1>7. /\ minted'[i] = Asked(w) /\ \A j \in Ids \ {i} : minted'[j] = minted[j]
      /\ Asked(w) \in Request
      /\ minted' \in [Ids -> Request \cup {NoEntry}]
  BY <1>1, <1>3, <1>4 DEF Asked, Request
<1>8. /\ pending' \in [Ids -> Entry \cup {NoEntry}]
      /\ pending'[i].result = NoAnswer
      /\ \A j \in Ids \ {i} : pending'[j] = pending[j]
  BY <1>1, <1>3, <1>4 DEF Entry
<1>9. RagTypeOK'
  BY <1>2, <1>6, <1>7, <1>8 DEF RagInv, RagTypeOK
<1>10. \A j \in Ids, q \in Questions, ix \in Indexes :
            minted[j] = [query |-> q, index |-> ix] => j # i
  <2> SUFFICES ASSUME NEW q \in Questions, NEW ix \in Indexes
               PROVE  NoEntry # [query |-> q, index |-> ix]
    BY <1>1
  <2>1. [query |-> q, index |-> ix] \in Request
    BY DEF Request
  <2>2. QED
    BY <2>1, NullAssumption
<1>11. MessagesFit'
  <2>1. \A m \in vdbIn : m.id \in Ids /\ m.query \in Questions /\ m.index \in Indexes
    BY DEF RagInv, RagTypeOK, VdbMessage
  <2>2. \A s \in searching : s.msg.id \in Ids /\ s.msg.query \in Questions
                             /\ s.doc.index \in Indexes
    BY DocumentFields DEF RagInv, RagTypeOK, Search, VdbMessage
  <2>3. \A m \in llmIn : m.id \in Ids /\ m.query \in Questions /\ m.doc.index \in Indexes
    BY DocumentFields DEF RagInv, RagTypeOK, LlmMessage
  <2>4. \A m \in llmOut : m.id \in Ids /\ m.answer.query \in Questions
                          /\ m.answer.doc.index \in Indexes
    BY AnswerFields DEF RagInv, RagTypeOK, ResultMessage
  <2>5. QED
    BY <1>2, <1>7, <1>10, <2>1, <2>2, <2>3, <2>4 DEF RagInv, MessagesFit, Fits
<1>12. ResultsFit'
  <2> SUFFICES ASSUME NEW j \in Ids, HasResult(j)'
               PROVE  Fits(j, pending[j].result.query, pending[j].result.doc)'
    BY DEF ResultsFit
  <2>1. j # i
    BY <1>8 DEF HasResult
  <2>2. pending'[j] = pending[j] /\ minted'[j] = minted[j]
    BY <1>7, <1>8, <2>1
  <2>3. HasResult(j)
    BY <2>2 DEF HasResult, Known
  <2>4. QED
    BY <2>2, <2>3 DEF RagInv, ResultsFit, Fits
<1>13. PagesFit'
  <2>1. ASSUME NEW v \in Pages
        PROVE  (page[v].pc \in {"stored", "published", "polling"} =>
                    page[v].id \in Ids /\ minted[page[v].id] = Asked(v))'
    <3>1. CASE v = w
      BY <3>1, <1>5, <1>6, <1>7 DEF Asked
    <3>2. CASE v # w
      <4>1. page'[v] = page[v] /\ Asked(v)' = Asked(v)
        BY <3>2, <1>6 DEF Asked
      <4>2. page[v].query \in Questions /\ page[v].index \in Indexes
        BY <1>3 DEF Page
      <4>3. QED
        BY <1>7, <1>10, <4>1, <4>2 DEF RagInv, PagesFit, Asked
    <3>3. QED
      BY <3>1, <3>2
  <2>2. QED
    BY <1>2, <1>5, <1>6, <2>1 DEF RagInv, PagesFit
<1>14. AnswersFit'
  BY <1>2 DEF RagInv, AnswersFit
<1>15. QED
  BY <1>9, <1>11, <1>12, <1>13, <1>14, NextInv DEF RagInv

LEMMA PublishRequestInv ==
    ASSUME RagInv, NEW w \in Pages, PublishRequest(w), UNCHANGED vdbVars
    PROVE  RagInv'
<1> DEFINE m == [id |-> page[w].id, query |-> page[w].query,
                 index |-> page[w].index]
<1>1. /\ page[w].pc = "stored"
      /\ page' = [page EXCEPT ![w].pc = "published"]
      /\ vdbIn' = vdbIn \cup {m}
      /\ UNCHANGED <<pending, llmIn, llmOut, searching, minted, told>>
  BY DEF PublishRequest, Turn
<1>2. page \in [Pages -> Page] /\ page[w] \in Page
  BY DEF RagInv, RagTypeOK
<1>3. page[w].id \in Ids /\ minted[page[w].id] = Asked(w)
  BY <1>1 DEF RagInv, PagesFit
<1>4. m \in VdbMessage
  BY <1>2, <1>3 DEF VdbMessage, Page
<1>5. minted[m.id] = [query |-> m.query, index |-> m.index]
  BY <1>3 DEF Asked
<1>6. \A v \in Pages :
        page'[v] = IF v = w THEN [page[w] EXCEPT !.pc = "published"] ELSE page[v]
  BY <1>1, <1>2
<1>7. page' \in [Pages -> Page]
  BY <1>1, <1>2 DEF Page, PagePCs
<1> HIDE DEF m
<1>8. RagTypeOK'
  BY <1>1, <1>4, <1>7 DEF RagInv, RagTypeOK
<1>9. PagesFit'
  BY <1>1, <1>2, <1>6 DEF RagInv, PagesFit, Asked, Page
<1>10. MessagesFit' /\ ResultsFit' /\ AnswersFit'
  BY <1>1, <1>5 DEF RagInv, MessagesFit, ResultsFit, Fits, HasResult, Known,
                    AnswersFit
<1>11. QED
  BY <1>8, <1>9, <1>10, NextInv DEF RagInv

\* What stays of a topic after an acknowledgement or a refusal.
LEMMA TopicShrinks ==
    ASSUME NEW topic, NEW m, NEW rest \in Acked(topic, m) \cup Refused(topic, m)
    PROVE  rest \subseteq topic /\ topic \subseteq rest \cup {m}
BY DEF Acked, Refused

LEMMA StoreResultInv ==
    ASSUME RagInv, NEW m \in llmOut, StoreResult(m), UNCHANGED vdbVars
    PROVE  RagInv'
<1>1. /\ pending' = [pending EXCEPT ![m.id].result = m.answer]
      /\ llmOut' \subseteq llmOut
      /\ UNCHANGED <<page, vdbIn, llmIn, searching, minted, told>>
      /\ Known(m.id)
  BY TopicShrinks DEF StoreResult
<1>2. m.id \in Ids /\ m.answer \in Answer
      /\ Fits(m.id, m.answer.query, m.answer.doc)
  BY DEF RagInv, RagTypeOK, ResultMessage, MessagesFit
<1>3. /\ pending \in [Ids -> Entry \cup {NoEntry}] /\ pending[m.id] \in Entry
  BY <1>1, <1>2 DEF RagInv, RagTypeOK, Known
<1>4. /\ pending'[m.id] = [pending[m.id] EXCEPT !.result = m.answer]
      /\ \A j \in Ids \ {m.id} : pending'[j] = pending[j]
      /\ [pending[m.id] EXCEPT !.result = m.answer] \in Entry
  BY <1>1, <1>2, <1>3 DEF Entry
<1>5. pending' \in [Ids -> Entry \cup {NoEntry}] /\ pending'[m.id].result = m.answer
  BY <1>1, <1>3, <1>4 DEF Entry
<1>6. RagTypeOK'
  BY <1>1, <1>5 DEF RagInv, RagTypeOK
<1>7. ResultsFit'
  <2> SUFFICES ASSUME NEW j \in Ids, HasResult(j)'
               PROVE  Fits(j, pending[j].result.query, pending[j].result.doc)'
    BY DEF ResultsFit
  <2>1. CASE j = m.id
    BY <1>1, <1>2, <1>5, <2>1 DEF Fits
  <2>2. CASE j # m.id
    BY <1>1, <1>4, <2>2 DEF RagInv, ResultsFit, HasResult, Known, Fits
  <2>3. QED
    BY <2>1, <2>2
<1>8. MessagesFit' /\ PagesFit' /\ AnswersFit'
  BY <1>1 DEF RagInv, MessagesFit, Fits, PagesFit, Asked, AnswersFit
<1>9. QED
  BY <1>6, <1>7, <1>8, NextInv DEF RagInv

LEMMA InterfaceRestartInv ==
    ASSUME RagInv, InterfaceRestart, UNCHANGED vdbVars
    PROVE  RagInv'
<1>1. /\ page \in [Pages -> Page]
      /\ page' = [w \in Pages |->
                  IF page[w].pc \in {"stored", "published"}
                  THEN [page[w] EXCEPT !.pc = "failing"] ELSE page[w]]
      /\ pending' = [i \in Ids |-> NoEntry]
      /\ UNCHANGED <<vdbIn, llmIn, llmOut, searching, minted, told>>
  BY DEF InterfaceRestart, RagInv, RagTypeOK
<1>2. \A w \in Pages : [page[w] EXCEPT !.pc = "failing"] \in Page
  BY <1>1 DEF Page, PagePCs
<1>2a. page' \in [Pages -> Page]
  BY <1>1, <1>2
<1>3. QED
  BY <1>1, <1>2a, MoveInv DEF Page

-----------------------------------------------------------------------------
(* The handlers of the database and the model *)

\* A step that only moves messages, each of them still fitting its uuid.
LEMMA HandlerInv ==
    ASSUME RagInv, UNCHANGED <<page, pending, minted, told>>,
           [VdbNext]_vdbVars,
           \A m \in vdbIn' : m \in vdbIn,
           \A s \in searching' : s \in searching \/
                (s \in Search /\ s.msg \in vdbIn /\ s.doc.index = s.msg.index),
           \A m \in llmIn' : m \in llmIn \/
                (m \in LlmMessage /\ Fits(m.id, m.query, m.doc)),
           \A m \in llmOut' : m \in llmOut \/
                (/\ m \in ResultMessage
                 /\ Fits(m.id, m.answer.query, m.answer.doc))
    PROVE  RagInv'
<1>1. RagTypeOK'
  BY DEF RagInv, RagTypeOK
<1>2. MessagesFit'
  <2>1. \A s \in searching' : Fits(s.msg.id, s.msg.query, s.doc)
                              /\ s.doc.index = s.msg.index
    <3> SUFFICES ASSUME NEW s \in searching', s \notin searching
                 PROVE  Fits(s.msg.id, s.msg.query, s.doc)
      BY DEF RagInv, MessagesFit
    <3>1. minted[s.msg.id] = [query |-> s.msg.query, index |-> s.msg.index]
      BY DEF RagInv, MessagesFit
    <3>2. s.doc.index = s.msg.index
      OBVIOUS
    <3>3. QED
      BY <3>1, <3>2 DEF Fits
  <2>2. QED
    BY <2>1 DEF RagInv, MessagesFit, Fits
<1>3. ResultsFit' /\ PagesFit' /\ AnswersFit'
  BY DEF RagInv, ResultsFit, HasResult, Known, Fits, PagesFit, Asked,
         AnswersFit
<1>4. QED
  BY <1>1, <1>2, <1>3, NextInv DEF RagInv

LEMMA SearchInv ==
    ASSUME RagInv, NEW m \in vdbIn, SearchIndex(m) \/ SearchFails(m),
           UNCHANGED vdbVars
    PROVE  RagInv'
<1>1. CASE SearchIndex(m)
  <2>1. PICK d \in store[m.index] :
            searching' = searching \cup {[msg |-> m, doc |-> d]}
    BY <1>1 DEF SearchIndex
  <2>2. m \in VdbMessage /\ m.index \in Indexes
    BY DEF RagInv, RagTypeOK, VdbMessage
  <2>3. d \in Document /\ d.index = m.index
    BY <2>2 DEF RagInv, VdbInv, VdbTypeOK, StoreMatchesIndex
  <2>4. [msg |-> m, doc |-> d] \in Search
    BY <2>2, <2>3 DEF Search
  <2>5. UNCHANGED <<page, pending, vdbIn, llmIn, llmOut, minted, told>>
    BY <1>1 DEF SearchIndex
  <2>6. QED
    BY <2>1, <2>3, <2>4, <2>5, HandlerInv
<1>2. CASE SearchFails(m)
  <2>1. vdbIn' \subseteq vdbIn
    BY <1>2, TopicShrinks DEF SearchFails
  <2>2. QED
    BY <1>2, <2>1, HandlerInv DEF SearchFails
<1>3. QED
  BY <1>1, <1>2

LEMMA PublishDocumentInv ==
    ASSUME RagInv, NEW s \in searching,
           PublishDocument(s) \/ PublishDocumentFails(s), UNCHANGED vdbVars
    PROVE  RagInv'
<1> DEFINE m == [id |-> s.msg.id, query |-> s.msg.query, doc |-> s.doc]
<1>1. vdbIn' \subseteq vdbIn /\ searching' \subseteq searching
      /\ UNCHANGED <<page, pending, llmOut, minted, told>>
  BY TopicShrinks DEF PublishDocument, PublishDocumentFails
<1>2. llmIn' \subseteq llmIn \cup {m}
  BY DEF PublishDocument, PublishDocumentFails
<1>3. m \in LlmMessage /\ Fits(m.id, m.query, m.doc)
  BY DEF RagInv, RagTypeOK, MessagesFit, LlmMessage, Search, VdbMessage
<1> HIDE DEF m
<1>4. QED
  BY <1>1, <1>2, <1>3, HandlerInv

LEMMA InferInv ==
    ASSUME RagInv, NEW m \in llmIn, Infer(m) \/ InferFails(m), UNCHANGED vdbVars
    PROVE  RagInv'
<1> DEFINE result == [id |-> m.id, answer |-> [query |-> m.query, doc |-> m.doc]]
<1>1. llmIn' \subseteq llmIn
      /\ UNCHANGED <<page, pending, vdbIn, searching, minted, told>>
  BY TopicShrinks DEF Infer, InferFails
<1>2. llmOut' \subseteq llmOut \cup {result}
  BY DEF Infer, InferFails
<1>3. m \in LlmMessage /\ Fits(m.id, m.query, m.doc)
  BY DEF RagInv, RagTypeOK, MessagesFit
<1>4. /\ result \in ResultMessage
      /\ Fits(result.id, result.answer.query, result.answer.doc)
  BY <1>3 DEF LlmMessage, ResultMessage
<1> HIDE DEF result
<1>5. QED
  BY <1>1, <1>2, <1>4, HandlerInv

LEMMA RagNextInv ==
    ASSUME RagInv, [RagNext]_vars
    PROVE  RagInv'
<1>1. CASE UNCHANGED vars
  BY <1>1, HandlerInv DEF vars, ragVars
<1>2. CASE DatabaseRestart
  BY <1>2, HandlerInv DEF DatabaseRestart, VdbNext
<1>3. CASE IndexStep /\ UNCHANGED ragVars
  BY <1>3, HandlerInv DEF ragVars, VdbNext
<1>4. CASE InterfaceRestart /\ UNCHANGED vdbVars
  BY <1>4, InterfaceRestartInv
<1>5. CASE Handler /\ UNCHANGED vdbVars
  <2>1. ASSUME NEW m \in llmOut, RefuseResult(m) PROVE RagInv'
    BY <1>5, <2>1, TopicShrinks, HandlerInv DEF RefuseResult
  <2>2. QED
    BY <1>5, <2>1, SearchInv, PublishDocumentInv, InferInv, StoreResultInv
       DEF Handler
<1>6. ASSUME NEW w \in Pages, PageStep(w), UNCHANGED vdbVars PROVE RagInv'
  <2>1. ASSUME ShowError(w) \/ NoTurns(w) PROVE RagInv'
    BY <1>6, <2>1, EndSearchInv DEF ShowError, NoTurns
  <2>2. QED
    BY <1>6, <2>1, BeginInv, CheckInv, StoreRequestInv, PublishRequestInv,
       TurnInv DEF PageStep
<1>7. ASSUME NEW w \in Pages, UNCHANGED vdbVars,
             \/ PromptIgnored(w) \/ CallFails(w) \/ PublishFails(w)
             \/ \E q \in Questions : Submit(w, q)
      PROVE  RagInv'
  BY <1>7, TurnInv, SubmitInv
<1>8. QED
  BY <1>1, <1>2, <1>3, <1>4, <1>5, <1>6, <1>7 DEF RagNext

-----------------------------------------------------------------------------
(* Theorems *)

THEOREM RagInvariant == Spec => []RagInv
<1>1. QED
  BY RagInitInv, RagNextInv, PTL DEF Spec

\* Every variable of the four modules and of the broker keeps its type.
THEOREM TypeCorrect == Spec => []TypeOK
<1>1. RagInv => TypeOK
  BY DEF RagInv, VdbInv, TypeOK
<1>2. QED
  BY RagInvariant, <1>1, PTL

-----------------------------------------------------------------------------
(* Where a document comes from: one lemma for each variable it may pass       *)
(* through, from a collection to what the user is shown.                      *)

LEMMA SearchedFrom ==
    ASSUME RagInv, [RagNext]_vars, NEW s \in searching', s \notin searching
    PROVE  \E ix \in Indexes : s.doc \in store[ix]
<1>1. PICK m \in vdbIn : SearchIndex(m)
  BY DEF RagNext, PageStep, Begin, Check, NoTurns, ShowError, StoreRequest,
     PublishRequest, ReturnId, Handler, SearchFails, PublishDocument,
     PublishDocumentFails, Infer, InferFails, StoreResult, RefuseResult,
     PromptIgnored, CallFails, PublishFails, Submit, InterfaceRestart,
     DatabaseRestart, vars, ragVars
<1>2. PICK d \in store[m.index] : s = [msg |-> m, doc |-> d]
  BY <1>1 DEF SearchIndex
<1>3. s.doc = d
  BY <1>2
<1>4. m.index \in Indexes
  BY DEF RagInv, RagTypeOK, VdbMessage
<1>5. QED
  BY <1>2, <1>3, <1>4

LEMMA InferredFrom ==
    ASSUME RagInv, [RagNext]_vars, NEW m \in llmIn', m \notin llmIn
    PROVE  \E s \in searching : m.doc = s.doc
<1>1. PICK s \in searching : PublishDocument(s)
  BY TopicShrinks DEF RagNext, PageStep, Begin, Check, NoTurns, ShowError,
     StoreRequest, PublishRequest, ReturnId, Handler, SearchIndex, SearchFails,
     PublishDocumentFails, Infer, InferFails, StoreResult, RefuseResult,
     PromptIgnored, CallFails, PublishFails, Submit, InterfaceRestart,
     DatabaseRestart, vars, ragVars
<1>2. m = [id |-> s.msg.id, query |-> s.msg.query, doc |-> s.doc]
  BY <1>1 DEF PublishDocument
<1>3. m.doc = s.doc
  BY <1>2
<1>4. QED
  BY <1>3

LEMMA AnsweredFrom ==
    ASSUME RagInv, [RagNext]_vars, NEW m \in llmOut', m \notin llmOut
    PROVE  \E n \in llmIn : m.answer.doc = n.doc
<1>1. PICK n \in llmIn : Infer(n)
  BY TopicShrinks DEF RagNext, PageStep, Begin, Check, NoTurns, ShowError,
     StoreRequest, PublishRequest, ReturnId, Handler, SearchIndex, SearchFails,
     PublishDocument, PublishDocumentFails, InferFails, StoreResult,
     RefuseResult, PromptIgnored, CallFails, PublishFails, Submit,
     InterfaceRestart, DatabaseRestart, vars, ragVars
<1>2. m = [id |-> n.id, answer |-> [query |-> n.query, doc |-> n.doc]]
  BY <1>1 DEF Infer
<1>3. m.answer.doc = n.doc
  BY <1>2
<1>4. QED
  BY <1>3

LEMMA ResultFrom ==
    ASSUME RagInv, [RagNext]_vars, NEW i \in Ids, HasResult(i)'
    PROVE  \/ HasResult(i) /\ pending'[i].result = pending[i].result
           \/ \E m \in llmOut : pending'[i].result = m.answer
<1>0. pending \in [Ids -> Entry \cup {NoEntry}]
  BY DEF RagInv, RagTypeOK
<1>1. CASE UNCHANGED pending
  BY <1>1 DEF HasResult, Known
<1>2. ASSUME NEW w \in Pages, StoreRequest(w) PROVE HasResult(i) /\ UNCHANGED pending[i]
  <2>1. PICK j \in Ids : pending' = [pending EXCEPT ![j] =
                [query |-> page[w].query, index |-> page[w].index,
                 result |-> NoAnswer]]
    BY <1>2 DEF StoreRequest
  <2>2. pending'[j].result = NoAnswer
    BY <1>0, <2>1
  <2>3. i # j
    BY <2>2 DEF HasResult
  <2>4. pending'[i] = pending[i]
    BY <1>0, <2>1, <2>3
  <2>5. QED
    BY <2>4 DEF HasResult, Known
<1>3. ASSUME NEW m \in llmOut, StoreResult(m)
      PROVE  \/ HasResult(i) /\ UNCHANGED pending[i]
             \/ pending'[i].result = m.answer
  <2>1. /\ pending' = [pending EXCEPT ![m.id].result = m.answer]
        /\ Known(m.id) /\ m.id \in Ids
    BY <1>3 DEF StoreResult, RagInv, RagTypeOK, ResultMessage
  <2>2. CASE i = m.id
    <3>1. pending'[i] = [pending[i] EXCEPT !.result = m.answer]
      BY <1>0, <2>1, <2>2
    <3>2. pending[i] \in Entry
      BY <1>0, <2>1, <2>2 DEF Known
    <3>3. QED
      BY <3>1, <3>2 DEF Entry
  <2>3. CASE i # m.id
    <3>1. pending'[i] = pending[i]
      BY <1>0, <2>1, <2>3
    <3>2. QED
      BY <3>1 DEF HasResult, Known
  <2>4. QED
    BY <2>2, <2>3
<1>4. CASE InterfaceRestart
  BY <1>4 DEF InterfaceRestart, HasResult, Known
<1>5. QED
  BY <1>1, <1>2, <1>3, <1>4
     DEF RagNext, PageStep, Begin, Check, NoTurns, ShowError, PublishRequest,
     ReturnId, Handler, SearchIndex, SearchFails, PublishDocument,
     PublishDocumentFails, Infer, InferFails, RefuseResult, PromptIgnored,
     CallFails, PublishFails, Submit, DatabaseRestart, vars, ragVars

LEMMA ShownFrom ==
    ASSUME RagInv, [RagNext]_vars, NEW q \in Questions,
           told'[q].status = "answered"
    PROVE  \/ told[q].status = "answered" /\ told'[q].answer = told[q].answer
           \/ \E i \in Ids : HasResult(i) /\ told'[q].answer = pending[i].result
<1>0. /\ page \in [Pages -> Page]
      /\ told \in [Questions -> Promise!Told]
      /\ \A w \in Pages : page[w].query \in Questions
  BY DEF RagInv, RagTypeOK, Page
<1> DEFINE Kept == told[q].status = "answered" /\ told'[q].answer = told[q].answer
<1>1. ASSUME NEW r \in Questions, NEW rec, told' = [told EXCEPT ![r] = rec],
             rec.status # "answered"
      PROVE  Kept
  BY <1>0, <1>1
<1>2. ASSUME NEW w \in Pages, NEW o \in {"timeout", "error", "silent", "superseded"},
             EndSearch(w, o)
      PROVE  Kept
  <2> DEFINE end == IF page[w].next = NoQuestion THEN o ELSE "superseded"
             rec == [told[page[w].query] EXCEPT !.status = end]
  <2>1. told' = [told EXCEPT ![page[w].query] = rec]
    BY <1>0, <1>2 DEF EndSearch
  <2>2. rec.status # "answered"
    BY <1>0 DEF Promise!Told
  <2> HIDE DEF rec
  <2>3. QED
    BY <1>0, <1>1, <2>1, <2>2
<1>3. ASSUME NEW w \in Pages, page[w].pc = "polling", HasResult(page[w].id),
             ShowAnswer(w)
      PROVE  \/ Kept
             \/ \E i \in Ids : HasResult(i) /\ told'[q].answer = pending[i].result
  <2> DEFINE r == page[w].query
             i == page[w].id
             rec == [told[r] EXCEPT !.status = "answered",
                                    !.answer = pending[i].result]
  <2>1. told' = [told EXCEPT ![r] = rec]
    BY <1>3 DEF ShowAnswer
  <2>2. rec.answer = pending[i].result
    BY <1>0 DEF Promise!Told
  <2>3. i \in Ids
    BY <1>3 DEF RagInv, PagesFit
  <2> HIDE DEF rec
  <2>4. CASE q = r
    BY <1>0, <1>3, <2>1, <2>2, <2>3, <2>4
  <2>5. CASE q # r
    BY <1>0, <2>1, <2>5
  <2>6. QED
    BY <2>4, <2>5
<1>4. ASSUME NEW w \in Pages, NEW ix \in Indexes, NEW t \in Timeouts,
             Begin(w, ix, t)
      PROVE  Kept
  <2>1. page[w].next \in Questions
    BY <1>0, <1>4 DEF Begin, Page
  <2>2. PICK rec : /\ rec = [told[page[w].next] EXCEPT !.status = "waiting",
                                                       !.index = ix]
                   /\ told' = [told EXCEPT ![page[w].next] = rec]
    BY <1>4 DEF Begin
  <2>3. rec.status = "waiting"
    BY <1>0, <2>1, <2>2 DEF Promise!Told
  <2>4. QED
    BY <1>1, <2>1, <2>2, <2>3
<1>5. ASSUME UNCHANGED told PROVE Kept
  BY <1>5
<1>6. ASSUME NEW w \in Pages, Check(w) \/ NoTurns(w) \/ ShowError(w)
      PROVE  \/ Kept
             \/ \E i \in Ids : HasResult(i) /\ told'[q].answer = pending[i].result
  BY <1>2, <1>3, <1>5, <1>6 DEF Check, NoTurns, ShowError
<1>7. QED
  BY <1>4, <1>5, <1>6
     DEF RagNext, PageStep, StoreRequest, PublishRequest,
     ReturnId, Handler, SearchIndex, SearchFails, PublishDocument,
     PublishDocumentFails, Infer, InferFails, StoreResult, RefuseResult,
     PromptIgnored, CallFails, PublishFails, Submit, InterfaceRestart,
     DatabaseRestart, vars, ragVars

\* A step of the database forgets no upload, and what it stores was uploaded
\* or is the image's.
LEMMA UploadedStays ==
    ASSUME VdbInv, [VdbNext]_vdbVars, NEW d \in Document, Uploaded(d)
    PROVE  Uploaded(d)'
<1>1. /\ upload \in [Uploads -> Upload] /\ d.up \in Uploads
      /\ upload[d.up] \in Upload
  BY DocumentFields DEF VdbInv, VdbTypeOK, Uploaded
<1>2. ASSUME NEW u \in Uploads, NEW phase \in Phases \ {"free"},
             upload' = [upload EXCEPT ![u].phase = phase]
      PROVE  Uploaded(d)'
  BY <1>1, <1>2 DEF Uploaded, Upload
<1>3. ASSUME NEW u \in Uploads, AddBatch(u) PROVE Uploaded(d)'
  BY <1>1, <1>3 DEF AddBatch, Uploaded, Upload
<1>4. CASE VdbRestart
  BY <1>1, <1>4 DEF VdbRestart, Uploaded, Upload, Running
<1>5. CASE UNCHANGED upload
  BY <1>5 DEF Uploaded
<1>6. {"running", "failed", "done"} \subseteq Phases \ {"free"}
  BY DEF Phases
<1>7. QED
  BY <1>2, <1>3, <1>4, <1>5, <1>6 DEF VdbNext, IndexStep, vdbVars, CreateIndex,
     DeleteIndex, BeginUpload, BatchFails, FailUpload, ReportUpload

LEMMA ProvidedStays ==
    ASSUME VdbInv, [VdbNext]_vdbVars, NEW d \in Document, Provided(d)
    PROVE  Provided(d)'
BY UploadedStays DEF Provided, ShippedRecords, ShippedRecord

LEMMA StoredIsProvided ==
    ASSUME VdbInv, [VdbNext]_vdbVars, NEW ix \in Indexes, NEW d \in store'[ix],
           d \notin store[ix]
    PROVE  Provided(d)'
<1>1. /\ upload \in [Uploads -> Upload]
      /\ store \in [Indexes -> SUBSET Document]
  BY DEF VdbInv, VdbTypeOK
<1>0. CASE store' = ImageStore
  <2>1. d \in ShippedRecords
    BY <1>0 DEF ImageStore, ShippedRecords
  <2>2. QED
    BY <2>1 DEF Provided, ShippedRecords, ShippedRecord
<1> SUFFICES ASSUME store' # ImageStore PROVE Provided(d)'
  BY <1>0
<1>2. PICK u \in Uploads : AddBatch(u)
  BY <1>1 DEF VdbNext, IndexStep, vdbVars, CreateIndex, DeleteIndex, BeginUpload,
     BatchFails, FailUpload, ReportUpload, VdbRestart
<1> DEFINE n == upload[u].size
           k == upload[u].next
<1>3. /\ upload[u].index \in Indexes /\ n \in Nat
      /\ k + 1 \in 1..(Batches(n) + 1) /\ k \in Nat
  <2>1. upload[u] \in Upload /\ k \in 1..(Batches(n) + 1)
    BY <1>1 DEF VdbInv, NextInRange
  <2>2. n \in Nat
    BY <2>1, SizesTyped DEF Upload
  <2>3. Batches(n) \in Nat
    BY <2>2, BatchesTyped
  <2>4. QED
    BY <1>2, <2>1, <2>2, <2>3 DEF AddBatch, Upload
<1>4. First(n, k + 1) \in 0..n /\ First(n, k) \in 0..n
  <2>1. k \in 1..(Batches(n) + 1)
    BY DEF VdbInv, NextInRange
  <2>2. QED
    BY <1>3, <2>1, FirstTyped
<1>5. PICK c \in Batch(n, k) :
        d = [up |-> u, chunk |-> c, index |-> upload[u].index]
  BY <1>1, <1>2, <1>3 DEF AddBatch
<1>6. c \in Nat /\ c <= n
  <2>1. Batch(n, k) = (First(n, k) + 1)..First(n, k + 1)
    BY DEF Batch
  <2> HIDE DEF n, k
  <2>2. QED
    BY <1>3, <1>4, <1>5, <2>1
<1>7. /\ upload'[u].phase = "running" /\ upload'[u].index = upload[u].index
      /\ upload'[u].size = n
  <2>1. upload'[u] = [upload[u] EXCEPT !.next = k + 1]
    BY <1>1, <1>2 DEF AddBatch
  <2>2. upload[u] \in Upload
    BY <1>1
  <2>3. QED
    BY <1>2, <2>1, <2>2 DEF Upload, AddBatch, Running
<1>8. d.up = u /\ d.chunk = c /\ d.index = upload[u].index
  BY <1>5
<1>9. QED
  BY <1>6, <1>7, <1>8, VdbAssumption DEF Uploaded, Provided

\* Every document anywhere between a collection and the user.
Around(d) ==
    \/ \E ix \in Indexes : d \in store[ix]
    \/ \E s \in searching : d = s.doc
    \/ \E m \in llmIn : d = m.doc
    \/ \E m \in llmOut : d = m.answer.doc
    \/ \E i \in Ids : HasResult(i) /\ d = pending[i].result.doc
    \/ \E q \in Questions :
            told[q].status = "answered" /\ d = told[q].answer.doc

Provenance == \A d : Around(d) => d \in Document /\ Provided(d)

\* A pipeline step is a database step too: RAG modules only read collections.
LEMMA StepOfIndex == [RagNext]_vars => [VdbNext]_vdbVars
BY DEF RagNext, DatabaseRestart, VdbNext, vars

LEMMA ProvenanceNext ==
    ASSUME RagInv, Provenance, [RagNext]_vars
    PROVE  Provenance'
<1>0. VdbInv /\ [VdbNext]_vdbVars
  BY StepOfIndex DEF RagInv
<1>1. ASSUME NEW d, Around(d)',
             ~\E ix \in Indexes : d \in store'[ix] /\ d \notin store[ix]
      PROVE  Around(d)
  <2>1. ASSUME NEW s \in searching', d = s.doc PROVE Around(d)
    BY <2>1, SearchedFrom DEF Around
  <2>2. ASSUME NEW m \in llmIn', d = m.doc PROVE Around(d)
    BY <2>2, InferredFrom DEF Around
  <2>3. ASSUME NEW m \in llmOut', d = m.answer.doc PROVE Around(d)
    BY <2>3, AnsweredFrom DEF Around
  <2>4. ASSUME NEW i \in Ids, HasResult(i)', d = pending'[i].result.doc
        PROVE  Around(d)
    BY <2>4, ResultFrom DEF Around
  <2>5. ASSUME NEW q \in Questions, told'[q].status = "answered",
               d = told'[q].answer.doc
        PROVE  Around(d)
    BY <2>5, ShownFrom DEF Around
  <2>6. QED
    BY <1>1, <2>1, <2>2, <2>3, <2>4, <2>5 DEF Around
<1>2. ASSUME NEW d, Around(d)' PROVE d \in Document /\ Provided(d)'
  <2>1. CASE \E ix \in Indexes : d \in store'[ix] /\ d \notin store[ix]
    <3>1. VdbInv'
      BY <1>0, NextInv
    <3>2. QED
      BY <1>0, <2>1, <3>1, StoredIsProvided DEF VdbInv, VdbTypeOK
  <2>2. CASE ~\E ix \in Indexes : d \in store'[ix] /\ d \notin store[ix]
    BY <1>0, <1>1, <1>2, <2>2, ProvidedStays DEF Provenance
  <2>3. QED
    BY <2>1, <2>2
<1>3. QED
  BY <1>2 DEF Provenance

\* No interleaving, duplicate, late result or restart shows an answer to a
\* question it was not inferred for, from an index it was not asked of, or from
\* anything that was not uploaded there or shipped in it.
THEOREM AnswersMatch == Spec => []AnswerMatches
<1>1. Init => Provenance
  <2>1. Init => RagInv
    BY RagInitInv
  <2>2. QED
    <3>1. ASSUME Init, NEW d, Around(d)
          PROVE  \E ix \in Indexes : d \in ImageStore[ix]
      BY <3>1 DEF Init, VdbInit, RagInit, Promise!Init, Around, HasResult, Known
    <3>2. \A ix \in Indexes : \A d \in ImageStore[ix] :
            d \in Document /\ d \in ShippedRecords
      BY ImageFacts DEF ImageStore, ShippedRecords
    <3>3. QED
      BY <3>1, <3>2 DEF Provenance, Provided
<1>2. RagInv /\ Provenance /\ [RagNext]_vars => Provenance'
  BY ProvenanceNext
<1>3. RagInv /\ Provenance => AnswerMatches
  <2> SUFFICES ASSUME RagInv, Provenance, NEW q \in Questions,
                      told[q].status = "answered"
               PROVE  /\ told[q].answer.query = q
                      /\ told[q].answer.doc.index = told[q].index
                      /\ Provided(told[q].answer.doc)
    BY DEF AnswerMatches
  <2>1. told[q].answer.query = q /\ told[q].answer.doc.index = told[q].index
    BY DEF RagInv, AnswersFit
  <2>2. QED
    BY <2>1 DEF Provenance, Around
<1>4. QED
  BY RagInvariant, <1>1, <1>2, <1>3, PTL DEF Spec

\* The pipeline is an index module to whoever uploads and deletes: all that
\* VdbSpec implies, and its theorems prove, holds of it while it is searched.
THEOREM PipelineIsIndex == Spec => VdbSpec
<1>1. Init => VdbInit
  BY DEF Init
<1>2. [RagNext]_vars => [VdbNext]_vdbVars
  BY StepOfIndex
<1>3. QED
  BY <1>1, <1>2, PTL DEF Spec, VdbSpec

\* So batches fit, undisturbed uploads are prefixes and successes are complete
\* with any number of searches, failures and restarts of the other modules.
THEOREM UploadsWhileSearched ==
    Spec => [](UploadIsPrefix /\ StoreMatchesIndex /\ BatchesFit) /\ SuccessIsComplete
<1>1. QED
  BY PipelineIsIndex, UploadsArePrefixes, StoresMatchIndexes, FilesAreCut,
     SuccessesAreComplete, PTL

-----------------------------------------------------------------------------
(* At-least-once through the pipeline *)

InFlight(i) ==
    \/ HasResult(i)
    \/ \E m \in vdbIn : m.id = i
    \/ \E m \in llmIn : m.id = i
    \/ \E m \in llmOut : m.id = i

LEMMA FlightOfId ==
    ASSUME NEW i \in Ids
    PROVE  HasResult(i) \/ OfId(i, vdbIn \cup llmIn \cup llmOut) # {}
            <=> InFlight(i)
BY DEF InFlight, OfId

\* The only step that makes an entry makes one that was never in flight.
LEMMA StoreRequestFlight ==
    ASSUME RagInv, NEW w \in Pages, StoreRequest(w), NEW i \in Ids, InFlight(i)
    PROVE  InFlight(i)'
<1>1. PICK j \in Ids :
        /\ minted[j] = NoEntry
        /\ pending' = [pending EXCEPT ![j] =
                [query |-> page[w].query, index |-> page[w].index,
                 result |-> NoAnswer]]
  BY DEF StoreRequest
<1>2. ASSUME HasResult(i) PROVE i # j
  <2>1. pending[i] \in Entry /\ pending[i].result \in Answer
    BY <1>2 DEF RagInv, RagTypeOK, HasResult, Known, Entry
  <2>2. minted[i] = [query |-> pending[i].result.query,
                     index |-> pending[i].result.doc.index]
    BY <1>2 DEF RagInv, ResultsFit, Fits
  <2>3. minted[i] \in Request
    BY <2>1, <2>2, AnswerFields DEF Request
  <2>4. QED
    BY <1>1, <2>3, NullAssumption
<1>3. HasResult(i) => HasResult(i)'
  BY <1>1, <1>2 DEF HasResult, Known, RagInv, RagTypeOK
<1>4. QED
  BY <1>3 DEF InFlight, StoreRequest

\* Every handler publishes what it received before it acknowledges it.
LEMMA HandlerFlight ==
    ASSUME RagInv, Handler, ~DropsRefused, NEW i \in Ids, InFlight(i)
    PROVE  InFlight(i)'
<1>1. ASSUME NEW m \in vdbIn, SearchIndex(m) \/ SearchFails(m)
      PROVE  InFlight(i)'
  BY <1>1 DEF SearchIndex, SearchFails, Refused, InFlight, HasResult, Known
<1>2. ASSUME NEW s \in searching, PublishDocumentFails(s) PROVE InFlight(i)'
  BY <1>2 DEF PublishDocumentFails, Refused, InFlight, HasResult, Known
<1>3. ASSUME NEW s \in searching, PublishDocument(s) PROVE InFlight(i)'
  <2> DEFINE m == [id |-> s.msg.id, query |-> s.msg.query, doc |-> s.doc]
  <2>1. m \in llmIn' /\ m.id = s.msg.id /\ llmIn \subseteq llmIn'
        /\ vdbIn \subseteq vdbIn' \cup {s.msg}
        /\ llmOut' = llmOut /\ pending' = pending
    BY <1>3, TopicShrinks DEF PublishDocument
  <2> HIDE DEF m
  <2>2. QED
    BY <2>1 DEF InFlight, HasResult, Known
<1>4. ASSUME NEW m \in llmIn, InferFails(m) PROVE InFlight(i)'
  BY <1>4 DEF InferFails, Refused, InFlight, HasResult, Known
<1>5. ASSUME NEW m \in llmIn, Infer(m) PROVE InFlight(i)'
  <2> DEFINE r == [id |-> m.id, answer |-> [query |-> m.query, doc |-> m.doc]]
  <2>1. r \in llmOut' /\ r.id = m.id /\ llmOut \subseteq llmOut'
        /\ llmIn \subseteq llmIn' \cup {m}
        /\ vdbIn' = vdbIn /\ pending' = pending
    BY <1>5, TopicShrinks DEF Infer
  <2> HIDE DEF r
  <2>2. QED
    BY <2>1 DEF InFlight, HasResult, Known
<1>6. ASSUME NEW m \in llmOut, RefuseResult(m) PROVE InFlight(i)'
  BY <1>6 DEF RefuseResult, Refused, InFlight, HasResult, Known
<1>7. ASSUME NEW m \in llmOut, StoreResult(m) PROVE InFlight(i)'
  <2>1. /\ pending' = [pending EXCEPT ![m.id].result = m.answer]
        /\ llmOut \subseteq llmOut' \cup {m}
        /\ vdbIn' = vdbIn /\ llmIn' = llmIn
    BY <1>7, TopicShrinks DEF StoreResult
  <2>2. m.id \in Ids /\ m.answer \in Answer /\ Known(m.id)
    BY <1>7 DEF RagInv, RagTypeOK, ResultMessage, StoreResult
  <2>3. /\ pending \in [Ids -> Entry \cup {NoEntry}] /\ pending[m.id] \in Entry
    BY <2>2 DEF RagInv, RagTypeOK, Known
  <2>4. /\ pending'[m.id] = [pending[m.id] EXCEPT !.result = m.answer]
        /\ \A j \in Ids \ {m.id} : pending'[j] = pending[j]
        /\ [pending[m.id] EXCEPT !.result = m.answer] \in Entry
    BY <2>1, <2>2, <2>3 DEF Entry
  <2>5. HasResult(m.id)'
    BY <2>2, <2>3, <2>4, NullAssumption DEF HasResult, Known, Entry
  <2>6. CASE i = m.id
    BY <2>5, <2>6 DEF InFlight
  <2>7. CASE i # m.id
    BY <2>1, <2>4, <2>7 DEF InFlight, HasResult, Known
  <2>8. QED
    BY <2>6, <2>7
<1>8. QED
  BY <1>1, <1>2, <1>3, <1>4, <1>5, <1>6, <1>7 DEF Handler

Polled(w) == page[w].pc \in {"published", "polling"}

FlightInv == ~DropsRefused =>
    \A w \in Pages : Polled(w) /\ Known(page[w].id) => InFlight(page[w].id)

\* Steps that change nothing but pages, none of which begins to be polled.
LEMMA PageFlight ==
    ASSUME RagInv, FlightInv, UNCHANGED <<pending, vdbIn, llmIn, llmOut>>,
           \A v \in Pages : Polled(v)' => Polled(v) /\ page'[v].id = page[v].id
    PROVE  FlightInv'
BY DEF FlightInv, InFlight, HasResult, Known

LEMMA FlightNext ==
    ASSUME RagInv, RagInv', FlightInv, [RagNext]_vars
    PROVE  FlightInv'
<1>1. page \in [Pages -> Page]
  BY DEF RagInv, RagTypeOK
<1>2. CASE UNCHANGED vars
  BY <1>2, PageFlight DEF vars, ragVars, Polled
<1>3. CASE DatabaseRestart
  BY <1>3, PageFlight DEF DatabaseRestart, Polled
<1>4. CASE IndexStep /\ UNCHANGED ragVars
  BY <1>4, PageFlight DEF ragVars, Polled
<1>5. CASE InterfaceRestart
  <2> SUFFICES ASSUME NEW w \in Pages, Polled(w)', Known(page[w].id)'
               PROVE  FALSE
    BY DEF FlightInv
  <2>1. page'[w].id \in Ids
    BY DEF Polled, RagInv, PagesFit
  <2>2. QED
    BY <1>5, <2>1 DEF InterfaceRestart, Known
<1>6. CASE Handler
  <2>1. UNCHANGED page
    BY <1>6 DEF Handler, SearchIndex, SearchFails, PublishDocument,
                PublishDocumentFails, Infer, InferFails, StoreResult, RefuseResult
  <2>2. ASSUME NEW i \in Ids, Known(i)' PROVE Known(i)
    <3>1. CASE UNCHANGED pending
      BY <2>2, <3>1 DEF Known
    <3>2. ASSUME NEW m \in llmOut, StoreResult(m) PROVE Known(i)
      <4>1. m.id \in Ids /\ Known(m.id)
            /\ pending' = [pending EXCEPT ![m.id].result = m.answer]
        BY <3>2 DEF RagInv, RagTypeOK, ResultMessage, StoreResult
      <4>2. QED
        BY <2>2, <4>1 DEF Known, RagInv, RagTypeOK
    <3>3. QED
      BY <1>6, <3>1, <3>2 DEF Handler, SearchIndex, SearchFails,
            PublishDocument, PublishDocumentFails, Infer, InferFails, RefuseResult
  <2>3. QED
    <3> SUFFICES ASSUME ~DropsRefused, NEW w \in Pages, Polled(w)',
                        Known(page[w].id)'
                 PROVE  InFlight(page[w].id)'
      BY DEF FlightInv
    <3>1. Polled(w) /\ page'[w].id = page[w].id /\ page[w].id \in Ids
      BY <2>1 DEF Polled, RagInv, PagesFit
    <3>2. InFlight(page[w].id)
      BY <2>1, <2>2, <3>1 DEF FlightInv, Known
    <3>3. QED
      BY <1>6, <2>1, <3>1, <3>2, HandlerFlight DEF InFlight, HasResult, Known
<1>7. ASSUME NEW w \in Pages, StoreRequest(w) PROVE FlightInv'
  <2>1. PICK j \in Ids :
            /\ minted[j] = NoEntry
            /\ pending' = [pending EXCEPT ![j] =
                    [query |-> page[w].query, index |-> page[w].index,
                     result |-> NoAnswer]]
            /\ page' = [page EXCEPT ![w] =
                    [page[w] EXCEPT !.pc = "stored", !.id = j]]
    BY <1>7 DEF StoreRequest
  <2> SUFFICES ASSUME ~DropsRefused, NEW v \in Pages, Polled(v)',
                      Known(page[v].id)'
               PROVE  InFlight(page[v].id)'
    BY DEF FlightInv
  <2>2. v # w
    BY <1>1, <2>1 DEF Polled, Page
  <2>3. page'[v] = page[v]
    BY <1>1, <2>1, <2>2
  <2>4. page[v].id \in Ids /\ minted[page[v].id] = Asked(v)
        /\ Asked(v) \in Request
    BY <1>1, <2>3 DEF Polled, RagInv, PagesFit, Asked, Request, Page
  <2>5. page[v].id # j
    BY <2>1, <2>4, NullAssumption
  <2>6. Known(page[v].id)
    BY <2>1, <2>3, <2>4, <2>5 DEF Known, RagInv, RagTypeOK
  <2>7. InFlight(page[v].id)
    BY <2>3, <2>6 DEF FlightInv, Polled
  <2>8. QED
    BY <1>7, <2>3, <2>4, <2>7, StoreRequestFlight DEF InFlight, HasResult, Known
<1>8. ASSUME NEW w \in Pages, PublishRequest(w) PROVE FlightInv'
  <2> DEFINE m == [id |-> page[w].id, query |-> page[w].query,
                   index |-> page[w].index]
  <2>1. /\ page[w].pc = "stored" /\ vdbIn' = vdbIn \cup {m}
        /\ page' = [page EXCEPT ![w].pc = "published"]
        /\ UNCHANGED <<pending, llmIn, llmOut>>
        /\ m.id = page[w].id
    BY <1>8 DEF PublishRequest, Turn
  <2>2. \A v \in Pages : page'[v].id = page[v].id
                         /\ (v # w => page'[v].pc = page[v].pc)
    BY <1>1, <2>1 DEF Page
  <2> HIDE DEF m
  <2>3. QED
    BY <2>1, <2>2 DEF FlightInv, Polled, InFlight, HasResult, Known
<1>9. ASSUME NEW w \in Pages,
             \/ \E ix \in Indexes, t \in Timeouts : Begin(w, ix, t)
             \/ Check(w) \/ NoTurns(w) \/ ShowError(w) \/ ReturnId(w)
             \/ PromptIgnored(w) \/ CallFails(w) \/ PublishFails(w)
             \/ \E q \in Questions : Submit(w, q)
      PROVE  FlightInv'
  <2>1. UNCHANGED <<pending, vdbIn, llmIn, llmOut>>
    BY <1>9 DEF Begin, Check, NoTurns, ShowError, ReturnId, PromptIgnored,
                CallFails, PublishFails, Submit
  <2>2. ASSUME NEW rec \in {page'[w]}, page' = [page EXCEPT ![w] = rec],
               rec.pc \in {"published", "polling"} =>
                    Polled(w) /\ rec.id = page[w].id
        PROVE  FlightInv'
    <3>1. \A v \in Pages : page'[v] = IF v = w THEN rec ELSE page[v]
      BY <1>1, <2>2
    <3>2. QED
      BY <2>1, <2>2, <3>1, PageFlight DEF Polled
  <2>3. /\ page' = [page EXCEPT ![w] = page'[w]]
        /\ Polled(w)' => Polled(w) /\ page'[w].id = page[w].id
    <3>1. ASSUME NEW ix \in Indexes, NEW t \in Timeouts, Begin(w, ix, t)
          PROVE  page' = [page EXCEPT ![w] = page'[w]] /\ page'[w].pc = "posting"
      BY <1>1, <3>1 DEF Begin, Page
    <3>2. ASSUME NEW outcome, EndSearch(w, outcome)
          PROVE  page' = [page EXCEPT ![w] = page'[w]] /\ page'[w].pc = "idle"
      BY <1>1, <3>2 DEF EndSearch, Page
    <3>3. ASSUME ShowAnswer(w)
          PROVE  page' = [page EXCEPT ![w] = page'[w]] /\ page'[w].pc = "idle"
      BY <1>1, <3>3 DEF ShowAnswer, Page
    <3>4. ASSUME NEW left, page' = [page EXCEPT ![w].left = left]
          PROVE  /\ page' = [page EXCEPT ![w] = page'[w]]
                 /\ page'[w].pc = page[w].pc /\ page'[w].id = page[w].id
      BY <1>1, <3>4 DEF Page
    <3>5. ASSUME NEW q, page' = [page EXCEPT ![w].next = q]
          PROVE  /\ page' = [page EXCEPT ![w] = page'[w]]
                 /\ page'[w].pc = page[w].pc /\ page'[w].id = page[w].id
      BY <1>1, <3>5 DEF Page
    <3>6. ASSUME NEW from, NEW to, Turn(w, from, to)
          PROVE  /\ page' = [page EXCEPT ![w] = page'[w]]
                 /\ page[w].pc = from
                 /\ page'[w].pc = to /\ page'[w].id = page[w].id
      BY <1>1, <3>6 DEF Turn, Page
    <3>7. CASE Check(w)
      BY <3>2, <3>3, <3>4, <3>7 DEF Check, Polled
    <3>8. CASE ReturnId(w) \/ CallFails(w) \/ PublishFails(w)
      BY <3>6, <3>8 DEF ReturnId, CallFails, PublishFails, Polled
    <3>9. QED
      BY <1>9, <3>1, <3>2, <3>5, <3>7, <3>8
         DEF NoTurns, ShowError, PromptIgnored, Submit, Polled
  <2>4. QED
    BY <2>2, <2>3 DEF Polled
<1>10. QED
  BY <1>2, <1>3, <1>4, <1>5, <1>6, <1>7, <1>8, <1>9 DEF RagNext, PageStep

\* A published request the interface remembers has its result or is on a topic.
THEOREM RequestsStayInFlight == Spec => []RequestInFlight
<1>1. Init => FlightInv
  BY DEF Init, RagInit, FlightInv, Polled
<1>2. RagInv /\ FlightInv => RequestInFlight
  <2> SUFFICES ASSUME RagInv, FlightInv, ~DropsRefused, NEW w \in Pages,
                      Polled(w), Known(page[w].id)
               PROVE  HasResult(page[w].id) \/
                      OfId(page[w].id, vdbIn \cup llmIn \cup llmOut) # {}
    BY DEF RequestInFlight, Polled
  <2>1. page[w].id \in Ids /\ InFlight(page[w].id)
    BY DEF Polled, RagInv, PagesFit, FlightInv
  <2>2. QED
    BY <2>1, FlightOfId
<1>3. QED
  BY RagInvariant, FlightNext, <1>1, <1>2, PTL DEF Spec

-----------------------------------------------------------------------------
(* The conversation *)

\* Every answer but a first one comes right after its question.
Paired(h) ==
    \A k \in 2..Len(h) :
        h[k].role = "assistant" =>
            h[k - 1] = [role |-> "user", about |-> h[k].about]

\* The last line is question q.
EndsWith(h, q) ==
    Len(h) > 0 /\ h[Len(h)] = [role |-> "user", about |-> q]

\* The question of a running script is the last line, whatever was asked or
\* given up before.
HistoryInv ==
    \A w \in Pages :
        /\ Paired(page[w].history)
        /\ page[w].pc # "idle" => EndsWith(page[w].history, page[w].query)

LEMMA QuestionPairs ==
    ASSUME NEW h \in Seq(Line), NEW q \in Questions, Paired(h)
    PROVE  LET g == Append(h, [role |-> "user", about |-> q])
           IN  Paired(g) /\ EndsWith(g, q)
BY DEF Paired, EndsWith, Line

LEMMA AnswerPairs ==
    ASSUME NEW h \in Seq(Line), NEW q \in Questions, Paired(h), EndsWith(h, q)
    PROVE  Paired(Trim(Append(h, [role |-> "assistant", about |-> q])))
<1> DEFINE line == [role |-> "assistant", about |-> q]
           g == Append(h, line)
<1>1. /\ line \in Line /\ line.about = q
      /\ Len(g) = Len(h) + 1 /\ Len(h) \in Nat \ {0}
      /\ g \in Seq(Line) /\ g # <<>>
      /\ \A k \in 1..Len(h) : g[k] = h[k]
      /\ g[Len(g)] = line
  BY DEF Line, EndsWith
<1> HIDE DEF g, line
<1>2. Paired(g)
  BY <1>1 DEF Paired, EndsWith
<1>3. Paired(Tail(g))
  <2>1. /\ Len(Tail(g)) = Len(g) - 1
        /\ \A k \in 1..(Len(g) - 1) : Tail(g)[k] = g[k + 1]
    BY <1>1
  <2>2. QED
    BY <1>1, <1>2, <2>1 DEF Paired
<1>4. QED
  BY <1>2, <1>3 DEF Trim, g, line

\* One session's record replaced by one with a paired history.
LEMMA HistoryKept ==
    ASSUME page \in [Pages -> Page], HistoryInv, NEW w \in Pages, NEW rec,
           page' = [page EXCEPT ![w] = rec],
           Paired(rec.history),
           rec.pc # "idle" => EndsWith(rec.history, rec.query)
    PROVE  HistoryInv'
<1>1. \A v \in Pages : page'[v] = IF v = w THEN rec ELSE page[v]
  OBVIOUS
<1>2. QED
  BY <1>1 DEF HistoryInv, Paired, EndsWith

LEMMA HistoryNext ==
    ASSUME RagInv, HistoryInv, [RagNext]_vars
    PROVE  HistoryInv'
<1>1. page \in [Pages -> Page]
  BY DEF RagInv, RagTypeOK
<1>2. CASE UNCHANGED page
  BY <1>2 DEF HistoryInv, Paired, EndsWith
<1>3. CASE InterfaceRestart
  <2>1. \A w \in Pages :
          /\ page'[w].history = page[w].history
          /\ page'[w].query = page[w].query
          /\ page'[w].pc # "idle" => page[w].pc # "idle"
    BY <1>1, <1>3 DEF InterfaceRestart, Page
  <2>2. QED
    BY <2>1 DEF HistoryInv, Paired, EndsWith
<1>4. ASSUME NEW w \in Pages,
             \/ PageStep(w) \/ PromptIgnored(w) \/ CallFails(w)
             \/ PublishFails(w) \/ \E q \in Questions : Submit(w, q)
      PROVE  HistoryInv'
  <2>1. /\ page[w] \in Page /\ page[w].history \in Seq(Line)
        /\ Paired(page[w].history)
        /\ page[w].pc # "idle" => EndsWith(page[w].history, page[w].query)
    BY <1>1 DEF Page, HistoryInv
  <2>2. ASSUME NEW rec, page' = [page EXCEPT ![w] = rec],
               rec.history = page[w].history, rec.query = page[w].query,
               rec.pc # "idle" => page[w].pc # "idle"
        PROVE  HistoryInv'
    BY <1>1, <2>1, <2>2, HistoryKept
  <2>3. ASSUME NEW ix \in Indexes, NEW t \in Timeouts, Begin(w, ix, t)
        PROVE  HistoryInv'
    <3> DEFINE q == page[w].next
               asked == Append(page[w].history, [role |-> "user", about |-> q])
    <3>1. q \in Questions
      BY <2>1, <2>3 DEF Begin, Page
    <3>2. Paired(asked) /\ EndsWith(asked, q)
      BY <2>1, <3>1, QuestionPairs
    <3> HIDE DEF asked
    <3>3. PICK rec : /\ page' = [page EXCEPT ![w] = rec]
                     /\ rec = [page[w] EXCEPT !.pc = "posting", !.query = q,
                                 !.index = ix, !.left = t, !.next = NoQuestion,
                                 !.history = asked]
      BY <2>3 DEF Begin, asked
    <3>4. rec.history = asked /\ rec.query = q
      BY <2>1, <3>3 DEF Page
    <3>5. QED
      BY <1>1, <3>2, <3>3, <3>4, HistoryKept
  <2>4. ASSUME ShowAnswer(w), HasResult(page[w].id), page[w].pc = "polling"
        PROVE  HistoryInv'
    <3> DEFINE q == page[w].query
               line == [role |-> "assistant", about |-> q]
               shown == Trim(Append(page[w].history, line))
    <3>1. q \in Questions /\ page[w].id \in Ids
      BY <2>1, <2>4 DEF Page, RagInv, PagesFit
    <3>2. pending[page[w].id].result.query = q
      <4>1. minted[page[w].id] =
                [query |-> q, index |-> page[w].index]
        BY <2>4 DEF RagInv, PagesFit, Asked
      <4>2. PICK r : r = pending[page[w].id].result
        OBVIOUS
      <4>3. minted[page[w].id] = [query |-> r.query, index |-> r.doc.index]
        BY <2>4, <3>1, <4>2 DEF RagInv, ResultsFit, Fits
      <4>4. minted[page[w].id].query = q /\ minted[page[w].id].query = r.query
        <5> HIDE DEF q
        <5>1. QED
          BY <4>1, <4>3
      <4>5. QED
        BY <4>2, <4>4
    <3>3. Paired(shown)
      BY <2>1, <2>4, <3>1, AnswerPairs
    <3> HIDE DEF shown
    <3>4. PICK rec : /\ page' = [page EXCEPT ![w] = rec]
                     /\ rec = [page[w] EXCEPT !.pc = "idle", !.id = NoId,
                                 !.left = 0, !.history = shown]
      BY <2>4, <3>2 DEF ShowAnswer, shown
    <3>5. rec.history = shown /\ rec.pc = "idle"
      BY <2>1, <3>4 DEF Page
    <3>6. QED
      BY <1>1, <3>3, <3>4, <3>5, HistoryKept
  <2>5. ASSUME NEW outcome, EndSearch(w, outcome)
        PROVE  HistoryInv'
    <3>1. PICK rec : /\ page' = [page EXCEPT ![w] = rec]
                     /\ rec = [page[w] EXCEPT !.pc = "idle", !.id = NoId,
                                 !.left = 0]
      BY <2>5 DEF EndSearch
    <3>2. rec.history = page[w].history /\ rec.query = page[w].query
          /\ rec.pc = "idle"
      BY <2>1, <3>1 DEF Page
    <3>3. QED
      BY <2>2, <3>1, <3>2
  <2>6. ASSUME NEW to \in PagePCs, page[w].pc # "idle",
               page' = [page EXCEPT ![w].pc = to]
        PROVE  HistoryInv'
    <3>1. PICK rec : /\ page' = [page EXCEPT ![w] = rec]
                     /\ rec = [page[w] EXCEPT !.pc = to]
      BY <2>6
    <3>2. rec.history = page[w].history /\ rec.query = page[w].query
      BY <2>1, <3>1 DEF Page
    <3>3. QED
      BY <2>2, <2>6, <3>1, <3>2
  <2>7. ASSUME NEW q, page' = [page EXCEPT ![w].next = q]
        PROVE  HistoryInv'
    <3>1. PICK rec : /\ page' = [page EXCEPT ![w] = rec]
                     /\ rec = [page[w] EXCEPT !.next = q]
      BY <2>7
    <3>2. /\ rec.history = page[w].history /\ rec.query = page[w].query
          /\ rec.pc = page[w].pc
      BY <2>1, <3>1 DEF Page
    <3>3. QED
      BY <2>2, <3>1, <3>2
  <2>8. CASE Check(w)
    <3>1. ASSUME NEW left, page' = [page EXCEPT ![w].left = left]
          PROVE  HistoryInv'
      <4>1. PICK rec : /\ page' = [page EXCEPT ![w] = rec]
                       /\ rec = [page[w] EXCEPT !.left = left]
        BY <3>1
      <4>2. /\ rec.history = page[w].history /\ rec.query = page[w].query
            /\ rec.pc = page[w].pc
        BY <2>1, <4>1 DEF Page
      <4>3. QED
        BY <2>2, <4>1, <4>2
    <3>2. QED
      BY <2>4, <2>5, <2>8, <3>1 DEF Check
  <2>9. CASE StoreRequest(w)
    <3>1. PICK i \in Ids : page' = [page EXCEPT ![w] =
                              [page[w] EXCEPT !.pc = "stored", !.id = i]]
      BY <2>9 DEF StoreRequest
    <3>2. PICK rec : /\ page' = [page EXCEPT ![w] = rec]
                     /\ rec = [page[w] EXCEPT !.pc = "stored", !.id = i]
      BY <3>1
    <3>3. rec.history = page[w].history /\ rec.query = page[w].query
      BY <2>1, <3>2 DEF Page
    <3>4. page[w].pc # "idle"
      BY <2>9 DEF StoreRequest
    <3>5. QED
      BY <2>2, <3>2, <3>3, <3>4
  <2>10. CASE NoTurns(w) \/ ShowError(w)
    BY <2>5, <2>10 DEF NoTurns, ShowError
  <2>11. CASE \/ PublishRequest(w) \/ ReturnId(w) \/ CallFails(w)
              \/ PublishFails(w)
    BY <2>6, <2>11 DEF PublishRequest, ReturnId, CallFails, PublishFails, Turn,
                       PagePCs
  <2>12. CASE PromptIgnored(w) \/ \E q \in Questions : Submit(w, q)
    BY <2>7, <2>12 DEF PromptIgnored, Submit
  <2>13. QED
    BY <1>4, <2>3, <2>8, <2>9, <2>10, <2>11, <2>12 DEF PageStep
<1>5. CASE Handler
  BY <1>2, <1>5 DEF Handler, SearchIndex, SearchFails, PublishDocument,
     PublishDocumentFails, Infer, InferFails, StoreResult, RefuseResult
<1>6. CASE DatabaseRestart
  BY <1>2, <1>6 DEF DatabaseRestart
<1>7. CASE UNCHANGED ragVars
  BY <1>2, <1>7 DEF ragVars
<1>8. QED
  BY <1>3, <1>4, <1>5, <1>6, <1>7 DEF RagNext, vars

\* An answer never comes to stand between others' lines, however late it is
\* or whichever script it was asked by.
THEOREM AnswersFollowQuestions == Spec => []HistoryPaired
<1>1. Init => HistoryInv
  BY DEF Init, RagInit, HistoryInv, Paired
<1>2. HistoryInv => HistoryPaired
  BY DEF HistoryInv, Paired, HistoryPaired
<1>3. QED
  BY RagInvariant, HistoryNext, <1>1, <1>2, PTL DEF Spec

-----------------------------------------------------------------------------
(* The promise *)

\* A question that is given up was waiting, and its answer stays what it was.
LEMMA EndIsGivenUp ==
    ASSUME RagInv, NEW w \in Pages, page[w].pc # "idle",
           NEW outcome \in {"timeout", "error", "silent", "superseded"},
           EndSearch(w, outcome)
    PROVE  Promise!Next
<1> DEFINE q == page[w].query
           end == IF page[w].next = NoQuestion THEN outcome ELSE "superseded"
<1>1. q \in Questions /\ told[q].status = "waiting"
  BY DEF RagInv, RagTypeOK, Page, PagesFit
<1>2. told' = [told EXCEPT ![q].status = end]
  BY DEF EndSearch
<1>3. end \in Promise!Outcomes \ {"answered"}
  BY DEF Promise!Outcomes
<1> HIDE DEF q, end
<1>4. Promise!GiveUp(q)
  BY <1>1, <1>2, <1>3 DEF Promise!GiveUp
<1>5. QED
  BY <1>1, <1>4 DEF Promise!Next

\* What is shown was inferred for this question, from its index.
LEMMA AnswerIsShown ==
    ASSUME RagInv, NEW w \in Pages, page[w].pc = "polling",
           HasResult(page[w].id), ShowAnswer(w)
    PROVE  Promise!Next
<1> DEFINE q == page[w].query
           answer == pending[page[w].id].result
<1>1. /\ q \in Questions /\ told[q].status = "waiting"
      /\ told[q].index = page[w].index
      /\ page[w].id \in Ids /\ minted[page[w].id] = Asked(w)
  BY DEF RagInv, RagTypeOK, Page, PagesFit
<1>2. answer \in Promise!Answer
  BY <1>1 DEF HasResult, Known, RagInv, RagTypeOK, Entry
<1>3. minted[page[w].id] = [query |-> answer.query, index |-> answer.doc.index]
  BY <1>1 DEF RagInv, ResultsFit, Fits
<1>4. told' = [told EXCEPT ![q] = [told[q] EXCEPT !.status = "answered",
                                                  !.answer = answer]]
  BY DEF ShowAnswer
<1>5. minted[page[w].id] = [query |-> q, index |-> page[w].index]
  BY <1>1 DEF Asked
<1> HIDE DEF q, answer
<1>6. /\ minted[page[w].id].query = answer.query
      /\ minted[page[w].id].query = q
      /\ minted[page[w].id].index = answer.doc.index
      /\ minted[page[w].id].index = page[w].index
  <2>1. /\ minted[page[w].id].query = answer.query
        /\ minted[page[w].id].index = answer.doc.index
    BY <1>3
  <2>2. /\ minted[page[w].id].query = q
        /\ minted[page[w].id].index = page[w].index
    BY <1>5
  <2>3. QED
    BY <2>1, <2>2
<1>7. PICK d \in Document : answer = [query |-> q, doc |-> d]
  BY <1>2, <1>6
<1>8. d.index = told[q].index
  BY <1>1, <1>6, <1>7
<1>9. Promise!Show(q)
  BY <1>1, <1>4, <1>7, <1>8 DEF Promise!Show
<1>10. QED
  BY <1>1, <1>9 DEF Promise!Next

LEMMA PromiseStep ==
    ASSUME RagInv, [RagNext]_vars
    PROVE  [Promise!Next]_told
<1>1. ASSUME NEW w \in Pages, NEW ix \in Indexes, NEW t \in Timeouts,
             Begin(w, ix, t)
      PROVE  Promise!Next
  <2> DEFINE q == page[w].next
  <2>1. q \in Questions /\ told[q].status = "unasked"
    BY <1>1 DEF Begin, RagInv, RagTypeOK, Page, PagesFit
  <2>2. told' = [told EXCEPT ![q] = [told[q] EXCEPT !.status = "waiting",
                                                    !.index = ix]]
    BY <1>1 DEF Begin
  <2> HIDE DEF q
  <2>3. Promise!Ask(q, ix)
    BY <2>1, <2>2 DEF Promise!Ask
  <2>4. QED
    BY <2>1, <2>3 DEF Promise!Next
<1>2. ASSUME NEW w \in Pages, Check(w) \/ NoTurns(w) \/ ShowError(w)
      PROVE  [Promise!Next]_told
  <2>1. page[w].pc \in {"polling", "failing"}
    BY <1>2 DEF Check, NoTurns, ShowError
  <2>2. CASE \E o \in {"timeout", "error", "silent", "superseded"} :
                EndSearch(w, o)
    BY <2>1, <2>2, EndIsGivenUp
  <2>3. CASE page[w].pc = "polling" /\ HasResult(page[w].id) /\ ShowAnswer(w)
    BY <2>3, AnswerIsShown
  <2>4. CASE UNCHANGED told
    BY <2>4
  <2>5. QED
    BY <1>2, <2>2, <2>3, <2>4 DEF Check, NoTurns, ShowError
<1>3. ASSUME NEW w \in Pages, PageStep(w) PROVE [Promise!Next]_told
  BY <1>1, <1>2, <1>3 DEF PageStep, StoreRequest, PublishRequest, ReturnId
<1>4. CASE UNCHANGED told
  BY <1>4
<1>5. ASSUME NEW w \in Pages,
             \/ PromptIgnored(w) \/ CallFails(w) \/ PublishFails(w)
             \/ \E q \in Questions : Submit(w, q)
      PROVE  UNCHANGED told
  BY <1>5 DEF PromptIgnored, CallFails, PublishFails, Submit
<1>6. ASSUME Handler \/ InterfaceRestart \/ DatabaseRestart
      PROVE  UNCHANGED told
  BY <1>6 DEF Handler, SearchIndex, SearchFails, PublishDocument,
     PublishDocumentFails, Infer, InferFails, StoreResult, RefuseResult,
     InterfaceRestart, DatabaseRestart
<1>7. QED
  BY <1>3, <1>4, <1>5, <1>6 DEF RagNext, vars, ragVars

\* The four modules together implement what the user is promised: one outcome,
\* once, and an answer of the question's own.
THEOREM PromiseIsKept == Spec => PromiseKept
<1>1. Init => Promise!Init
  BY DEF Init, RagInit
<1>2. RagInv /\ [RagNext]_vars => [Promise!Next]_told
  BY PromiseStep
<1>3. QED
  BY RagInvariant, <1>1, <1>2, PTL DEF Spec, PromiseKept, Promise!Spec

-----------------------------------------------------------------------------
(* No question is forgotten: what AskedIsTold needs besides fairness *)

\* A question that was asked and has no outcome yet has its script still at
\* work: none is dropped by a restart, an exception or a prompt that follows.
WaitingIsServed ==
    \A q \in Questions : told[q].status = "waiting" =>
        \E w \in Pages : page[w].pc # "idle" /\ page[w].query = q

\* A script goes on with its question, or has told what came of it.
LEMMA ScriptGoesOn ==
    ASSUME RagInv, [RagNext]_vars, NEW v \in Pages, page[v].pc # "idle"
    PROVE  \/ page'[v].pc # "idle" /\ page'[v].query = page[v].query
           \/ told'[page[v].query].status # "waiting"
<1>0. /\ page \in [Pages -> Page]
      /\ told \in [Questions -> Promise!Told]
      /\ \A w \in Pages : page[w].query \in Questions
  BY DEF RagInv, RagTypeOK, Page
<1> DEFINE Goes == page'[v].pc # "idle" /\ page'[v].query = page[v].query
           Over == told'[page[v].query].status # "waiting"
<1>1. ASSUME NEW w \in Pages, NEW rec, page' = [page EXCEPT ![w] = rec],
             w = v => rec.pc # "idle" /\ rec.query = page[v].query
      PROVE  Goes
  BY <1>0, <1>1, UpdatePage
<1>2. ASSUME NEW w \in Pages, NEW from, NEW to, Turn(w, from, to), to # "idle"
      PROVE  Goes
  <2>1. PICK rec : /\ rec = [page[w] EXCEPT !.pc = to]
                   /\ page' = [page EXCEPT ![w] = rec]
    BY <1>2 DEF Turn
  <2>2. rec.pc = to /\ rec.query = page[w].query
    BY <1>0, <2>1 DEF Page
  <2>3. QED
    BY <1>1, <1>2, <2>1, <2>2
<1>3. ASSUME NEW w \in Pages, NEW o \in {"timeout", "error", "silent", "superseded"},
             EndSearch(w, o)
      PROVE  Goes \/ Over
  <2> DEFINE end == IF page[w].next = NoQuestion THEN o ELSE "superseded"
             rec == [told[page[w].query] EXCEPT !.status = end]
  <2>1. told' = [told EXCEPT ![page[w].query] = rec]
    BY <1>0, <1>3 DEF EndSearch
  <2>2. rec.status # "waiting"
    BY <1>0 DEF Promise!Told
  <2>3. CASE v = w
    <3> HIDE DEF rec
    <3>1. QED
      BY <1>0, <2>1, <2>2, <2>3
  <2>4. CASE v # w
    BY <1>1, <1>3, <2>4 DEF EndSearch
  <2>5. QED
    BY <2>3, <2>4
<1>4. ASSUME NEW w \in Pages, ShowAnswer(w) PROVE Goes \/ Over
  <2> DEFINE rec == [told[page[w].query] EXCEPT !.status = "answered",
                                  !.answer = pending[page[w].id].result]
  <2>1. told' = [told EXCEPT ![page[w].query] = rec]
    BY <1>4 DEF ShowAnswer
  <2>2. rec.status # "waiting"
    BY <1>0 DEF Promise!Told
  <2>3. CASE v = w
    <3> HIDE DEF rec
    <3>1. QED
      BY <1>0, <2>1, <2>2, <2>3
  <2>4. CASE v # w
    BY <1>1, <1>4, <2>4 DEF ShowAnswer
  <2>5. QED
    BY <2>3, <2>4
<1>5. ASSUME NEW w \in Pages, Check(w) PROVE Goes \/ Over
  <2>1. CASE page' = [page EXCEPT ![w].left = page[w].left - 1]
    BY <1>0, <2>1 DEF Page
  <2>2. QED
    BY <1>3, <1>4, <1>5, <2>1 DEF Check
<1>6. ASSUME NEW w \in Pages, NEW ix \in Indexes, NEW t \in Timeouts,
             Begin(w, ix, t)
      PROVE  Goes
  BY <1>1, <1>6 DEF Begin
<1>7. ASSUME NEW w \in Pages, StoreRequest(w) PROVE Goes
  <2>1. PICK i, rec : /\ rec = [page[w] EXCEPT !.pc = "stored", !.id = i]
                      /\ page' = [page EXCEPT ![w] = rec]
    BY <1>7 DEF StoreRequest
  <2>2. rec.pc # "idle" /\ rec.query = page[w].query
    BY <1>0, <2>1 DEF Page
  <2>3. QED
    BY <1>1, <2>1, <2>2
<1>8. ASSUME NEW w \in Pages, NEW q, page' = [page EXCEPT ![w].next = q]
      PROVE  Goes
  BY <1>0, <1>8 DEF Page
<1>9. CASE InterfaceRestart
  BY <1>0, <1>9 DEF InterfaceRestart, Page
<1>10. CASE UNCHANGED page
  BY <1>10
<1>11. ASSUME NEW w \in Pages, PageStep(w) PROVE Goes \/ Over
  BY <1>2, <1>3, <1>5, <1>6, <1>7, <1>11 DEF PageStep, NoTurns, ShowError,
     PublishRequest, ReturnId
<1>12. ASSUME NEW w \in Pages,
              \/ PromptIgnored(w) \/ CallFails(w) \/ PublishFails(w)
              \/ \E q \in Questions : Submit(w, q)
       PROVE  Goes
  BY <1>2, <1>8, <1>12 DEF PromptIgnored, CallFails, PublishFails, Submit
<1>13. ASSUME Handler \/ DatabaseRestart PROVE UNCHANGED page
  BY <1>13 DEF Handler, SearchIndex, SearchFails, PublishDocument,
     PublishDocumentFails, Infer, InferFails, StoreResult, RefuseResult,
     DatabaseRestart
<1>14. QED
  BY <1>9, <1>10, <1>11, <1>12, <1>13 DEF RagNext, vars, ragVars

\* A question begins to wait when a script begins to work for it.
LEMMA WaitBegins ==
    ASSUME RagInv, [RagNext]_vars, NEW q \in Questions,
           told'[q].status = "waiting", told[q].status # "waiting"
    PROVE  \E w \in Pages : page'[w].pc # "idle" /\ page'[w].query = q
<1>1. told \in [Questions -> Promise!Told] /\ page \in [Pages -> Page]
  BY DEF RagInv, RagTypeOK
<1>2. PICK r \in Questions : Promise!Show(r) \/ Promise!GiveUp(r)
                            \/ \E ix \in Indexes : Promise!Ask(r, ix)
  BY PromiseStep DEF Promise!Next
<1>3. r = q /\ told[q].status = "unasked"
  BY <1>1, <1>2 DEF Promise!Show, Promise!GiveUp, Promise!Ask, Promise!Told,
     Promise!Outcomes
<1>4. \A w \in Pages : page[w].pc # "idle" => page[w].query # q
  BY <1>3 DEF RagInv, PagesFit
<1>5. PICK w \in Pages : told'[q] # told[q] /\ PageStep(w)
  BY DEF RagNext, Handler, SearchIndex, SearchFails, PublishDocument,
     PublishDocumentFails, Infer, InferFails, StoreResult, RefuseResult,
     PromptIgnored, CallFails, PublishFails, Submit, InterfaceRestart,
     DatabaseRestart, vars, ragVars
<1>6. page[w].query \in Questions
  BY <1>1 DEF Page
<1>7. ASSUME NEW rec, told' = [told EXCEPT ![page[w].query] = rec]
      PROVE  page[w].query = q
  BY <1>1, <1>5, <1>7
<1>8. ASSUME Check(w) \/ NoTurns(w) \/ ShowError(w) PROVE FALSE
  <2>1. page[w].pc # "idle"
    BY <1>8 DEF Check, NoTurns, ShowError
  <2>2. \E rec : told' = [told EXCEPT ![page[w].query] = rec]
    BY <1>1, <1>5, <1>6, <1>8 DEF Check, NoTurns, ShowError, EndSearch, ShowAnswer
  <2>3. QED
    BY <1>4, <1>7, <2>1, <2>2
<1>9. PICK ix \in Indexes, t \in Timeouts : Begin(w, ix, t)
  BY <1>5, <1>8 DEF PageStep, StoreRequest, PublishRequest, ReturnId
<1>10. page[w].next = q
  BY <1>1, <1>5, <1>9 DEF Begin
<1>11. page'[w].pc = "posting" /\ page'[w].query = q
  <2>1. PICK rec : /\ page' = [page EXCEPT ![w] = rec]
                   /\ \E h : rec = [page[w] EXCEPT !.pc = "posting", !.query = q,
                        !.index = ix, !.left = t, !.next = NoQuestion,
                        !.history = h]
    BY <1>9, <1>10 DEF Begin
  <2>2. rec.pc = "posting" /\ rec.query = q
    BY <1>1, <2>1 DEF Page
  <2>3. QED
    BY <1>1, <2>1, <2>2
<1>12. QED
  BY <1>11

\* Every question asked and not told an outcome has a script at work for it,
\* for any sessions, questions, failures and restarts; AskedIsTold adds that
\* under fairness the script comes to an end.
THEOREM NoneIsForgotten == Spec => []WaitingIsServed
<1>1. Init => WaitingIsServed
  BY DEF Init, RagInit, Promise!Init, WaitingIsServed
<1>2. RagInv /\ WaitingIsServed /\ [RagNext]_vars => WaitingIsServed'
  <2> SUFFICES ASSUME RagInv, WaitingIsServed, [RagNext]_vars,
                      NEW q \in Questions, told'[q].status = "waiting"
               PROVE  \E w \in Pages : page'[w].pc # "idle" /\ page'[w].query = q
    BY DEF WaitingIsServed
  <2>1. CASE told[q].status = "waiting"
    BY <2>1, ScriptGoesOn DEF WaitingIsServed
  <2>2. CASE told[q].status # "waiting"
    BY <2>2, WaitBegins
  <2>3. QED
    BY <2>1, <2>2
<1>3. QED
  BY RagInvariant, <1>1, <1>2, PTL DEF Spec

=============================================================================
