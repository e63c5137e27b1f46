----------------------------- MODULE RagPipeline -----------------------------
(***************************************************************************)
(* A document search through the RAG application: the page that asks       *)
(* (rag-on-edge-web/page_vector_search.py), the interface that keeps the   *)
(* requests (RAGInterface/main.py), the vector database (VDBModule/main.py,*)
(* with the index operations of VdbIndex) and the language model           *)
(* (LLMModule/main.py), joined by three topics of the broker.              *)
(*                                                                         *)
(* The broker delivers at least once: a message stays on its topic until   *)
(* the handler has answered 200, and a 200 that is lost, a restart or an   *)
(* exception has it delivered again.  A topic is therefore a set.          *)
(* Streamlit runs a page as a script; a prompt entered while it runs stops *)
(* it at its next st call and runs it again.                               *)
(***************************************************************************)
EXTENDS VdbIndex, Integers, Sequences

CONSTANTS
    Pages,          \* browser sessions of the search page
    Questions,      \* prompts users enter, each at most once
    Ids,            \* what uuid.uuid4() returns
    Timeouts,       \* what users enter as response timeout, in seconds
    ConvHistoryNum, \* CONV_HISTORY_NUM
    Faults,         \* TRUE: modules restart and calls fail
    DropsRefused,   \* TRUE: the broker may drop a message its handler refused
    NoQuestion, NoId, NoAnswer, NoEntry

ASSUME RagAssumption ==
    /\ Timeouts \subseteq Int
    /\ ConvHistoryNum \in Nat
    /\ Faults \in BOOLEAN /\ DropsRefused \in BOOLEAN
    /\ NoQuestion \notin Questions /\ NoId \notin Ids

VARIABLES
    page,       \* page[w]: the script of session w, its locals and history
    pending,    \* the interface's pending_requests
    vdbIn, llmIn, llmOut,   \* messages on the three topics
    searching,  \* database threads between the search and its publication
    minted,     \* minted[i]: the request uuid i was made for, ever
    told        \* told[q]: what the user has been told of question q

ragVars == <<page, pending, vdbIn, llmIn, llmOut, searching, minted, told>>
vars == <<vdbVars, ragVars>>

\* What the user knows is all that RagPromise speaks of.
Promise == INSTANCE RagPromise
             WITH Document <- Document, NoAnswer <- NoAnswer, told <- told

-----------------------------------------------------------------------------
(* Types *)

Answer == Promise!Answer

Request == [query : Questions, index : Indexes]
Entry == [query : Questions, index : Indexes, result : Answer \cup {NoAnswer}]
VdbMessage == [id : Ids, query : Questions, index : Indexes]
LlmMessage == [id : Ids, query : Questions, doc : Document]
ResultMessage == [id : Ids, answer : Answer]
Search == [msg : VdbMessage, doc : Document]

PagePCs == {"idle", "posting", "stored", "published", "polling", "failing"}

Line == [role : {"user", "assistant"}, about : Questions]

Page == [pc : PagePCs, query : Questions, index : Indexes, id : Ids \cup {NoId},
         left : Int, next : Questions \cup {NoQuestion}, history : Seq(Line)]

RagTypeOK ==
    /\ page \in [Pages -> Page]
    /\ pending \in [Ids -> Entry \cup {NoEntry}]
    /\ vdbIn \subseteq VdbMessage
    /\ llmIn \subseteq LlmMessage
    /\ llmOut \subseteq ResultMessage
    /\ searching \subseteq Search
    /\ minted \in [Ids -> Request \cup {NoEntry}]
    /\ told \in [Questions -> Promise!Told]

TypeOK == VdbTypeOK /\ RagTypeOK

\* The absent values are none of the others.
ASSUME NullAssumption ==
    /\ NoEntry \notin Entry /\ NoEntry \notin Request
    /\ NoAnswer \notin Answer

-----------------------------------------------------------------------------

RagInit ==
    /\ \E q \in Questions, ix \in Indexes :
        page = [w \in Pages |->
                  [pc |-> "idle", query |-> q, index |-> ix, id |-> NoId,
                   left |-> 0, next |-> NoQuestion, history |-> <<>>]]
    /\ pending = [i \in Ids |-> NoEntry]
    /\ vdbIn = {} /\ llmIn = {} /\ llmOut = {} /\ searching = {}
    /\ minted = [i \in Ids |-> NoEntry]
    /\ Promise!Init

Init == VdbInit /\ RagInit

\* The request page w has made.
Asked(w) == [query |-> page[w].query, index |-> page[w].index]

Minted(i) == minted[i] # NoEntry
Known(i) == pending[i] # NoEntry
HasResult(i) == Known(i) /\ pending[i].result # NoAnswer

\* The broker after a handler answered 200 (which may get lost) ...
Acked(topic, m) == IF Faults THEN {topic, topic \ {m}} ELSE {topic \ {m}}
\* ... and after it raised: error 500, no acknowledgement.
Refused(topic, m) == IF DropsRefused THEN {topic, topic \ {m}} ELSE {topic}

Turn(w, from, to) ==
    /\ page[w].pc = from
    /\ page' = [page EXCEPT ![w].pc = to]

-----------------------------------------------------------------------------
(* The search page *)

\* The user enters a prompt, at any time: if the script is running, Streamlit
\* will run it again.
Submit(w, q) ==
    /\ page[w].next = NoQuestion
    /\ told[q].status = "unasked"
    /\ \A v \in Pages : page[v].next # q
    /\ page' = [page EXCEPT ![w].next = q]
    /\ UNCHANGED <<pending, vdbIn, llmIn, llmOut, searching, minted, told>>

\* The user's line is left out when the history is full.
BeginUnrecorded(w, ix, t) ==
    LET q == page[w].next
    IN  /\ page[w].pc = "idle" /\ q # NoQuestion
        /\ ix \in created
        /\ page' = [page EXCEPT ![w] =
                [page[w] EXCEPT !.pc = "posting", !.query = q, !.index = ix,
                          !.left = t, !.next = NoQuestion,
                          !.history =
                            IF Len(@) >= ConvHistoryNum - 1 THEN @
                            ELSE Append(@, [role |-> "user", about |-> q])]]
        /\ told' = [told EXCEPT ![q] = [told[q] EXCEPT !.status = "waiting",
                                                       !.index = ix]]
        /\ UNCHANGED <<pending, vdbIn, llmIn, llmOut, searching, minted>>

\* query_retrieval() with a prompt, an index chosen from the list it has
\* fetched and a timeout: the user's line is appended before the search.
Begin(w, ix, t) ==
    LET q == page[w].next
    IN  /\ page[w].pc = "idle" /\ q # NoQuestion
        /\ ix \in created
        /\ page' = [page EXCEPT ![w] =
                [page[w] EXCEPT !.pc = "posting", !.query = q, !.index = ix,
                          !.left = t, !.next = NoQuestion,
                          !.history = Append(page[w].history,
                                        [role |-> "user", about |-> q])]]
        /\ told' = [told EXCEPT ![q] = [told[q] EXCEPT !.status = "waiting",
                                                       !.index = ix]]
        /\ UNCHANGED <<pending, vdbIn, llmIn, llmOut, searching, minted>>

\* Without an index to select, or a list of them, the prompt is not used.
PromptIgnored(w) ==
    /\ page[w].pc = "idle" /\ page[w].next # NoQuestion
    /\ created = {} \/ Faults
    /\ page' = [page EXCEPT ![w].next = NoQuestion]
    /\ UNCHANGED <<pending, vdbIn, llmIn, llmOut, searching, minted, told>>

\* The script's last st call and the end of its locals, unless a prompt is waiting: then Streamlit
\* abandons the script at that call and what it was to show with it.
EndSearch(w, outcome) ==
    LET q == page[w].query
        end == IF page[w].next = NoQuestion THEN outcome ELSE "superseded"
    IN  /\ page' = [page EXCEPT ![w] = [page[w] EXCEPT
                        !.pc = "idle", !.id = NoId, !.left = 0]]
        /\ told' = [told EXCEPT ![q].status = end]

\* if len(conversation_history) > CONV_HISTORY_NUM: conversation_history.pop(0)
Trim(history) ==
    IF Len(history) > ConvHistoryNum THEN Tail(history) ELSE history

\* check_processed_result() shows the answer and keeps it in the history.
ShowAnswer(w) ==
    LET q == page[w].query
        answer == pending[page[w].id].result
        line == [role |-> "assistant", about |-> answer.query]
    IN  /\ page' = [page EXCEPT ![w] =
                [page[w] EXCEPT !.pc = "idle", !.id = NoId, !.left = 0,
                    !.history = Trim(Append(page[w].history, line))]]
        /\ told' = [told EXCEPT ![q] = [told[q] EXCEPT !.status = "answered",
                                                       !.answer = answer]]

\* while True: the counter is tested and never decremented.
CheckForever(w) ==
    /\ page[w].pc = "polling"
    /\ page[w].left > 0
    /\ \/ /\ HasResult(page[w].id)
          /\ IF page[w].next = NoQuestion THEN ShowAnswer(w)
             ELSE EndSearch(w, "superseded")
       \/ /\ ~HasResult(page[w].id)
          /\ UNCHANGED <<page, told>>
    /\ UNCHANGED <<pending, vdbIn, llmIn, llmOut, searching, minted>>

\* The counter is decremented first, so the last turn reports the timeout
\* without a check, and a timeout of 0 makes no turn and reports nothing.
Check(w) ==
    LET left == page[w].left - 1
    IN  /\ page[w].pc = "polling"
        /\ page[w].left > 0
        /\ \/ /\ left = 0
              /\ EndSearch(w, "timeout")
           \/ /\ left > 0 /\ HasResult(page[w].id)
              /\ IF page[w].next = NoQuestion THEN ShowAnswer(w)
                 ELSE EndSearch(w, "superseded")
           \/ /\ left > 0 /\ ~HasResult(page[w].id)
              /\ page' = [page EXCEPT ![w].left = left]
              /\ UNCHANGED told
        /\ UNCHANGED <<pending, vdbIn, llmIn, llmOut, searching, minted>>

\* for _ in range(number_of_check) with nothing to count.
NoTurns(w) ==
    /\ page[w].pc = "polling"
    /\ page[w].left <= 0
    /\ EndSearch(w, "silent")
    /\ UNCHANGED <<pending, vdbIn, llmIn, llmOut, searching, minted>>

\* A requests call raises: 'Request failed'.
CallFails(w) ==
    /\ Faults
    /\ \/ Turn(w, "posting", "failing")
       \/ Turn(w, "polling", "failing")
    /\ UNCHANGED <<pending, vdbIn, llmIn, llmOut, searching, minted, told>>

\* 'Failed to publish user input to the backend', 'Request failed'
ShowError(w) ==
    /\ page[w].pc = "failing"
    /\ EndSearch(w, "error")
    /\ UNCHANGED <<pending, vdbIn, llmIn, llmOut, searching, minted>>

-----------------------------------------------------------------------------
(* The interface *)

\* A request number that starts over with the process, in place of a uuid.
StoreNumbered(w) ==
    /\ page[w].pc = "posting"
    /\ \E i \in Ids :
        /\ ~Known(i)
        /\ minted' = [minted EXCEPT ![i] = Asked(w)]
        /\ pending' = [pending EXCEPT ![i] =
                [query |-> page[w].query, index |-> page[w].index,
                 result |-> NoAnswer]]
        /\ page' = [page EXCEPT ![w] =
                [page[w] EXCEPT !.pc = "stored", !.id = i]]
    /\ UNCHANGED <<vdbIn, llmIn, llmOut, searching, told>>

\* A second worker process serves the call: the entry is in its memory only.
StoreElsewhere(w) ==
    /\ page[w].pc = "posting"
    /\ \E i \in Ids :
        /\ minted[i] = NoEntry
        /\ minted' = [minted EXCEPT ![i] = Asked(w)]
        /\ page' = [page EXCEPT ![w] =
                [page[w] EXCEPT !.pc = "stored", !.id = i]]
    /\ UNCHANGED <<pending, vdbIn, llmIn, llmOut, searching, told>>

\* publish(): a fresh uuid, the request stored before it is published.
StoreRequest(w) ==
    /\ page[w].pc = "posting"
    /\ \E i \in Ids :
        /\ minted[i] = NoEntry
        /\ minted' = [minted EXCEPT ![i] = Asked(w)]
        /\ pending' = [pending EXCEPT ![i] =
                [query |-> page[w].query, index |-> page[w].index,
                 result |-> NoAnswer]]
        /\ page' = [page EXCEPT ![w] =
                [page[w] EXCEPT !.pc = "stored", !.id = i]]
    /\ UNCHANGED <<vdbIn, llmIn, llmOut, searching, told>>

\* publish_message() publishes, then sleeps for a second ...
PublishRequest(w) ==
    /\ Turn(w, "stored", "published")
    /\ vdbIn' = vdbIn \cup {[id |-> page[w].id, query |-> page[w].query,
                             index |-> page[w].index]}
    /\ UNCHANGED <<pending, llmIn, llmOut, searching, minted, told>>

\* ... or raises: error 500, and the entry stays for good.
PublishFails(w) ==
    /\ Faults
    /\ Turn(w, "stored", "failing")
    /\ UNCHANGED <<pending, vdbIn, llmIn, llmOut, searching, minted, told>>

\* The request_id gets back to the page, which begins to poll.
ReturnId(w) ==
    /\ Turn(w, "published", "polling")
    /\ UNCHANGED <<pending, vdbIn, llmIn, llmOut, searching, minted, told>>

\* llm_output_topic_handler: pending_requests[request_id] raises KeyError when
\* the interface has been restarted since.
StoreResult(m) ==
    /\ m \in llmOut
    /\ Known(m.id)
    /\ pending' = [pending EXCEPT ![m.id].result = m.answer]
    /\ llmOut' \in Acked(llmOut, m)
    /\ UNCHANGED <<page, vdbIn, llmIn, searching, minted, told>>

RefuseResult(m) ==
    /\ m \in llmOut
    /\ ~Known(m.id)
    /\ llmOut' \in Refused(llmOut, m)
    /\ UNCHANGED <<page, pending, vdbIn, llmIn, searching, minted, told>>

\* pending_requests is memory: a restart loses it and cuts the calls it serves.
InterfaceRestart ==
    /\ Faults
    /\ pending' = [i \in Ids |-> NoEntry]
    /\ page' = [w \in Pages |->
                  IF page[w].pc \in {"stored", "published"}
                  THEN [page[w] EXCEPT !.pc = "failing"] ELSE page[w]]
    /\ UNCHANGED <<vdbIn, llmIn, llmOut, searching, minted, told>>

-----------------------------------------------------------------------------
(* The database's and the model's handlers *)

\* vdb_input_topic_handler acknowledges before it has published.
SearchAcked(m) ==
    /\ m \in vdbIn
    /\ \E d \in store[m.index] :
        searching' = searching \cup {[msg |-> m, doc |-> d]}
    /\ vdbIn' = vdbIn \ {m}
    /\ UNCHANGED <<page, pending, llmIn, llmOut, minted, told>>

\* similarity_search(): one of the documents of the index.
SearchIndex(m) ==
    /\ m \in vdbIn
    /\ \A s \in searching : s.msg # m
    /\ m.index \in created
    /\ \E d \in store[m.index] :
        searching' = searching \cup {[msg |-> m, doc |-> d]}
    /\ UNCHANGED <<page, pending, vdbIn, llmIn, llmOut, minted, told>>

\* get_collection() raises without the index, documents[0][0] when it is empty.
SearchFails(m) ==
    /\ m \in vdbIn
    /\ \A s \in searching : s.msg # m
    /\ store[m.index] = {} \/ Faults
    /\ vdbIn' \in Refused(vdbIn, m)
    /\ UNCHANGED <<page, pending, llmIn, llmOut, searching, minted, told>>

\* The handler keeps request_id in a global of the module.
PublishOther(s) ==
    /\ s \in searching
    /\ \E r \in searching :
        llmIn' = llmIn \cup {[id |-> r.msg.id, query |-> s.msg.query,
                              doc |-> s.doc]}
    /\ searching' = searching \ {s}
    /\ vdbIn' \in Acked(vdbIn, s.msg)
    /\ UNCHANGED <<page, pending, llmOut, minted, told>>

PublishDocument(s) ==
    /\ s \in searching
    /\ llmIn' = llmIn \cup {[id |-> s.msg.id, query |-> s.msg.query,
                             doc |-> s.doc]}
    /\ searching' = searching \ {s}
    /\ vdbIn' \in Acked(vdbIn, s.msg)
    /\ UNCHANGED <<page, pending, llmOut, minted, told>>

PublishDocumentFails(s) ==
    /\ Faults
    /\ s \in searching
    /\ searching' = searching \ {s}
    /\ vdbIn' \in Refused(vdbIn, s.msg)
    /\ UNCHANGED <<page, pending, llmIn, llmOut, minted, told>>

\* llm_input_topic_handler: the inference is published, then acknowledged.
Infer(m) ==
    /\ m \in llmIn
    /\ llmOut' = llmOut \cup {[id |-> m.id, answer |->
                                [query |-> m.query, doc |-> m.doc]]}
    /\ llmIn' \in Acked(llmIn, m)
    /\ UNCHANGED <<page, pending, vdbIn, searching, minted, told>>

\* The model or the publication raises.  (A restart before the publication
\* leaves the message where it is, one after it is an acknowledgement lost.)
InferFails(m) ==
    /\ Faults
    /\ m \in llmIn
    /\ llmIn' \in Refused(llmIn, m)
    /\ UNCHANGED <<page, pending, vdbIn, llmOut, searching, minted, told>>

\* The threads at work end with the process, the files as VdbRestart says.
DatabaseRestart ==
    /\ Faults
    /\ VdbRestart
    /\ searching' = {}
    /\ UNCHANGED <<page, pending, vdbIn, llmIn, llmOut, minted, told>>

-----------------------------------------------------------------------------

PageStep(w) ==
    \/ \E ix \in Indexes, t \in Timeouts : Begin(w, ix, t)
    \/ Check(w) \/ NoTurns(w) \/ ShowError(w)
    \/ StoreRequest(w) \/ PublishRequest(w) \/ ReturnId(w)

Handler ==
    \/ \E m \in vdbIn : SearchIndex(m) \/ SearchFails(m)
    \/ \E s \in searching : PublishDocument(s) \/ PublishDocumentFails(s)
    \/ \E m \in llmIn : Infer(m) \/ InferFails(m)
    \/ \E m \in llmOut : StoreResult(m) \/ RefuseResult(m)

RagNext ==
    \/ /\ \/ \E w \in Pages :
             \/ PageStep(w)
             \/ PromptIgnored(w) \/ CallFails(w) \/ PublishFails(w)
             \/ \E q \in Questions : Submit(w, q)
          \/ Handler
          \/ InterfaceRestart
       /\ UNCHANGED vdbVars
    \/ DatabaseRestart
    \/ IndexStep /\ UNCHANGED ragVars

Spec == Init /\ [][RagNext]_vars

\* Scripts keep running and the broker keeps delivering what is not refused;
\* users need not ask, and nothing has to fail.
OfId(i, topic) == {m \in topic : m.id = i}

Fairness ==
    /\ \A w \in Pages : WF_vars(PageStep(w) /\ UNCHANGED vdbVars)
    /\ \A i \in Ids :
        /\ WF_vars(/\ \E m \in OfId(i, vdbIn) : SearchIndex(m)
                   /\ UNCHANGED vdbVars)
        /\ WF_vars(/\ \E s \in searching : s.msg.id = i /\ PublishDocument(s)
                   /\ UNCHANGED vdbVars)
        /\ WF_vars(/\ \E m \in OfId(i, llmIn) : Infer(m)
                   /\ UNCHANGED vdbVars)
        /\ WF_vars(/\ \E m \in OfId(i, llmOut) : StoreResult(m)
                   /\ UNCHANGED vdbVars)

FairSpec == Spec /\ Fairness

-----------------------------------------------------------------------------
(* Properties *)

\* A record of a file that somebody has uploaded to the index it names.
Uploaded(d) ==
    /\ d.up # NoUpload
    /\ upload[d.up].phase # "free"
    /\ upload[d.up].index = d.index
    /\ d.chunk <= upload[d.up].size

Provided(d) == Uploaded(d) \/ d \in ShippedRecords

\* check_processed_result() can only show an answer that was inferred for the
\* question the page asked, from a record that was uploaded to the index it
\* asked or shipped in it, although ids outlive the interface's memory, indexes and uploads come
\* to an end meanwhile, and handlers of several requests overlap.
AnswerMatches ==
    \A q \in Questions :
        told[q].status = "answered" =>
            /\ told[q].answer.query = q
            /\ told[q].answer.doc.index = told[q].index
            /\ Provided(told[q].answer.doc)

\* At-least-once through all three modules: a published request the interface
\* remembers has its result or is on some topic, whatever restarted or failed,
\* because every handler publishes before it acknowledges.  (Unless the broker
\* drops what a handler refused.)
RequestInFlight ==
    ~DropsRefused =>
        \A w \in Pages :
            page[w].pc \in {"published", "polling"} =>
                LET i == page[w].id
                IN  Known(i) =>
                        HasResult(i) \/ OfId(i, vdbIn \cup llmIn \cup llmOut) # {}

\* An answer stands in the conversation right after its question, or first
\* when the question has been trimmed away: answers that come late or to a
\* script that was stopped never get between others' lines.
HistoryPaired ==
    \A w \in Pages : \A k \in 2..Len(page[w].history) :
        LET line == page[w].history[k]
        IN  line.role = "assistant" =>
                page[w].history[k - 1] = [role |-> "user",
                                          about |-> line.about]

\* Every question asked with a timeout of at least one second is told an
\* outcome: an answer, a timeout, an error, or a later prompt in its place.
AskedIsTold ==
    \A w \in Pages, q \in Questions :
        page[w].pc # "idle" /\ page[w].query = q /\ page[w].left > 0 ~>
            told[q].status \in {"answered", "timeout", "error", "superseded"}

\* Without restarts and failures a published request gets its result, unless
\* its index is emptied before the search: no answer can overtake its entry.
ResultArrives ==
    \A i \in Ids :
        OfId(i, vdbIn) # {} ~>
            \/ HasResult(i)
            \/ Minted(i) /\ store[minted[i].index] = {}

\* The pipeline implements what RagPromise says the user can rely on.
PromiseKept == Promise!Spec
=============================================================================
