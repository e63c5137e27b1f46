--------------------------- MODULE CerebralSession ---------------------------
(***************************************************************************)
(* The Cerebral chat application (rag-on-edge-cerebral/app.py with the     *)
(* script of templates/index.html).                                        *)
(*                                                                         *)
(* Flask serves every request in a thread of its own.  A thread loads the  *)
(* browser's whole session from Redis, works on that copy, and when it is  *)
(* done writes all of it back if it has changed it; depending on the       *)
(* release of Flask-Session, which requirements.txt leaves open, also if   *)
(* it has not.  A question is asked by script and takes several calls of   *)
(* remote services; Reset, Log in and Logout are forms and links that load *)
(* another page; a page has the browser fetch its style sheets and images. *)
(* The messages for the language model are one list for all browsers.      *)
(***************************************************************************)
EXTENDS Naturals, Sequences, Functions

CONSTANTS
    Browsers,   \* one session cookie each
    Questions,  \* clicks on a question's button, at most one each
    NoBrowser

ASSUME BrowserAssumption == NoBrowser \notin Browsers

VARIABLES
    redis,          \* redis[b]: the stored session of browser b
    request,        \* request[q]: the thread that serves question q
    nav,            \* nav[b]: the form or link browser b has followed
    fetch,          \* fetch[b]: the thread that serves b a file of its page
    page,           \* page[b]: what browser b shows
    conversation,   \* the module's conversation after its two fixed messages
    answered,       \* answered[b]: questions answered since the last reset
    disturbed,      \* disturbed[b]: a request of b began during another, or
                    \* Redis was restarted while b was in use
    cleared         \* cleared[b]: questions a reset has taken out of history

vars == <<redis, request, nav, fetch, page, conversation,
          answered, disturbed, cleared>>

-----------------------------------------------------------------------------
(* Types *)

Session == [user : BOOLEAN, history : Seq(Questions)]

NewSession == [user |-> FALSE, history |-> <<>>]

\* Between these a thread waits for a service or for its turn.
Serving == {"classify", "data", "chat", "finish"}

\* current: the page the question was asked from is still there.
Request == [pc : Serving \cup {"unsent", "sent", "replied", "over"},
            from : Browsers \cup {NoBrowser}, session : Session,
            current : BOOLEAN]

Routes == {"home", "reset", "login", "bad_login", "logout"}

Navigation == [pc : {"idle", "sent", "open"}, route : Routes,
               session : Session]

Fetch == [open : BOOLEAN, session : Session]

NoFetch == [open |-> FALSE, session |-> NewSession]

\* blank: an error, a refused login, or nothing yet.
Page == [view : {"blank", "login", "index"}, shown : Seq(Questions)]

Showing(view) == [view |-> view, shown |-> <<>>]

Message == [role : {"user", "system"}, about : Questions]

TypeOK ==
    /\ redis \in [Browsers -> Session]
    /\ request \in [Questions -> Request]
    /\ nav \in [Browsers -> Navigation]
    /\ fetch \in [Browsers -> Fetch]
    /\ page \in [Browsers -> Page]
    /\ conversation \in Seq(Message)
    /\ answered \in [Browsers -> Seq(Questions)]
    /\ disturbed \in [Browsers -> BOOLEAN]
    /\ cleared \in [Browsers -> SUBSET Questions]

Init ==
    /\ redis = [b \in Browsers |-> NewSession]
    /\ request = [q \in Questions |->
                    [pc |-> "unsent", from |-> NoBrowser,
                     session |-> NewSession, current |-> FALSE]]
    /\ nav = [b \in Browsers |->
                [pc |-> "idle", route |-> "home", session |-> NewSession]]
    /\ fetch = [b \in Browsers |-> NoFetch]
    /\ page = [b \in Browsers |-> Showing("blank")]
    /\ conversation = <<>>
    /\ answered = [b \in Browsers |-> <<>>]
    /\ disturbed = [b \in Browsers |-> FALSE]
    /\ cleared = [b \in Browsers |-> {}]

-----------------------------------------------------------------------------
(* Threads and their copies of the session *)

Asking(b) ==
    {q \in Questions : request[q].from = b /\ request[q].pc \in Serving}

Navigating(b) == nav[b].pc = "open"

Busy(b) == Asking(b) # {} \/ Navigating(b) \/ fetch[b].open

InUse(b) ==
    \/ Busy(b) \/ page[b].shown # <<>>
    \/ \E q \in Questions : request[q].from = b /\ request[q].pc = "replied"

\* What the routes do to their copy: home() and a refused login, nothing ...
After(route, s) ==
    [user |-> (s.user \/ route = "login") /\ route # "logout",
     history |-> IF route = "reset" THEN <<>> ELSE s.history]

\* ... and whether that marks it as modified: a pop of what is not there does
\* not, an assignment always does.
ModifiedInPlace(route, s) ==
    \/ route = "login"
    \/ route = "logout" /\ s.user

Modified(route, s) ==
    \/ route = "login"
    \/ route = "logout" /\ s.user
    \/ route = "reset" /\ s.history # <<>>

\* Flask-Session's save_session(): newer releases leave a session alone that
\* was not modified (SESSION_PERMANENT is False), older ones store it at the
\* end of every request.  One without a name and history may be stored, too:
\* last_response stays in it.
Stored(b, s, modified) ==
    \/ redis' = [redis EXCEPT ![b] = s]
    \/ ~modified /\ redis' = redis

Moves(q, from, to) ==
    /\ request[q].pc = from
    /\ request' = [request EXCEPT ![q].pc = to]

-----------------------------------------------------------------------------
(* The browser *)

\* The script does not disable the buttons while an answer is awaited.
Click(b, q) ==
    /\ page[b].view = "index"
    /\ nav[b].pc = "idle"
    /\ request[q].pc = "unsent"
    /\ request' = [request EXCEPT ![q] =
            [request[q] EXCEPT !.pc = "sent", !.from = b, !.current = TRUE]]
    /\ UNCHANGED <<redis, nav, fetch, page, conversation,
                   answered, disturbed, cleared>>

\* Leaving the page aborts what its script is waiting for, not the thread.
Left(b) ==
    [q \in Questions |->
        IF request[q].from = b THEN [request[q] EXCEPT !.current = FALSE]
        ELSE request[q]]

Leaves(b, route) ==
    /\ nav[b].pc = "idle"
    /\ nav' = [nav EXCEPT ![b] = [nav[b] EXCEPT !.pc = "sent",
                                                !.route = route]]
    /\ page' = [page EXCEPT ![b] = Showing("blank")]

\* A form, a link, Return in the text field or a reload.
Follow(b, route) ==
    /\ route \in CASE page[b].view = "login" -> {"home", "login", "bad_login"}
                   [] page[b].view = "index" -> {"home", "logout", "reset"}
                   [] page[b].view = "blank" -> {"home"}
    /\ Leaves(b, route)
    /\ request' = Left(b)
    /\ UNCHANGED <<redis, fetch, conversation, answered, disturbed, cleared>>

\* Reset is a button, and the script has every button ask a question: without
\* an id it is 'No question was found.'  The form leaves the page at once.
ResetAsks(b, q) ==
    /\ page[b].view = "index"
    /\ request[q].pc = "unsent"
    /\ Leaves(b, "reset")
    /\ request' = [Left(b) EXCEPT ![q] =
            [request[q] EXCEPT !.pc = "sent", !.from = b]]
    /\ UNCHANGED <<redis, fetch, conversation, answered, disturbed, cleared>>

\* success: the container's content is replaced by the history in the reply.
DeliverAppended(q) ==
    LET b == request[q].from
    IN  /\ Moves(q, "replied", "over")
        /\ page' = IF request[q].current
                   THEN [page EXCEPT ![b].shown =
                            @ \o request[q].session.history]
                   ELSE page
        /\ UNCHANGED <<redis, nav, fetch, conversation, answered,
                       disturbed, cleared>>

Deliver(q) ==
    LET b == request[q].from
    IN  /\ Moves(q, "replied", "over")
        /\ page' = IF request[q].current
                   THEN [page EXCEPT ![b].shown = request[q].session.history]
                   ELSE page
        /\ UNCHANGED <<redis, nav, fetch, conversation, answered,
                       disturbed, cleared>>

-----------------------------------------------------------------------------
(* home(), reset(), login(), logout() *)

\* Every redirect leads to home() but logout's, which leads to the login page.
OpenPage(b) ==
    /\ nav[b].pc = "sent"
    /\ nav' = [nav EXCEPT ![b] = [nav[b] EXCEPT !.pc = "open",
                                                !.session = redis[b]]]
    /\ disturbed' = [disturbed EXCEPT ![b] = @ \/ Busy(b)]
    /\ UNCHANGED <<redis, request, fetch, page, conversation, answered, cleared>>

Redirected(route) == route \in {"reset", "login"}

View(route, s) ==
    CASE route = "bad_login" -> "blank"
      [] route = "home" /\ s.user -> "index"
      [] OTHER -> "login"

Save(b) ==
    LET s == nav[b].session
        route == nav[b].route
    IN  /\ nav[b].pc = "open"
        /\ Stored(b, After(route, s), Modified(route, s))
        /\ IF Redirected(route)
           THEN /\ nav' = [nav EXCEPT ![b] = [nav[b] EXCEPT !.pc = "sent",
                                                            !.route = "home"]]
                /\ UNCHANGED page
           ELSE /\ nav' = [nav EXCEPT ![b].pc = "idle"]
                /\ page' = [page EXCEPT ![b] = Showing(View(route, s))]
        /\ IF route = "reset"
           THEN /\ answered' = [answered EXCEPT ![b] = <<>>]
                /\ cleared' = [cleared EXCEPT ![b] = @ \cup Range(s.history)]
           ELSE UNCHANGED <<answered, cleared>>
        /\ UNCHANGED <<request, fetch, conversation, disturbed>>

-----------------------------------------------------------------------------
(* Files under static/, the login page a redirect leads to, an icon: requests  *)
(* that only load the session, as soon as a page asks for them or much later.  *)

FetchOpen(b) ==
    /\ ~fetch[b].open
    /\ fetch' = [fetch EXCEPT ![b] = [open |-> TRUE, session |-> redis[b]]]
    /\ disturbed' = [disturbed EXCEPT ![b] = @ \/ Busy(b)]
    /\ UNCHANGED <<redis, request, nav, page,
                   conversation, answered, cleared>>

FetchSave(b) ==
    /\ fetch[b].open
    /\ Stored(b, fetch[b].session, FALSE)
    /\ fetch' = [fetch EXCEPT ![b] = NoFetch]
    /\ UNCHANGED <<request, nav, page, conversation,
                   answered, disturbed, cleared>>

-----------------------------------------------------------------------------
(* handle_button_click() *)

Open(q) ==
    LET b == request[q].from
    IN  /\ request[q].pc = "sent"
        /\ request' = [request EXCEPT ![q] =
                [request[q] EXCEPT !.pc = "classify", !.session = redis[b]]]
        /\ disturbed' = [disturbed EXCEPT ![b] = @ \/ Busy(b)]
        /\ UNCHANGED <<redis, nav, fetch, page, conversation,
                       answered, cleared>>

\* classify_question(): 'data', no category, or (AskModel) 'documentation'.
Classify(q) ==
    /\ Moves(q, "classify", "data") \/ Moves(q, "classify", "finish")
    /\ UNCHANGED <<redis, nav, fetch, page, conversation,
                   answered, disturbed, cleared>>

\* chat_with_openai_for_data(), execute_query_and_return_data() and
\* generate_recommendations() keep to conversations and clients of their own;
\* the table and the graph are made of any result, or come out empty.
FetchData(q) ==
    /\ Moves(q, "data", "finish")
    /\ UNCHANGED <<redis, nav, fetch, page, conversation,
                   answered, disturbed, cleared>>

\* As the other two functions do with theirs, but on the module's list.
AskAnew(q) ==
    /\ Moves(q, "classify", "chat")
    /\ conversation' = <<[role |-> "user", about |-> q]>>
    /\ UNCHANGED <<redis, nav, fetch, page, answered, disturbed, cleared>>

\* chat_with_local_llm(): the question goes into the shared conversation, which
\* the model is then given; its answer goes there when it comes.
AskModel(q) ==
    /\ Moves(q, "classify", "chat")
    /\ conversation' = Append(conversation, [role |-> "user", about |-> q])
    /\ UNCHANGED <<redis, nav, fetch, page, answered, disturbed, cleared>>

ModelAnswers(q) ==
    /\ Moves(q, "chat", "finish")
    /\ conversation' = Append(conversation, [role |-> "system", about |-> q])
    /\ UNCHANGED <<redis, nav, fetch, page, answered, disturbed, cleared>>

\* A list of the module's in place of the session's.
FinishShared(q) ==
    LET b == request[q].from
        s == [request[q].session EXCEPT !.history = Append(@, q)]
    IN  /\ request[q].pc = "finish"
        /\ request' = [request EXCEPT ![q] =
                            [request[q] EXCEPT !.pc = "replied", !.session = s]]
        /\ redis' = [v \in Browsers |->
                        [redis[v] EXCEPT !.history = s.history]]
        /\ answered' = [answered EXCEPT ![b] = Append(@, q)]
        /\ UNCHANGED <<nav, fetch, page, conversation, disturbed, cleared>>

\* The line is appended to the copy's history, and the copy stored.
Finish(q) ==
    LET b == request[q].from
        s == [request[q].session EXCEPT !.history = Append(@, q)]
    IN  /\ request[q].pc = "finish"
        /\ request' = [request EXCEPT ![q] =
                            [request[q] EXCEPT !.pc = "replied", !.session = s]]
        /\ redis' = [redis EXCEPT ![b] = s]
        /\ answered' = [answered EXCEPT ![b] = Append(@, q)]
        /\ UNCHANGED <<nav, fetch, page, conversation, disturbed, cleared>>

\* A service, Redis or InfluxDB ('No data available.' is no query) raises: the
\* debugger's page with code 500, nothing stored, and no error callback.
Fail(q) ==
    /\ request[q].pc \in Serving \cup {"sent"}
    /\ request' = [request EXCEPT ![q].pc = "over"]
    /\ UNCHANGED <<redis, nav, fetch, page, conversation,
                   answered, disturbed, cleared>>

-----------------------------------------------------------------------------
(* Restarts *)

\* The threads and the conversation are the process's.
AppRestart ==
    /\ request' = [q \in Questions |->
                    IF request[q].pc \in Serving
                    THEN [request[q] EXCEPT !.pc = "over"] ELSE request[q]]
    /\ nav' = [b \in Browsers |->
                IF nav[b].pc = "open" THEN [nav[b] EXCEPT !.pc = "idle"]
                ELSE nav[b]]
    /\ fetch' = [b \in Browsers |-> NoFetch]
    /\ conversation' = <<>>
    /\ UNCHANGED <<redis, page, answered, disturbed, cleared>>

\* redis.yaml gives Redis no volume.
RedisRestart ==
    /\ redis' = [b \in Browsers |-> NewSession]
    /\ answered' = [b \in Browsers |-> <<>>]
    /\ disturbed' = [b \in Browsers |-> disturbed[b] \/ InUse(b)]
    /\ UNCHANGED <<request, nav, fetch, page, conversation, cleared>>

-----------------------------------------------------------------------------

Next ==
    \/ \E b \in Browsers :
        \/ OpenPage(b) \/ Save(b) \/ FetchOpen(b) \/ FetchSave(b)
        \/ \E route \in Routes : Follow(b, route)
        \/ \E q \in Questions : Click(b, q) \/ ResetAsks(b, q)
    \/ \E q \in Questions :
        \/ Open(q) \/ Classify(q) \/ FetchData(q)
        \/ AskModel(q) \/ ModelAnswers(q)
        \/ Finish(q) \/ Fail(q) \/ Deliver(q)
    \/ AppRestart \/ RedisRestart

Spec == Init /\ [][Next]_vars

-----------------------------------------------------------------------------
(* Properties *)

\* As long as no request of a browser, for whatever page or file, has begun
\* during another, its stored history is the questions answered since the last
\* reset, in their order: what reset() pops is gone and does not come back, a
\* failed question leaves nothing, and signing in and out keeps the
\* conversation ("the session maintains a continuous flow").
HistoryExact ==
    \A b \in Browsers :
        ~disturbed[b] =>
            /\ redis[b].history = answered[b]
            /\ Range(redis[b].history) \cap cleared[b] = {}

\* However requests overlap and write over each other, a browser's history, and
\* what its page shows, has its own questions only, and none twice.
OwnLines ==
    \A b \in Browsers :
        \A lines \in {redis[b].history, page[b].shown} :
            /\ \A q \in Range(lines) : request[q].from = b
            /\ \A i, j \in 1..Len(lines) : lines[i] = lines[j] => i = j

\* The model is given the asker's own question whatever other threads do to
\* the shared conversation between the two appends of chat_with_local_llm().
SeesOwnQuestion ==
    \A q \in Questions :
        request[q].pc = "chat" =>
            [role |-> "user", about |-> q] \in Range(conversation)

\* What the page of such a browser shows is how its stored history begins,
\* though replies may arrive in another order than they were sent.
ShownIsSaved ==
    \A b \in Browsers :
        ~disturbed[b] /\ nav[b].pc = "idle" =>
            LET shown == page[b].shown
            IN  /\ Len(shown) <= Len(redis[b].history)
                /\ shown = SubSeq(redis[b].history, 1, Len(shown))

\* "Clears the session history, allowing users to start afresh without
\* previous interactions" (README.md): what reset() cleared does not come back.
ResetClears ==
    \A b \in Browsers : Range(redis[b].history) \cap cleared[b] = {}
=============================================================================
