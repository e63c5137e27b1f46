---------------------------- MODULE SocketHelpers ----------------------------
(***************************************************************************)
(* The socket helpers of wsdd, net_utils.c and file_utils.c, at both ends  *)
(* of one connection: connect_to_socket() with wait_connect() in the       *)
(* client, create_passive_socket() in the server, send_loop() or           *)
(* write_loop() in one and recv_loop() or read_loop() in the other, and    *)
(* set_blocking() and count_files_in_dir() around them.  IPv4 and IPv6     *)
(* differ in the size of an address only and are one here.                 *)
(*                                                                         *)
(* External: the kernel's sockets and descriptors, the network, and the    *)
(* callers, who pass on the buffer behind what a loop has returned, try a  *)
(* connection again when it failed, and close what they were given.  Any   *)
(* system call may fail.  Each end is a process with one thread.           *)
(***************************************************************************)
EXTENDS Integers, Sequences

CONSTANTS
    MaxFds,     \* descriptors a process may have
    Capacity,   \* bytes the kernel keeps between the ends
    Word,       \* 2^32: size_t is wider, and half of int is negative
    Sizes,      \* what is passed as buf_len
    Attempts,   \* what is passed as count_loop
    MaxTries,   \* bound: helpers an end calls to get a socket
    MaxLoops,   \* bound: loops an end calls
    NoFd        \* -1

ASSUME SocketAssumption ==
    /\ MaxFds \in Nat /\ Capacity \in Nat
    /\ Word \in Nat \ {0} /\ Word % 2 = 0
    /\ Sizes \subseteq Nat \ {0}
    /\ Attempts \in Nat /\ MaxTries \in Nat /\ MaxLoops \in Nat
    /\ NoFd \notin 1..MaxFds

VARIABLES
    call,       \* call[e]: the helper that end e is in, and how far
    sd,         \* sd[e]: the socket the helper has made
    aux,        \* aux[e]: its epoll descriptor, or the directory's
    conn,       \* the socket the server's caller has accepted
    open,       \* open[e]: the descriptors of the process
    nonblock,   \* nonblock[e]: O_NONBLOCK of the connected socket
    net,        \* the connection between them
    listening,  \* the server's socket takes connections
    xfer,       \* xfer[e]: the arguments and locals of the loop e is in
    told,       \* told[e]: the sum of the counts e's loops have returned
    wire,       \* every byte that went out, in order
    taken,      \* how many of them came in
    mem         \* the reader's memory up to where buf points

helperVars == <<call, sd, aux, conn, open, nonblock, net, listening>>
loopVars == <<xfer, told, wire, taken, mem>>
vars == <<helperVars, loopVars>>

Stream == INSTANCE ByteStream
            WITH stream <- wire, known <- told["client"],
                 got <- SubSeq(mem, 1, told["server"])

-----------------------------------------------------------------------------
(* Types *)

Ends == {"client", "server"}
Fds == 1..MaxFds

ConnectPCs == {"lookup", "socket", "mode", "connect", "epoll_create",
               "epoll_ctl", "epoll_wait", "so_error"}
CreatePCs == {"socket", "reuse", "bind", "listen", "mode"}
HelperPCs == ConnectPCs \cup CreatePCs \cup {"counting"}

\* The caller has no socket, has one, is in a loop, was told -1 by one, is
\* through.
CallerPCs == {"idle", "ready", "looping", "broken", "closed"}

Call == [pc : HelperPCs \cup CallerPCs, type : {"stream", "dgram"},
         nb : BOOLEAN, tries : 0..MaxTries, loops : 0..MaxLoops]

\* buf has been moved pos bytes.
Xfer == [fn : {"none", "send", "recv", "read"}, size : Nat,
         len : Int, tries : 0..Attempts, pos : Nat]

NetStates == {"none", "pending", "established", "refused", "reset", "finished"}

TypeOK ==
    /\ call \in [Ends -> Call]
    /\ sd \in [Ends -> Fds \cup {NoFd}] /\ aux \in [Ends -> Fds \cup {NoFd}]
    /\ conn \in Fds \cup {NoFd}
    /\ open \in [Ends -> SUBSET Fds]
    /\ nonblock \in [Ends -> BOOLEAN]
    /\ net \in NetStates /\ listening \in BOOLEAN
    /\ xfer \in [Ends -> Xfer]
    /\ told \in [Ends -> Int]
    /\ wire \in Seq(Nat) /\ taken \in Nat /\ mem \in Seq(Nat)

\* The locals of no loop.
NoXfer == [fn |-> "none", size |-> 0, len |-> 0, tries |-> 0, pos |-> 0]

Init ==
    /\ call = [e \in Ends |-> [pc |-> "idle", type |-> "stream", nb |-> FALSE,
                               tries |-> 0, loops |-> 0]]
    /\ sd = [e \in Ends |-> NoFd] /\ aux = [e \in Ends |-> NoFd]
    /\ conn = NoFd
    /\ open = [e \in Ends |-> {}]
    /\ nonblock = [e \in Ends |-> FALSE]
    /\ net = "none" /\ listening = FALSE
    /\ xfer = [e \in Ends |-> NoXfer]
    /\ told = [e \in Ends |-> 0]
    /\ wire = <<>> /\ taken = 0 /\ mem = <<>>

-----------------------------------------------------------------------------
(* What the helpers are built from *)

At(e, pc) == call[e].pc = pc

Goto(e, from, to) == At(e, from) /\ call' = [call EXCEPT ![e].pc = to]

\* A helper's parameters end with it; what its socket is for does not.
Return(e, to) ==
    call' = [call EXCEPT ![e].pc = to, ![e].nb = FALSE,
                         ![e].type = IF to = "ready" THEN @ ELSE "stream"]

\* The next step of e's helper, or its return with a socket.
GoesOn(e, from, to) ==
    /\ At(e, from)
    /\ IF to = "ready" THEN Return(e, to)
       ELSE call' = [call EXCEPT ![e].pc = to]

\* A system call hands out the lowest descriptor that is free.
Opens(e, f) ==
    /\ f \in Fds \ open[e]
    /\ \A g \in Fds \ open[e] : f <= g
    /\ open' = [open EXCEPT ![e] = @ \cup {f}]

\* What close() of a socket of e does to the connection.
Closed(e) ==
    IF e = "client"
    THEN CASE net \in {"pending", "refused"} -> "none"
           [] net = "established" -> "finished"
           [] OTHER -> net
    ELSE IF net \in {"established", "finished"} THEN "reset" ELSE net

\* A helper of e closes the descriptors fds and returns -1.
Fail(e, fds) ==
    /\ Return(e, "idle")
    /\ open' = [open EXCEPT ![e] = @ \ fds]
    /\ sd' = [sd EXCEPT ![e] = NoFd]
    /\ aux' = [aux EXCEPT ![e] = NoFd]
    /\ net' = Closed(e)
    /\ listening' = (listening /\ e = "client")
    /\ UNCHANGED <<conn, nonblock, loopVars>>

(* Faulty forms of steps below, for the mutants: never part of Next. *)

\* wait_connect() forgets its epoll descriptor when the time is up.
TimeoutLeaks ==
    /\ At("client", "epoll_wait")
    /\ Fail("client", {sd["client"]})

\* num_events < 0: when the time is up the socket is asked for its error.
TimeoutIsEvent ==
    /\ Goto("client", "epoll_wait", "so_error")
    /\ UNCHANGED <<sd, aux, conn, open, nonblock, net, listening, loopVars>>

-----------------------------------------------------------------------------
(* connect_to_socket() and create_passive_socket() *)

\* The caller asks for a socket, for the first time or again.
Ask(e, type, nb) ==
    /\ At(e, "idle")
    /\ call[e].tries < MaxTries
    /\ e = "client" => net = "none"
    /\ call' = [call EXCEPT ![e].pc = IF e = "client" THEN "lookup" ELSE "socket",
                            ![e].type = type, ![e].nb = nb, ![e].tries = @ + 1]
    /\ UNCHANGED <<sd, aux, conn, open, nonblock, net, listening, loopVars>>

\* host_or_ip_to_addr() has found an address of the family.
LookUp ==
    /\ Goto("client", "lookup", "socket")
    /\ UNCHANGED <<sd, aux, conn, open, nonblock, net, listening, loopVars>>

\* After the socket is made: set_nonblock_mode() if asked for, and a datagram
\* socket is ready then.
AfterMode(e) ==
    IF e = "client" /\ call[e].type = "stream" THEN "connect" ELSE "ready"

ModeOr(e) == IF call[e].nb THEN "mode" ELSE AfterMode(e)

OpenSocket(e) ==
    /\ GoesOn(e, "socket", IF e = "client" THEN ModeOr(e) ELSE "reuse")
    /\ \E f \in Fds : Opens(e, f) /\ sd' = [sd EXCEPT ![e] = f]
    /\ nonblock' = [nonblock EXCEPT ![e] = FALSE]
    /\ UNCHANGED <<aux, conn, net, listening, loopVars>>

\* O_NONBLOCK matters here for the socket that will carry the bytes.
SetMode(e) ==
    /\ GoesOn(e, "mode", AfterMode(e))
    /\ nonblock' = [nonblock EXCEPT ![e] = (e = "client")]
    /\ UNCHANGED <<sd, aux, conn, open, net, listening, loopVars>>

\* connect() returns 0: the connection is there.
Connect ==
    /\ GoesOn("client", "connect", "ready")
    /\ net = "none" /\ listening
    /\ net' = "established"
    /\ UNCHANGED <<sd, aux, conn, open, nonblock, listening, loopVars>>

\* EINPROGRESS, for which wait_connect() waits.
ConnectPending ==
    /\ Goto("client", "connect", "epoll_create")
    /\ nonblock["client"]
    /\ net' = "pending"
    /\ UNCHANGED <<sd, aux, conn, open, nonblock, listening, loopVars>>

CreateEpoll ==
    /\ Goto("client", "epoll_create", "epoll_ctl")
    /\ \E f \in Fds : Opens("client", f) /\ aux' = [aux EXCEPT !["client"] = f]
    /\ UNCHANGED <<sd, conn, nonblock, net, listening, loopVars>>

AddToEpoll ==
    /\ Goto("client", "epoll_ctl", "epoll_wait")
    /\ UNCHANGED <<sd, aux, conn, open, nonblock, net, listening, loopVars>>

\* The kernel has something to say about the socket.
EpollEvent ==
    /\ net # "pending"
    /\ Goto("client", "epoll_wait", "so_error")
    /\ UNCHANGED <<sd, aux, conn, open, nonblock, net, listening, loopVars>>

\* Two seconds are over, or a signal interrupts the wait: sd and epoll_fd are
\* closed, the answer may come a moment later.
EpollTimeout ==
    /\ At("client", "epoll_wait")
    /\ Fail("client", {sd["client"], aux["client"]})

\* SO_ERROR is 0 unless the kernel has stored an error.
CheckError ==
    /\ GoesOn("client", "so_error", "ready")
    /\ net \notin {"refused", "reset"}
    /\ open' = [open EXCEPT !["client"] = @ \ {aux["client"]}]
    /\ aux' = [aux EXCEPT !["client"] = NoFd]
    /\ UNCHANGED <<sd, conn, nonblock, net, listening, loopVars>>

\* The server's: SO_REUSEADDR, bind(), and listen() for a stream socket.
ReuseAddress ==
    /\ Goto("server", "reuse", "bind")
    /\ UNCHANGED <<sd, aux, conn, open, nonblock, net, listening, loopVars>>

Bind ==
    /\ GoesOn("server", "bind", IF call["server"].type = "stream" THEN "listen"
                                ELSE ModeOr("server"))
    /\ UNCHANGED <<sd, aux, conn, open, nonblock, net, listening, loopVars>>

Listen ==
    /\ GoesOn("server", "listen", ModeOr("server"))
    /\ listening' = TRUE
    /\ UNCHANGED <<sd, aux, conn, open, nonblock, net, loopVars>>

\* Before there is a socket nothing has to be closed; from then on sd is, and
\* behind epoll_create() the epoll descriptor.
OpenFails(e) ==
    /\ call[e].pc \in {"lookup", "socket"}
    /\ Fail(e, {})

StepFails(e) ==
    /\ call[e].pc \in {"mode", "connect", "epoll_create", "reuse", "bind",
                       "listen"}
    /\ Fail(e, {sd[e]})

WaitFails ==
    /\ call["client"].pc \in {"epoll_ctl", "so_error"}
    /\ Fail("client", {sd["client"], aux["client"]})

\* count_files_in_dir(): opendir(), and closedir() when every entry is read.
OpenDirectory(e) ==
    /\ call[e].tries < MaxTries
    /\ At(e, "idle")
    /\ call' = [call EXCEPT ![e].pc = "counting", ![e].tries = @ + 1]
    /\ \E f \in Fds : Opens(e, f) /\ aux' = [aux EXCEPT ![e] = f]
    /\ UNCHANGED <<sd, conn, nonblock, net, listening, loopVars>>

CloseDirectory(e) ==
    /\ Goto(e, "counting", "idle")
    /\ open' = [open EXCEPT ![e] = @ \ {aux[e]}]
    /\ aux' = [aux EXCEPT ![e] = NoFd]
    /\ UNCHANGED <<sd, conn, nonblock, net, listening, loopVars>>

-----------------------------------------------------------------------------
(* send_loop(), write_loop(), recv_loop() and read_loop() *)

\* A size_t as an int.
ToInt(n) == LET low == n % Word IN IF low < Word \div 2 THEN low ELSE low - Word

Connected(e) == IF e = "client" THEN call[e].type = "stream" ELSE conn # NoFd

\* write_loop() differs from send_loop() in the system call only.
Functions(e) == IF e = "client" THEN {"send"} ELSE {"recv", "read"}

\* The caller goes on behind the bytes it was told of.
BeginLoop(e, fn, size) ==
    /\ At(e, "ready") /\ Connected(e)
    /\ call[e].loops < MaxLoops
    /\ call' = [call EXCEPT ![e].pc = "looping", ![e].loops = @ + 1]
    /\ xfer' = [xfer EXCEPT ![e] =
                    [fn |-> fn, size |-> size, len |-> ToInt(size),
                     tries |-> Attempts, pos |-> told[e]]]
    /\ UNCHANGED <<sd, aux, conn, open, nonblock, net, listening, told, wire,
                   taken, mem>>

\* while( (len > 0) && (count_loop-- > 0) )
Goes(e) == At(e, "looping") /\ xfer[e].len > 0 /\ xfer[e].tries > 0

\* buf is not moved.
MoveLenOnly(e, n) ==
    xfer' = [xfer EXCEPT ![e].len = @ - n, ![e].tries = @ - 1]

\* buf += n; len -= n;
Moved(e, n) ==
    xfer' = [xfer EXCEPT ![e].len = @ - n, ![e].tries = @ - 1, ![e].pos = @ + n]

\* send() or write() takes n bytes.
Put(n) ==
    /\ Goes("client") /\ net = "established"
    /\ n <= xfer["client"].len /\ n <= Capacity - (Len(wire) - taken)
    /\ wire' = wire \o [k \in 1..n |-> xfer["client"].pos + k]
    /\ Moved("client", n)
    /\ UNCHANGED <<helperVars, told, taken, mem>>

\* recv() or read() brings n bytes.
Get(n) ==
    /\ Goes("server") /\ net \in {"established", "finished"}
    /\ n <= xfer["server"].len /\ n <= Len(wire) - taken
    /\ mem' = SubSeq(mem, 1, xfer["server"].pos)
                \o SubSeq(wire, taken + 1, taken + n)
    /\ taken' = taken + n
    /\ Moved("server", n)
    /\ UNCHANGED <<helperVars, told, wire>>

\* An attempt that moves nothing is not counted.
WaitedFree(e) == UNCHANGED xfer

Waited(e) == xfer' = [xfer EXCEPT ![e].tries = @ - 1]

\* EAGAIN: no room, or nothing there; usleep(), and again.
Again(e) ==
    /\ Goes(e) /\ nonblock[e] /\ net = "established"
    /\ IF e = "client" THEN Len(wire) - taken >= Capacity
                       ELSE Len(wire) = taken
    /\ Waited(e)
    /\ UNCHANGED <<helperVars, told, wire, taken, mem>>

\* read() returns 0 at the end of the stream, time and again.
EndAgain ==
    /\ Goes("server") /\ xfer["server"].fn = "read"
    /\ net = "finished" /\ Len(wire) = taken
    /\ Waited("server")
    /\ UNCHANGED <<helperVars, told, wire, taken, mem>>

\* return (buf_len - len)
ReturnCount(e) ==
    /\ Goto(e, "looping", "ready")
    /\ ~Goes(e)
    /\ told' = [told EXCEPT ![e] = @ + ToInt(xfer[e].size - xfer[e].len)]
    /\ xfer' = [xfer EXCEPT ![e] = NoXfer]
    /\ UNCHANGED <<sd, aux, conn, open, nonblock, net, listening, wire, taken,
                   mem>>

\* -1, whatever was moved before: a reset, a signal, or recv() at the end of
\* the stream.  How much it was the caller does not know, and gives up.
LoopFails(e) ==
    /\ Goes(e)
    /\ Goto(e, "looping", "broken")
    /\ xfer' = [xfer EXCEPT ![e] = NoXfer]
    /\ UNCHANGED <<sd, aux, conn, open, nonblock, net, listening, told, wire,
                   taken, mem>>

-----------------------------------------------------------------------------
(* The callers, and the network *)

\* accept(): the new socket is in blocking mode.
Accept ==
    /\ At("server", "ready") /\ listening /\ conn = NoFd
    /\ net \in {"established", "finished"}
    /\ \E f \in Fds : Opens("server", f) /\ conn' = f
    /\ nonblock' = [nonblock EXCEPT !["server"] = FALSE]
    /\ UNCHANGED <<call, sd, aux, net, listening, loopVars>>

\* set_block_mode() and set_nonblock_mode() of the connected socket.
SetBlocking(e, blocking) ==
    /\ At(e, "ready") /\ Connected(e)
    /\ nonblock' = [nonblock EXCEPT ![e] = ~blocking]
    /\ UNCHANGED <<call, sd, aux, conn, open, net, listening, loopVars>>

Close(e) ==
    /\ call[e].pc \in {"ready", "broken"}
    /\ Return(e, "closed")
    /\ open' = [open EXCEPT ![e] = IF e = "server" THEN @ \ {sd[e], conn}
                                   ELSE @ \ {sd[e]}]
    /\ sd' = [sd EXCEPT ![e] = NoFd]
    /\ conn' = IF e = "server" THEN NoFd ELSE conn
    /\ net' = Closed(e)
    /\ listening' = (listening /\ e = "client")
    /\ UNCHANGED <<aux, nonblock, loopVars>>

\* The answer to a connect() under way, and a connection that breaks.
Answer ==
    /\ net = "pending"
    /\ net' = IF listening THEN "established" ELSE "refused"
    /\ UNCHANGED <<call, sd, aux, conn, open, nonblock, listening, loopVars>>

Reset ==
    /\ net \in {"established", "finished"}
    /\ net' = "reset"
    /\ UNCHANGED <<call, sd, aux, conn, open, nonblock, listening, loopVars>>

-----------------------------------------------------------------------------

ConnectStep ==
    \/ LookUp \/ Connect \/ ConnectPending \/ CreateEpoll \/ AddToEpoll
    \/ EpollEvent \/ EpollTimeout \/ CheckError \/ WaitFails

CreateStep == ReuseAddress \/ Bind \/ Listen

EitherStep(e) ==
    OpenSocket(e) \/ SetMode(e) \/ OpenFails(e) \/ StepFails(e)
    \/ CloseDirectory(e)

LoopStep(e) ==
    \/ \E n \in 1..Capacity : IF e = "client" THEN Put(n) ELSE Get(n)
    \/ Again(e) \/ (e = "server" /\ EndAgain)
    \/ ReturnCount(e) \/ LoopFails(e)

HelperStep(e) ==
    \/ IF e = "client" THEN ConnectStep ELSE CreateStep
    \/ EitherStep(e) \/ LoopStep(e)

CallerStep(e) ==
    \/ \E type \in {"stream", "dgram"}, nb \in BOOLEAN : Ask(e, type, nb)
    \/ OpenDirectory(e)
    \/ \E fn \in Functions(e), size \in Sizes : BeginLoop(e, fn, size)
    \/ \E blocking \in BOOLEAN : SetBlocking(e, blocking)
    \/ Close(e)

Next ==
    \/ \E e \in Ends : HelperStep(e) \/ CallerStep(e)
    \/ Accept \/ Answer \/ Reset

Spec == Init /\ [][Next]_vars

\* The system call of e's loop can do nothing but fail.
Gone(e) ==
    \/ net = "reset"
    \/ xfer[e].fn = "recv" /\ net = "finished" /\ Len(wire) = taken

\* No signal has to come to the help of a loop.
HelperProgress(e) == HelperStep(e) /\ (call'[e].pc = "broken" => Gone(e))

\* The processes are scheduled and a system call that does not block returns.
FairSpec == Spec /\ \A e \in Ends : WF_vars(HelperProgress(e))

-----------------------------------------------------------------------------
(* Properties *)

\* Whatever fails in a helper, the process has the descriptors its caller was
\* given and no others: none is leaked, and none is closed twice or too early.
DescriptorsBalanced ==
    /\ \A e \in Ends : (e = "client" \/ conn = NoFd) =>
        open[e] = {sd[e], aux[e]} \ {NoFd}
    /\ conn # NoFd => open["server"] = {sd["server"], conn} /\ conn # sd["server"]

\* A stream socket that connect_to_socket() returns is, or was, connected: not
\* refused, and not still under way when the two seconds were over.
ConnectedIsEstablished ==
    call["client"].pc \in {"ready", "looping"} /\ call["client"].type = "stream"
        => net \in {"established", "reset"}

\* The loops keep the promise of ByteStream, whatever their sizes, partial
\* transfers, time-outs and failures.
StreamKept == Stream!Spec

\* Every helper returns, and a loop on a non-blocking socket does, although
\* the peer is silent, full or gone.
HelpersReturn ==
    \A e \in Ends :
        (call[e].pc \in HelperPCs \/ (At(e, "looping") /\ nonblock[e]))
            ~> call[e].pc \in CallerPCs \ {"looping"}
=============================================================================
