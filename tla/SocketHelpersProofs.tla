------------------------- MODULE SocketHelpersProofs -------------------------
(***************************************************************************)
(* What the socket helpers keep for any sizes, attempts, capacities and    *)
(* word widths: the types, the descriptors, the state of a connection that *)
(* connect_to_socket() returns, and the stream of ByteStream.              *)
(***************************************************************************)
EXTENDS SocketHelpers, SequenceTheorems, TLAPS

-----------------------------------------------------------------------------
(* A size_t as an int *)

LEMMA WordHalf ==
    /\ Word \in Nat \ {0}
    /\ Word \div 2 \in Nat \ {0} /\ 2 * (Word \div 2) = Word
BY SocketAssumption

LEMMA DivMod ==
    ASSUME NEW n \in Int
    PROVE  /\ n \div Word \in Int /\ n % Word \in 0..(Word - 1)
           /\ n = Word * (n \div Word) + (n % Word)
BY SocketAssumption

LEMMA ProductNonNegative ==
    ASSUME NEW a \in Int, NEW b \in Int, a >= 0, b >= 0
    PROVE  a * b >= 0
OBVIOUS

LEMMA MultipleAtLeastWord ==
    ASSUME NEW a \in Int, a >= 1
    PROVE  Word * a >= Word
<1>1. Word * (a - 1) >= 0
  BY ProductNonNegative, WordHalf
<1>2. Word * (a - 1) = Word * a - Word
  BY WordHalf
<1>3. QED BY <1>1, <1>2, WordHalf

\* Quotient and remainder are unique.
LEMMA RemainderUnique ==
    ASSUME NEW a \in Int, NEW b \in Int,
           NEW x \in 0..(Word - 1), NEW y \in 0..(Word - 1),
           Word * a + x = Word * b + y
    PROVE  x = y
<1>1. /\ Word * (a - b) = y - x /\ Word * (b - a) = x - y
  BY WordHalf
<1>2. a - b >= 1 => Word * (a - b) >= Word
  BY MultipleAtLeastWord
<1>3. b - a >= 1 => Word * (b - a) >= Word
  BY MultipleAtLeastWord
<1>4. a = b
  BY <1>1, <1>2, <1>3, WordHalf
<1>5. QED BY <1>4, WordHalf

\* A count below half a word comes through whatever multiple of it is added.
LEMMA ToIntOfCount ==
    ASSUME NEW q \in Int, NEW m \in Int, 0 <= m, m < Word \div 2
    PROVE  ToInt(Word * q + m) = m
<1> DEFINE n == Word * q + m
<1>1. n \in Int /\ m \in 0..(Word - 1)
  BY WordHalf
<1> HIDE DEF n
<1>2. Word * (n \div Word) + (n % Word) = Word * q + m
  BY <1>1, DivMod DEF n
<1>3. n % Word = m
  BY <1>1, <1>2, DivMod, RemainderUnique
<1>4. QED BY <1>3 DEF ToInt, n

LEMMA ToIntTyped ==
    ASSUME NEW n \in Int
    PROVE  /\ ToInt(n) \in Int /\ ToInt(n) < Word \div 2
           /\ \E q \in Int : n = Word * q + ToInt(n)
<1>1. CASE n % Word < Word \div 2
  <2>1. ToInt(n) = n % Word
    BY <1>1 DEF ToInt
  <2>2. n = Word * (n \div Word) + ToInt(n) /\ n \div Word \in Int
    BY <2>1, DivMod
  <2>3. ToInt(n) \in Int /\ ToInt(n) < Word \div 2
    BY <1>1, <2>1, DivMod
  <2>4. QED BY <2>2, <2>3
<1>2. CASE ~(n % Word < Word \div 2)
  <2>1. ToInt(n) = (n % Word) - Word
    BY <1>2 DEF ToInt
  <2>2. Word * ((n \div Word) + 1) = Word * (n \div Word) + Word
    BY DivMod, WordHalf
  <2>3. n = Word * ((n \div Word) + 1) + ToInt(n)
    BY <2>1, <2>2, DivMod, WordHalf
  <2>4. (n \div Word) + 1 \in Int
    BY DivMod
  <2>5. ToInt(n) \in Int /\ ToInt(n) < Word \div 2
    BY <2>1, DivMod, WordHalf
  <2>6. QED BY <2>3, <2>4, <2>5
<1>3. QED BY <1>1, <1>2

\* return (buf_len - len) is what was moved, although len is narrower than
\* buf_len and may have been negative from the beginning.
LEMMA ReturnIsMoved ==
    ASSUME NEW size \in Nat, NEW moved \in Nat,
           ToInt(size) - moved >= 0 \/ moved = 0
    PROVE  ToInt(size - (ToInt(size) - moved)) = moved
<1>1. PICK q \in Int : size = Word * q + ToInt(size)
  BY ToIntTyped
<1>2. ToInt(size) \in Int /\ ToInt(size) < Word \div 2
  BY ToIntTyped
<1>3. size - (ToInt(size) - moved) = Word * q + moved
  BY <1>1, <1>2, WordHalf
<1>4. moved < Word \div 2
  BY <1>2, WordHalf
<1>5. QED BY <1>3, <1>4, ToIntOfCount

-----------------------------------------------------------------------------
(* The steps, one by one *)

HelperActions(e) ==
    \/ OpenSocket(e) \/ SetMode(e) \/ OpenFails(e) \/ StepFails(e)
    \/ OpenDirectory(e) \/ CloseDirectory(e)
    \/ \E type \in {"stream", "dgram"}, nb \in BOOLEAN : Ask(e, type, nb)

ClientActions ==
    \/ LookUp \/ Connect \/ ConnectPending \/ CreateEpoll \/ AddToEpoll
    \/ EpollEvent \/ EpollTimeout \/ CheckError \/ WaitFails

LoopActions(e) ==
    \/ \E fn \in Functions(e), size \in Sizes : BeginLoop(e, fn, size)
    \/ \E n \in 1..Capacity : (e = "client" /\ Put(n)) \/ (e = "server" /\ Get(n))
    \/ Again(e) \/ (e = "server" /\ EndAgain) \/ ReturnCount(e) \/ LoopFails(e)

OtherActions ==
    \/ ReuseAddress \/ Bind \/ Listen \/ Accept \/ Answer \/ Reset
    \/ \E e \in Ends, blocking \in BOOLEAN : SetBlocking(e, blocking)
    \/ \E e \in Ends : Close(e)

LEMMA NextActions ==
    ASSUME Next
    PROVE  \/ \E e \in Ends : HelperActions(e) \/ LoopActions(e)
           \/ ClientActions \/ OtherActions
<1>1. "client" \in Ends /\ "server" \in Ends
  BY DEF Ends
<1>2. ASSUME NEW e \in Ends, HelperStep(e)
      PROVE  HelperActions(e) \/ LoopActions(e) \/ ClientActions \/ OtherActions
  BY <1>2 DEF HelperStep, ConnectStep, CreateStep, EitherStep, LoopStep,
     HelperActions, LoopActions, ClientActions, OtherActions, Ends
<1>3. ASSUME NEW e \in Ends, CallerStep(e)
      PROVE  HelperActions(e) \/ LoopActions(e) \/ OtherActions
  BY <1>3 DEF CallerStep, HelperActions, LoopActions, OtherActions
<1>4. QED BY <1>2, <1>3 DEF Next, OtherActions

-----------------------------------------------------------------------------
(* Where the ends are *)

\* End e is at "to" now, for the same type of socket if it still has one.
Moves(e, to) ==
    /\ call' \in [Ends -> Call]
    /\ call'[e].pc = to
    /\ to \notin {"idle", "closed"} => call'[e].type = call[e].type
    /\ \A f \in Ends \ {e} : call'[f] = call[f]

LEMMA GotoMoves ==
    ASSUME TypeOK, NEW e \in Ends, NEW to \in HelperPCs \cup CallerPCs,
           call' = [call EXCEPT ![e].pc = to]
    PROVE  Moves(e, to)
<1>1. call[e] \in Call /\ call \in [Ends -> Call]
  BY DEF TypeOK
<1>2. [call[e] EXCEPT !.pc = to] \in Call
  BY <1>1 DEF Call
<1>3. call' = [call EXCEPT ![e] = [call[e] EXCEPT !.pc = to]]
  OBVIOUS
<1>4. QED BY <1>1, <1>2, <1>3 DEF Moves, Call

LEMMA ReturnMoves ==
    ASSUME TypeOK, NEW e \in Ends, NEW to \in {"idle", "ready", "closed"},
           Return(e, to)
    PROVE  Moves(e, to)
<1> DEFINE type == IF to = "ready" THEN call[e].type ELSE "stream"
           c == [call[e] EXCEPT !.pc = to, !.nb = FALSE, !.type = type]
<1>1. call[e] \in Call /\ call \in [Ends -> Call]
  BY DEF TypeOK
<1>2. c \in Call
  BY <1>1 DEF Call, CallerPCs
<1>3. call' = [call EXCEPT ![e] = c]
  BY DEF Return
<1>4. c.pc = to /\ (to = "ready" => c.type = call[e].type)
  BY <1>1 DEF Call
<1> HIDE DEF c
<1>5. QED BY <1>1, <1>2, <1>3, <1>4 DEF Moves

LEMMA GoesOnMoves ==
    ASSUME TypeOK, NEW e \in Ends, NEW to \in HelperPCs \cup {"ready"},
           NEW from, GoesOn(e, from, to)
    PROVE  Moves(e, to)
BY GotoMoves, ReturnMoves DEF GoesOn, CallerPCs

LEMMA FailMoves ==
    ASSUME TypeOK, NEW e \in Ends, NEW fds, Fail(e, fds)
    PROVE  Moves(e, "idle")
BY ReturnMoves DEF Fail

LEMMA BeginMoves ==
    ASSUME TypeOK, NEW e \in Ends, NEW fn, NEW size, BeginLoop(e, fn, size)
    PROVE  Moves(e, "looping")
<1> DEFINE c == [call[e] EXCEPT !.pc = "looping", !.loops = @ + 1]
<1>1. call[e] \in Call /\ call \in [Ends -> Call]
  BY DEF TypeOK
<1>2. c \in Call /\ c.pc = "looping" /\ c.type = call[e].type
  BY <1>1, SocketAssumption DEF Call, CallerPCs, BeginLoop
<1>3. call' = [call EXCEPT ![e] = c]
  BY DEF BeginLoop
<1> HIDE DEF c
<1>4. QED BY <1>1, <1>2, <1>3 DEF Moves

LEMMA DirectoryMoves ==
    ASSUME TypeOK, NEW e \in Ends, OpenDirectory(e)
    PROVE  Moves(e, "counting")
<1> DEFINE c == [call[e] EXCEPT !.pc = "counting", !.tries = @ + 1]
<1>1. call[e] \in Call /\ call \in [Ends -> Call]
  BY DEF TypeOK
<1>2. c \in Call /\ c.pc = "counting" /\ c.type = call[e].type
  BY <1>1, SocketAssumption DEF Call, HelperPCs, OpenDirectory
<1>3. call' = [call EXCEPT ![e] = c]
  BY DEF OpenDirectory
<1> HIDE DEF c
<1>4. QED BY <1>1, <1>2, <1>3 DEF Moves

\* The first step sets the type, so that only the rest of Moves holds of it.
LEMMA AskMoves ==
    ASSUME TypeOK, NEW e \in Ends, NEW type \in {"stream", "dgram"},
           NEW nb \in BOOLEAN, Ask(e, type, nb)
    PROVE  /\ call' \in [Ends -> Call]
           /\ call'[e].pc = IF e = "client" THEN "lookup" ELSE "socket"
           /\ \A f \in Ends \ {e} : call'[f] = call[f]
<1> DEFINE to == IF e = "client" THEN "lookup" ELSE "socket"
           c == [call[e] EXCEPT !.pc = to, !.type = type, !.nb = nb,
                                !.tries = @ + 1]
<1>1. call[e] \in Call /\ call \in [Ends -> Call]
  BY DEF TypeOK
<1>2. c \in Call /\ c.pc = to
  BY <1>1, SocketAssumption DEF Call, HelperPCs, ConnectPCs, CreatePCs, Ask
<1>3. call' = [call EXCEPT ![e] = c]
  BY DEF Ask
<1> HIDE DEF c
<1>4. QED BY <1>1, <1>2, <1>3

-----------------------------------------------------------------------------
(* The bytes *)

\* The count of what went out or came in is settled, unless the end is in a
\* loop, was told -1, or is through.
Passed == {"looping", "broken", "closed"}

\* The invariant behind the stream: what went out and came in is the writer's
\* text from its beginning; buf points behind what has been moved; and len is
\* what int makes of buf_len, less that.
BytesInPlace ==
    /\ \A k \in 1..Len(wire) : wire[k] = k
    /\ \A k \in 1..Len(mem) : mem[k] = k
    /\ taken = Len(mem) /\ taken <= Len(wire)
    /\ told["client"] \in 0..Len(wire) /\ told["server"] \in 0..taken
    /\ call["client"].pc \notin Passed => told["client"] = Len(wire)
    /\ call["server"].pc \notin Passed => told["server"] = taken
    /\ call["client"].pc = "looping" => xfer["client"].pos = Len(wire)
    /\ call["server"].pc = "looping" => xfer["server"].pos = taken
    /\ \A e \in Ends : call[e].pc = "looping" =>
        /\ xfer[e].pos >= told[e]
        /\ xfer[e].len = ToInt(xfer[e].size) - (xfer[e].pos - told[e])
        /\ xfer[e].len >= 0 \/ xfer[e].pos = told[e]

LEMMA WirePut ==
    ASSUME NEW w \in Seq(Nat), \A k \in 1..Len(w) : w[k] = k, NEW n \in Nat
    PROVE  LET v == w \o [k \in 1..n |-> Len(w) + k]
           IN  /\ v \in Seq(Nat) /\ Len(v) = Len(w) + n
               /\ \A k \in 1..Len(v) : v[k] = k
<1> DEFINE t == [k \in 1..n |-> Len(w) + k]
<1>1. Len(w) \in Nat
  BY LenProperties
<1>2. t \in Seq(Nat) /\ Len(t) = n
  BY <1>1
<1>3. \A k \in 1..n : t[k] = Len(w) + k
  OBVIOUS
<1> HIDE DEF t
<1>4. /\ w \o t \in Seq(Nat) /\ Len(w \o t) = Len(w) + n
      /\ \A k \in 1..(Len(w) + n) :
            (w \o t)[k] = IF k <= Len(w) THEN w[k] ELSE t[k - Len(w)]
  BY <1>2, ConcatProperties
<1>5. \A k \in 1..(Len(w) + n) : (w \o t)[k] = k
  BY <1>1, <1>3, <1>4
<1>6. QED BY <1>4, <1>5 DEF t

LEMMA MemGet ==
    ASSUME NEW w \in Seq(Nat), \A k \in 1..Len(w) : w[k] = k,
           NEW m \in Seq(Nat), \A k \in 1..Len(m) : m[k] = k,
           NEW n \in Nat, Len(m) + n <= Len(w)
    PROVE  LET v == SubSeq(m, 1, Len(m)) \o SubSeq(w, Len(m) + 1, Len(m) + n)
           IN  /\ v \in Seq(Nat) /\ Len(v) = Len(m) + n
               /\ \A k \in 1..Len(v) : v[k] = k
<1> DEFINE t == SubSeq(w, Len(m) + 1, Len(m) + n)
<1>1. Len(w) \in Nat /\ Len(m) \in Nat
  BY LenProperties
<1>2. SubSeq(m, 1, Len(m)) = m
  BY SubSeqFull
<1>3. \A i \in (Len(m) + 1)..(Len(m) + n) : w[i] \in Nat
  BY <1>1
<1>4. /\ t \in Seq(Nat)
      /\ Len(t) = IF Len(m) + 1 <= Len(m) + n
                  THEN (Len(m) + n) - (Len(m) + 1) + 1 ELSE 0
      /\ \A i \in 1..((Len(m) + n) - (Len(m) + 1) + 1) :
            t[i] = w[(Len(m) + 1) + i - 1]
  BY <1>1, <1>3, SubSeqProperties
<1>5. Len(t) = n /\ \A i \in 1..n : t[i] = Len(m) + i
  BY <1>1, <1>4
<1> HIDE DEF t
<1>6. /\ m \o t \in Seq(Nat) /\ Len(m \o t) = Len(m) + n
      /\ \A k \in 1..(Len(m) + n) :
            (m \o t)[k] = IF k <= Len(m) THEN m[k] ELSE t[k - Len(m)]
  BY <1>4, <1>5, ConcatProperties
<1>7. \A k \in 1..(Len(m) + n) : (m \o t)[k] = k
  BY <1>1, <1>5, <1>6
<1>8. QED BY <1>2, <1>6, <1>7 DEF t

LEMMA BytesKept ==
    ASSUME TypeOK, BytesInPlace, UNCHANGED loopVars,
           \A e \in Ends : \/ call'[e].pc = call[e].pc
                           \/ call[e].pc \notin Passed /\ call'[e].pc \notin Passed
                           \/ call'[e].pc = "closed"
    PROVE  BytesInPlace'
<1>1. "client" \in Ends /\ "server" \in Ends
  BY DEF Ends
<1>2. QED BY <1>1 DEF BytesInPlace, loopVars, Passed

-----------------------------------------------------------------------------
(* Types, and the bytes in their places *)

LEMMA OpensFd ==
    ASSUME TypeOK, NEW e \in Ends, NEW f \in Fds, Opens(e, f)
    PROVE  open' \in [Ends -> SUBSET Fds]
BY DEF TypeOK, Opens

LEMMA FailKeeps ==
    ASSUME TypeOK, BytesInPlace, NEW e \in Ends, NEW fds, Fail(e, fds),
           call[e].pc \in HelperPCs
    PROVE  TypeOK' /\ BytesInPlace'
<1>1. Moves(e, "idle")
  BY FailMoves
<1>2. TypeOK'
  BY <1>1 DEF TypeOK, Fail, Moves, Closed, NetStates, loopVars
<1>3. BytesInPlace'
  <2>1. UNCHANGED loopVars
    BY DEF Fail
  <2>2. call[e].pc \notin Passed /\ call'[e].pc \notin Passed
    BY <1>1 DEF Moves, HelperPCs, ConnectPCs, CreatePCs, Passed
  <2>3. QED BY <1>1, <2>1, <2>2, BytesKept DEF Moves
<1>4. QED BY <1>2, <1>3

LEMMA HelperKeeps ==
    ASSUME TypeOK, BytesInPlace, NEW e \in Ends, HelperActions(e)
    PROVE  TypeOK' /\ BytesInPlace'
<1> USE DEF HelperPCs, ConnectPCs, CreatePCs, Passed
<1>1. CASE OpenSocket(e)
  <2>1. PICK to \in {"reuse", "mode", "connect", "ready"} : GoesOn(e, "socket", to)
    BY <1>1 DEF OpenSocket, ModeOr, AfterMode
  <2>2. Moves(e, to) /\ call[e].pc = "socket"
    BY <2>1, GoesOnMoves DEF GoesOn, At
  <2>3. open' \in [Ends -> SUBSET Fds]
    BY <1>1, OpensFd DEF OpenSocket
  <2>4. TypeOK'
    BY <1>1, <2>2, <2>3 DEF TypeOK, OpenSocket, Moves, loopVars
  <2>5. BytesInPlace'
    BY <1>1, <2>2, BytesKept DEF OpenSocket, Moves
  <2>6. QED BY <2>4, <2>5
<1>2. CASE SetMode(e)
  <2>1. PICK to \in {"connect", "ready"} : GoesOn(e, "mode", to)
    BY <1>2 DEF SetMode, AfterMode
  <2>2. Moves(e, to) /\ call[e].pc = "mode"
    BY <2>1, GoesOnMoves DEF GoesOn, At
  <2>3. TypeOK'
    BY <1>2, <2>2 DEF TypeOK, SetMode, Moves, loopVars
  <2>4. BytesInPlace'
    BY <1>2, <2>2, BytesKept DEF SetMode, Moves
  <2>5. QED BY <2>3, <2>4
<1>3. CASE OpenFails(e)
  BY <1>3, FailKeeps DEF OpenFails
<1>4. CASE StepFails(e)
  BY <1>4, FailKeeps DEF StepFails
<1>5. CASE OpenDirectory(e)
  <2>1. Moves(e, "counting") /\ call[e].pc = "idle"
    BY <1>5, DirectoryMoves DEF OpenDirectory, At
  <2>2. open' \in [Ends -> SUBSET Fds]
    BY <1>5, OpensFd DEF OpenDirectory
  <2>3. TypeOK'
    BY <1>5, <2>1, <2>2 DEF TypeOK, OpenDirectory, Moves, loopVars
  <2>4. BytesInPlace'
    BY <1>5, <2>1, BytesKept DEF OpenDirectory, Moves
  <2>5. QED BY <2>3, <2>4
<1>6. CASE CloseDirectory(e)
  <2>1. Moves(e, "idle") /\ call[e].pc = "counting"
    BY <1>6, GotoMoves DEF CloseDirectory, Goto, At, CallerPCs
  <2>2. TypeOK'
    BY <1>6, <2>1 DEF TypeOK, CloseDirectory, Moves, loopVars
  <2>3. BytesInPlace'
    BY <1>6, <2>1, BytesKept DEF CloseDirectory, Moves
  <2>4. QED BY <2>2, <2>3
<1>7. ASSUME NEW type \in {"stream", "dgram"}, NEW nb \in BOOLEAN,
             Ask(e, type, nb)
      PROVE  TypeOK' /\ BytesInPlace'
  <2>1. /\ call' \in [Ends -> Call]
        /\ call'[e].pc \in {"lookup", "socket"} /\ call[e].pc = "idle"
        /\ \A f \in Ends \ {e} : call'[f] = call[f]
    BY <1>7, AskMoves DEF Ask, At
  <2>2. TypeOK'
    BY <1>7, <2>1 DEF TypeOK, Ask, loopVars
  <2>3. BytesInPlace'
    BY <1>7, <2>1, BytesKept DEF Ask
  <2>4. QED BY <2>2, <2>3
<1>8. QED BY <1>1, <1>2, <1>3, <1>4, <1>5, <1>6, <1>7 DEF HelperActions

LEMMA ClientKeeps ==
    ASSUME TypeOK, BytesInPlace, ClientActions
    PROVE  TypeOK' /\ BytesInPlace'
<1> USE DEF HelperPCs, ConnectPCs, CreatePCs, Passed
<1> DEFINE e == "client"
<1>1. e \in Ends
  BY DEF Ends
<1> HIDE DEF e
<1>2. CASE EpollTimeout \/ WaitFails
  BY <1>1, <1>2, FailKeeps DEF EpollTimeout, WaitFails, At, e
<1>3. CASE Connect \/ CheckError
  <2>1. PICK from \in {"connect", "so_error"} : GoesOn(e, from, "ready")
    BY <1>3 DEF Connect, CheckError, e
  <2>2. Moves(e, "ready") /\ call[e].pc \notin Passed
    BY <1>1, <2>1, GoesOnMoves DEF GoesOn, At
  <2>3. TypeOK'
    <3>1. CASE Connect
      BY <2>2, <3>1 DEF TypeOK, Connect, NetStates, Moves, loopVars
    <3>2. CASE CheckError
      BY <2>2, <3>2 DEF TypeOK, CheckError, Moves, loopVars
    <3>3. QED BY <1>3, <3>1, <3>2
  <2>4. BytesInPlace'
    BY <1>3, <2>2, BytesKept DEF Connect, CheckError, Moves
  <2>5. QED BY <2>3, <2>4
<1>4. CASE LookUp \/ ConnectPending \/ CreateEpoll \/ AddToEpoll \/ EpollEvent
  <2>1. PICK from \in ConnectPCs, to \in ConnectPCs : Goto(e, from, to)
    BY <1>4 DEF LookUp, ConnectPending, CreateEpoll, AddToEpoll, EpollEvent, e
  <2>2. Moves(e, to) /\ call[e].pc = from
    BY <1>1, <2>1, GotoMoves DEF Goto, At
  <2>3. open' \in [Ends -> SUBSET Fds]
    BY <1>1, <1>4, OpensFd
    DEF LookUp, ConnectPending, CreateEpoll, AddToEpoll, EpollEvent, TypeOK, e
  <2>4. TypeOK'
    BY <1>4, <2>2, <2>3 DEF TypeOK, LookUp, ConnectPending, CreateEpoll,
       AddToEpoll, EpollEvent, NetStates, Moves, loopVars
  <2>5. BytesInPlace'
    <3>1. UNCHANGED loopVars
      BY <1>4 DEF LookUp, ConnectPending, CreateEpoll, AddToEpoll, EpollEvent
    <3>2. QED BY <2>2, <3>1, BytesKept DEF Moves
  <2>6. QED BY <2>4, <2>5
<1>5. QED BY <1>2, <1>3, <1>4 DEF ClientActions

LEMMA OtherKeeps ==
    ASSUME TypeOK, BytesInPlace, OtherActions
    PROVE  TypeOK' /\ BytesInPlace'
<1> USE DEF HelperPCs, ConnectPCs, CreatePCs, Passed
<1> DEFINE e == "server"
<1>1. e \in Ends
  BY DEF Ends
<1> HIDE DEF e
<1>2. CASE ReuseAddress
  <2>1. Moves(e, "bind") /\ call[e].pc = "reuse"
    BY <1>1, <1>2, GotoMoves DEF ReuseAddress, Goto, At, e
  <2>2. TypeOK'
    BY <1>2, <2>1 DEF TypeOK, ReuseAddress, Moves, loopVars
  <2>3. QED BY <1>2, <2>1, <2>2, BytesKept DEF ReuseAddress, Moves
<1>3. CASE Bind \/ Listen
  <2>1. PICK from \in CreatePCs, to \in {"listen", "mode", "ready"} :
            GoesOn(e, from, to)
    BY <1>3 DEF Bind, Listen, ModeOr, AfterMode, e
  <2>2. Moves(e, to) /\ call[e].pc = from
    BY <1>1, <2>1, GoesOnMoves DEF GoesOn, At
  <2>3. TypeOK'
    BY <1>3, <2>2 DEF TypeOK, Bind, Listen, Moves, loopVars
  <2>4. UNCHANGED loopVars
    BY <1>3 DEF Bind, Listen
  <2>5. QED BY <2>2, <2>3, <2>4, BytesKept DEF Moves
<1>4. CASE Accept
  <2>1. PICK f \in Fds : Opens("server", f) /\ conn' = f
    BY <1>4 DEF Accept
  <2>2. open' \in [Ends -> SUBSET Fds]
    BY <1>1, <2>1, OpensFd DEF e
  <2>3. TypeOK'
    BY <1>4, <2>1, <2>2 DEF TypeOK, Accept, loopVars
  <2>4. QED BY <1>4, <2>3, BytesKept DEF Accept
<1>5. CASE Answer \/ Reset
  <2>1. TypeOK'
    BY <1>5 DEF TypeOK, Answer, Reset, NetStates, loopVars
  <2>2. UNCHANGED loopVars /\ UNCHANGED call
    BY <1>5 DEF Answer, Reset
  <2>3. QED BY <2>1, <2>2, BytesKept
<1>6. ASSUME NEW f \in Ends, NEW blocking \in BOOLEAN, SetBlocking(f, blocking)
      PROVE  TypeOK' /\ BytesInPlace'
  <2>1. TypeOK'
    BY <1>6 DEF TypeOK, SetBlocking, loopVars
  <2>2. QED BY <1>6, <2>1, BytesKept DEF SetBlocking
<1>7. ASSUME NEW f \in Ends, Close(f)
      PROVE  TypeOK' /\ BytesInPlace'
  <2>1. Moves(f, "closed")
    BY <1>7, ReturnMoves DEF Close
  <2>2. TypeOK'
    BY <1>7, <2>1 DEF TypeOK, Close, Closed, NetStates, Moves, loopVars
  <2>3. QED BY <1>7, <2>1, <2>2, BytesKept DEF Close, Moves
<1>8. QED BY <1>2, <1>3, <1>4, <1>5, <1>6, <1>7 DEF OtherActions

\* buf is moved: the caller's count and int's idea of buf_len still agree.
LEMMA MovedXfer ==
    ASSUME TypeOK, BytesInPlace, NEW e \in Ends, NEW n \in Nat, Goes(e),
           n <= xfer[e].len, Moved(e, n)
    PROVE  /\ xfer' \in [Ends -> Xfer]
           /\ xfer'[e].pos = xfer[e].pos + n
           /\ xfer'[e].len = xfer[e].len - n /\ xfer'[e].size = xfer[e].size
           /\ \A f \in Ends \ {e} : xfer'[f] = xfer[f]
<1> DEFINE x == [xfer[e] EXCEPT !.len = @ - n, !.tries = @ - 1, !.pos = @ + n]
<1>1. xfer[e] \in Xfer /\ xfer \in [Ends -> Xfer]
  BY DEF TypeOK
<1>2. xfer' = [xfer EXCEPT ![e] = x]
  BY DEF Moved
<1>3. /\ x.fn = xfer[e].fn /\ x.size = xfer[e].size
      /\ x.len = xfer[e].len - n /\ x.tries = xfer[e].tries - 1
      /\ x.pos = xfer[e].pos + n
  BY <1>1 DEF Xfer
<1>4. x \in Xfer
  <2>1. /\ xfer[e].len - n \in Int /\ xfer[e].pos + n \in Nat
        /\ xfer[e].tries - 1 \in 0..Attempts
    BY <1>1, SocketAssumption DEF Xfer, Goes
  <2>2. QED BY <1>1, <2>1 DEF Xfer
<1> HIDE DEF x
<1>5. QED BY <1>1, <1>2, <1>3, <1>4

LEMMA BeginKeeps ==
    ASSUME TypeOK, BytesInPlace, NEW e \in Ends, NEW fn \in Functions(e),
           NEW size \in Sizes, BeginLoop(e, fn, size)
    PROVE  TypeOK' /\ BytesInPlace'
<1> DEFINE x == [fn |-> fn, size |-> size, len |-> ToInt(size),
                 tries |-> Attempts, pos |-> told[e]]
<1>1. size \in Nat /\ ToInt(size) \in Int
  BY ToIntTyped, SocketAssumption
<1>2. Moves(e, "looping") /\ call[e].pc = "ready"
  BY BeginMoves DEF BeginLoop, At
<1>3. /\ told["client"] = Len(wire) \/ e = "server"
      /\ told["server"] = taken \/ e = "client"
      /\ Len(wire) \in Nat
  BY <1>2 DEF BytesInPlace, TypeOK, Passed, Ends
<1>4. told[e] \in Nat
  BY <1>3 DEF TypeOK, Ends
<1>5. x \in Xfer /\ xfer' = [xfer EXCEPT ![e] = x]
  BY <1>1, <1>4, SocketAssumption DEF BeginLoop, Xfer, Functions
<1>6. TypeOK'
  BY <1>2, <1>5 DEF TypeOK, BeginLoop, Moves
<1>7. /\ x.pos = told[e] /\ x.len = ToInt(x.size)
      /\ xfer'[e] = x /\ \A f \in Ends \ {e} : xfer'[f] = xfer[f]
  BY <1>5 DEF TypeOK
<1>8. UNCHANGED <<told, wire, taken, mem>>
  BY DEF BeginLoop
<1> HIDE DEF x
<1>9. \A f \in Ends : call'[f].pc = "looping" =>
        /\ xfer'[f].pos >= told[f]
        /\ xfer'[f].len = ToInt(xfer'[f].size) - (xfer'[f].pos - told[f])
        /\ xfer'[f].len >= 0 \/ xfer'[f].pos = told[f]
  <2>1. CASE TRUE
    <3>1. TAKE f \in Ends
    <3>2. CASE f = e
      <4>1. x.size \in Nat
        BY <1>5 DEF Xfer
      <4>2. ToInt(x.size) \in Int
        BY <4>1, ToIntTyped
      <4>3. QED BY <1>4, <1>7, <3>2, <4>2
    <3>3. CASE f # e
      BY <1>2, <1>7, <3>3 DEF BytesInPlace, Moves
    <3>4. QED BY <3>2, <3>3
  <2>2. QED BY <2>1
<1>10. /\ "client" \in Ends /\ "server" \in Ends /\ Ends = {"client", "server"}
  BY DEF Ends
<1>11. BytesInPlace'
  BY <1>2, <1>3, <1>7, <1>8, <1>9, <1>10 DEF BytesInPlace, Moves, Passed
<1>12. QED BY <1>6, <1>11

LEMMA CountKept ==
    ASSUME NEW len \in Int, NEW pos \in Nat, NEW count \in Int, NEW size \in Int,
           NEW n \in Nat, pos >= count, len = size - (pos - count), n <= len
    PROVE  /\ pos + n >= count /\ len - n >= 0
           /\ len - n = size - ((pos + n) - count)
OBVIOUS

LEMMA PutKeeps ==
    ASSUME TypeOK, BytesInPlace, NEW n \in 1..Capacity, Put(n)
    PROVE  TypeOK' /\ BytesInPlace' /\ Len(wire') = Len(wire) + n
<1> DEFINE e == "client"
<1>1. e \in Ends /\ Ends = {e, "server"} /\ e # "server" /\ n \in Nat
  BY SocketAssumption DEF Ends
<1>2. call[e].pc = "looping" /\ xfer[e].pos = Len(wire) /\ Len(wire) \in Nat
  BY DEF Put, Goes, At, BytesInPlace, TypeOK
<1>3. wire' = wire \o [k \in 1..n |-> Len(wire) + k]
  BY <1>2 DEF Put
<1>4. /\ wire' \in Seq(Nat) /\ Len(wire') = Len(wire) + n
      /\ \A k \in 1..Len(wire') : wire'[k] = k
  BY <1>1, <1>3, WirePut DEF TypeOK, BytesInPlace
<1>5. /\ xfer' \in [Ends -> Xfer]
      /\ xfer'[e].pos = xfer[e].pos + n
      /\ xfer'[e].len = xfer[e].len - n /\ xfer'[e].size = xfer[e].size
      /\ \A f \in Ends \ {e} : xfer'[f] = xfer[f]
  BY <1>1, MovedXfer DEF Put
<1>6. UNCHANGED <<helperVars, told, taken, mem>> /\ n <= xfer[e].len
  BY DEF Put
<1>7. TypeOK'
  BY <1>4, <1>5, <1>6 DEF TypeOK, helperVars
<1>8. /\ xfer[e].pos >= told[e]
      /\ xfer[e].len = ToInt(xfer[e].size) - (xfer[e].pos - told[e])
  BY <1>1, <1>2 DEF BytesInPlace
<1>9. /\ xfer[e].len \in Int /\ xfer[e].pos \in Nat /\ told[e] \in Int
      /\ ToInt(xfer[e].size) \in Int
  <2>1. xfer[e] \in Xfer /\ told[e] \in Int
    BY <1>1 DEF TypeOK
  <2>2. xfer[e].size \in Int
    BY <2>1 DEF Xfer
  <2>3. QED BY <2>1, <2>2, ToIntTyped DEF Xfer
<1>10. /\ xfer'[e].pos >= told[e] /\ xfer'[e].len >= 0
       /\ xfer'[e].len = ToInt(xfer'[e].size) - (xfer'[e].pos - told[e])
       /\ xfer'[e].pos = Len(wire')
  <2>1. /\ xfer[e].pos + n >= told[e] /\ xfer[e].len - n >= 0
        /\ xfer[e].len - n
             = ToInt(xfer[e].size) - ((xfer[e].pos + n) - told[e])
    BY <1>1, <1>6, <1>8, <1>9, CountKept
  <2>2. xfer[e].pos + n = Len(wire')
    BY <1>2, <1>4
  <2>3. QED BY <1>5, <2>1, <2>2
<1>11. BytesInPlace'
  <2>1. /\ call' = call /\ told' = told /\ taken' = taken /\ mem' = mem
    BY <1>6 DEF helperVars
  <2>2. \A f \in Ends : call'[f].pc = "looping" =>
          /\ xfer'[f].pos >= told'[f]
          /\ xfer'[f].len = ToInt(xfer'[f].size) - (xfer'[f].pos - told'[f])
          /\ xfer'[f].len >= 0 \/ xfer'[f].pos = told'[f]
    <3> TAKE f \in Ends
    <3>1. CASE f = e
      BY <1>10, <2>1, <3>1
    <3>2. CASE f # e
      BY <1>5, <2>1, <3>2 DEF BytesInPlace
    <3>3. QED BY <3>1, <3>2
  <2>3. told["client"] \in 0..(Len(wire) + n) /\ taken <= Len(wire) + n
    BY <1>2, <2>1 DEF BytesInPlace, TypeOK, Passed
  <2>4. QED BY <1>1, <1>2, <1>4, <1>5, <1>10, <2>1, <2>2, <2>3
        DEF BytesInPlace, Passed
<1>12. QED BY <1>4, <1>7, <1>11

LEMMA GetKeeps ==
    ASSUME TypeOK, BytesInPlace, NEW n \in 1..Capacity, Get(n)
    PROVE  /\ TypeOK' /\ BytesInPlace' /\ Len(mem') = Len(mem) + n
<1> DEFINE e == "server"
<1>1. e \in Ends /\ Ends = {"client", e} /\ e # "client" /\ n \in Nat
  BY SocketAssumption DEF Ends
<1>2. /\ call[e].pc = "looping" /\ xfer[e].pos = taken /\ taken = Len(mem)
      /\ Len(wire) \in Nat /\ Len(mem) \in Nat
  BY DEF Get, Goes, At, BytesInPlace, TypeOK
<1>3. /\ mem' = SubSeq(mem, 1, Len(mem))
                  \o SubSeq(wire, Len(mem) + 1, Len(mem) + n)
      /\ taken' = taken + n /\ Len(mem) + n <= Len(wire)
  BY <1>1, <1>2 DEF Get
<1>4. /\ mem' \in Seq(Nat) /\ Len(mem') = Len(mem) + n
      /\ \A k \in 1..Len(mem') : mem'[k] = k
  <2>1. /\ wire \in Seq(Nat) /\ mem \in Seq(Nat)
        /\ \A k \in 1..Len(wire) : wire[k] = k
        /\ \A k \in 1..Len(mem) : mem[k] = k
    BY DEF TypeOK, BytesInPlace
  <2>2. QED BY <1>1, <1>3, <2>1, MemGet
<1>5. /\ xfer' \in [Ends -> Xfer]
      /\ xfer'[e].pos = xfer[e].pos + n
      /\ xfer'[e].len = xfer[e].len - n /\ xfer'[e].size = xfer[e].size
      /\ \A f \in Ends \ {e} : xfer'[f] = xfer[f]
  BY <1>1, MovedXfer DEF Get
<1>6. UNCHANGED <<helperVars, told, wire>> /\ n <= xfer[e].len
  BY DEF Get
<1>7. TypeOK'
  BY <1>1, <1>3, <1>4, <1>5, <1>6 DEF TypeOK, helperVars
<1>8. /\ xfer[e].pos >= told[e]
      /\ xfer[e].len = ToInt(xfer[e].size) - (xfer[e].pos - told[e])
  BY <1>1, <1>2 DEF BytesInPlace
<1>9. /\ xfer[e].len \in Int /\ xfer[e].pos \in Nat /\ told[e] \in Int
      /\ ToInt(xfer[e].size) \in Int
  <2>1. xfer[e] \in Xfer /\ told[e] \in Int
    BY <1>1 DEF TypeOK
  <2>2. xfer[e].size \in Int
    BY <2>1 DEF Xfer
  <2>3. QED BY <2>1, <2>2, ToIntTyped DEF Xfer
<1>10. /\ xfer'[e].pos >= told[e] /\ xfer'[e].len >= 0
       /\ xfer'[e].len = ToInt(xfer'[e].size) - (xfer'[e].pos - told[e])
       /\ xfer'[e].pos = taken'
  <2>1. /\ xfer[e].pos + n >= told[e] /\ xfer[e].len - n >= 0
        /\ xfer[e].len - n
             = ToInt(xfer[e].size) - ((xfer[e].pos + n) - told[e])
    BY <1>1, <1>6, <1>8, <1>9, CountKept
  <2>2. xfer[e].pos + n = taken'
    BY <1>2, <1>3
  <2>3. QED BY <1>5, <2>1, <2>2
<1>11. BytesInPlace'
  <2>1. /\ call' = call /\ told' = told /\ wire' = wire
    BY <1>6 DEF helperVars
  <2>2. \A f \in Ends : call'[f].pc = "looping" =>
          /\ xfer'[f].pos >= told'[f]
          /\ xfer'[f].len = ToInt(xfer'[f].size) - (xfer'[f].pos - told'[f])
          /\ xfer'[f].len >= 0 \/ xfer'[f].pos = told'[f]
    <3> TAKE f \in Ends
    <3>1. CASE f = e
      BY <1>10, <2>1, <3>1
    <3>2. CASE f # e
      BY <1>5, <2>1, <3>2 DEF BytesInPlace
    <3>3. QED BY <3>1, <3>2
  <2>3. told["server"] \in 0..(taken + n)
    BY <1>2, <2>1 DEF BytesInPlace, TypeOK, Passed
  <2>4. QED BY <1>1, <1>2, <1>3, <1>4, <1>5, <1>10, <2>1, <2>2, <2>3
        DEF BytesInPlace, Passed
<1>12. QED BY <1>4, <1>7, <1>11

LEMMA WaitKeeps ==
    ASSUME TypeOK, BytesInPlace, NEW e \in Ends,
           Again(e) \/ (e = "server" /\ EndAgain)
    PROVE  TypeOK' /\ BytesInPlace'
<1> DEFINE x == [xfer[e] EXCEPT !.tries = @ - 1]
<1>1. xfer[e] \in Xfer /\ xfer \in [Ends -> Xfer]
  BY DEF TypeOK
<1>2. /\ xfer' = [xfer EXCEPT ![e] = x] /\ xfer[e].tries > 0
      /\ UNCHANGED <<helperVars, told, wire, taken, mem>>
  BY DEF Again, EndAgain, Waited, Goes
<1>3. /\ x.fn = xfer[e].fn /\ x.size = xfer[e].size
      /\ x.len = xfer[e].len /\ x.pos = xfer[e].pos
      /\ x.tries = xfer[e].tries - 1
  BY <1>1 DEF Xfer
<1>4. x \in Xfer
  <2>1. xfer[e].tries - 1 \in 0..Attempts
    BY <1>1, <1>2, SocketAssumption DEF Xfer
  <2>2. QED BY <1>1, <2>1 DEF Xfer
<1> HIDE DEF x
<1>5. TypeOK'
  BY <1>1, <1>2, <1>4 DEF TypeOK, helperVars
<1>6. \A f \in Ends : /\ xfer'[f].pos = xfer[f].pos /\ xfer'[f].len = xfer[f].len
                      /\ xfer'[f].size = xfer[f].size
  BY <1>1, <1>2, <1>3
<1>7. UNCHANGED <<call, told, wire, taken, mem>>
  BY <1>2 DEF helperVars
<1>8. "client" \in Ends /\ "server" \in Ends
  BY DEF Ends
<1>9. BytesInPlace'
  BY <1>6, <1>7, <1>8 DEF BytesInPlace
<1>10. QED BY <1>5, <1>9

\* What a loop returns is what it has moved.
LEMMA ReturnKeeps ==
    ASSUME TypeOK, BytesInPlace, NEW e \in Ends, ReturnCount(e)
    PROVE  /\ TypeOK' /\ BytesInPlace'
           /\ told' = [told EXCEPT ![e] = xfer[e].pos]
<1> DEFINE x == xfer[e]
           moved == x.pos - told[e]
<1>1. Moves(e, "ready") /\ call[e].pc = "looping"
  BY GotoMoves DEF ReturnCount, Goto, At, CallerPCs
<1>2. x \in Xfer /\ told[e] \in Int /\ told \in [Ends -> Int]
  BY DEF TypeOK
<1>3. /\ x.pos >= told[e] /\ x.len = ToInt(x.size) - moved
      /\ x.len >= 0 \/ x.pos = told[e]
  BY <1>1 DEF BytesInPlace
<1>4. x.size \in Nat /\ moved \in Nat /\ told[e] + moved = x.pos
  BY <1>2, <1>3 DEF Xfer
<1>5. ToInt(x.size) - moved >= 0 \/ moved = 0
  BY <1>2, <1>3 DEF Xfer
<1>6. ToInt(x.size - x.len) = moved
  <2> HIDE DEF moved, x
  <2>1. ToInt(x.size - (ToInt(x.size) - moved)) = moved
    BY <1>4, <1>5, ReturnIsMoved
  <2>2. QED BY <1>3, <2>1
<1>7. told' = [told EXCEPT ![e] = x.pos]
  <2>1. told' = [told EXCEPT ![e] = told[e] + ToInt(x.size - x.len)]
    BY DEF ReturnCount
  <2>2. QED BY <1>4, <1>6, <2>1
<1>8. TypeOK'
  <2>1. NoXfer \in Xfer
    BY SocketAssumption DEF NoXfer, Xfer
  <2>2. x.pos \in Int
    BY <1>2 DEF Xfer
  <2>3. QED BY <1>1, <1>2, <1>7, <2>1, <2>2 DEF TypeOK, ReturnCount, Moves
<1>9. BytesInPlace'
  <2>1. /\ UNCHANGED <<wire, taken, mem>>
        /\ \A f \in Ends \ {e} : told'[f] = told[f] /\ xfer'[f] = xfer[f]
        /\ told'[e] = x.pos
    BY <1>2, <1>7 DEF ReturnCount, TypeOK
  <2>2. Len(wire) \in Nat /\ Len(mem) \in Nat
    BY DEF TypeOK
  <2>3. CASE e = "client"
    BY <1>1, <2>1, <2>2, <2>3 DEF BytesInPlace, Moves, Ends, Passed
  <2>4. CASE e = "server"
    BY <1>1, <2>1, <2>2, <2>4 DEF BytesInPlace, Moves, Ends, Passed
  <2>5. QED BY <2>3, <2>4 DEF Ends
<1>10. QED BY <1>7, <1>8, <1>9

LEMMA LoopFailsKeeps ==
    ASSUME TypeOK, BytesInPlace, NEW e \in Ends, LoopFails(e)
    PROVE  TypeOK' /\ BytesInPlace'
<1>1. Moves(e, "broken") /\ call[e].pc = "looping"
  BY GotoMoves DEF LoopFails, Goto, At, CallerPCs
<1>2. NoXfer \in Xfer
  BY SocketAssumption DEF NoXfer, Xfer
<1>3. TypeOK'
  BY <1>1, <1>2 DEF TypeOK, LoopFails, Moves
<1>4. /\ UNCHANGED <<told, wire, taken, mem>>
      /\ \A f \in Ends \ {e} : xfer'[f] = xfer[f]
  BY DEF LoopFails, TypeOK
<1>5. BytesInPlace'
  BY <1>1, <1>4 DEF BytesInPlace, Moves, Ends, Passed
<1>6. QED BY <1>3, <1>5

LEMMA LoopKeeps ==
    ASSUME TypeOK, BytesInPlace, NEW e \in Ends, LoopActions(e)
    PROVE  TypeOK' /\ BytesInPlace'
<1>1. ASSUME NEW fn \in Functions(e), NEW size \in Sizes, BeginLoop(e, fn, size)
      PROVE  TypeOK' /\ BytesInPlace'
  BY <1>1, BeginKeeps
<1>2. ASSUME NEW n \in 1..Capacity, Put(n)
      PROVE  TypeOK' /\ BytesInPlace'
  BY <1>2, PutKeeps
<1>3. ASSUME NEW n \in 1..Capacity, Get(n)
      PROVE  TypeOK' /\ BytesInPlace'
  BY <1>3, GetKeeps
<1>4. CASE Again(e) \/ (e = "server" /\ EndAgain)
  BY <1>4, WaitKeeps
<1>5. CASE ReturnCount(e)
  BY <1>5, ReturnKeeps
<1>6. CASE LoopFails(e)
  BY <1>6, LoopFailsKeeps
<1>7. CASE \E n \in 1..Capacity : (e = "client" /\ Put(n)) \/ (e = "server" /\ Get(n))
  BY <1>2, <1>3, <1>7
<1>8. CASE \E fn \in Functions(e), size \in Sizes : BeginLoop(e, fn, size)
  BY <1>1, <1>8
<1>9. QED BY <1>4, <1>5, <1>6, <1>7, <1>8, Zenon DEF LoopActions

LEMMA NextKeeps ==
    ASSUME TypeOK, BytesInPlace, [Next]_vars
    PROVE  TypeOK' /\ BytesInPlace'
<1>1. CASE Next
  BY <1>1, NextActions, HelperKeeps, LoopKeeps, ClientKeeps, OtherKeeps
<1>2. CASE UNCHANGED vars
  <2>1. TypeOK'
    BY <1>2 DEF TypeOK, vars, helperVars, loopVars
  <2>2. QED BY <1>2, <2>1, BytesKept DEF vars, helperVars
<1>3. QED BY <1>1, <1>2

LEMMA InitKeeps ==
    ASSUME Init
    PROVE  TypeOK /\ BytesInPlace
<1>1. NoXfer \in Xfer
  BY SocketAssumption DEF NoXfer, Xfer
<1>2. TypeOK
  <2>1. [pc |-> "idle", type |-> "stream", nb |-> FALSE, tries |-> 0, loops |-> 0]
            \in Call
    BY SocketAssumption DEF Call, CallerPCs
  <2>2. /\ call \in [Ends -> Call] /\ xfer \in [Ends -> Xfer]
        /\ open \in [Ends -> SUBSET Fds]
    BY <1>1, <2>1 DEF Init
  <2>3. wire \in Seq(Nat) /\ mem \in Seq(Nat)
    BY EmptySeq DEF Init
  <2>4. /\ sd \in [Ends -> Fds \cup {NoFd}] /\ aux \in [Ends -> Fds \cup {NoFd}]
        /\ conn \in Fds \cup {NoFd} /\ nonblock \in [Ends -> BOOLEAN]
    BY DEF Init
  <2>5. /\ net \in NetStates /\ listening \in BOOLEAN
        /\ taken \in Nat
    BY DEF Init, NetStates
  <2>6. told \in [Ends -> Int]
    BY DEF Init
  <2>7. QED BY <2>2, <2>3, <2>4, <2>5, <2>6 DEF TypeOK
<1>3. Len(wire) = 0 /\ Len(mem) = 0
  BY DEF Init
<1>4. BytesInPlace
  BY <1>3 DEF Init, BytesInPlace, Ends
<1>5. QED BY <1>2, <1>4

\* The inductive invariant of the loops: types, and every byte in its place,
\* for any sizes, short transfers and failures, and for any width of an int.
THEOREM BytesInvariant == Spec => [](TypeOK /\ BytesInPlace)
<1>1. TypeOK /\ BytesInPlace /\ [Next]_vars => (TypeOK /\ BytesInPlace)'
  BY NextKeeps
<1>2. QED BY InitKeeps, <1>1, PTL DEF Spec

\* Every variable keeps its type.
THEOREM TypeCorrect == Spec => []TypeOK
BY BytesInvariant, PTL

-----------------------------------------------------------------------------
(* The descriptors *)

HoldsSocket == {"mode", "connect", "epoll_create", "epoll_ctl", "epoll_wait",
                "so_error", "reuse", "bind", "listen", "ready", "looping",
                "broken"}
HoldsAux == {"epoll_ctl", "epoll_wait", "so_error", "counting"}

\* The invariant behind DescriptorsBalanced: which descriptors there are
\* follows from how far the helpers are.
DescriptorsKnown ==
    /\ \A e \in Ends : /\ sd[e] # NoFd <=> call[e].pc \in HoldsSocket
                       /\ aux[e] # NoFd <=> call[e].pc \in HoldsAux
                       /\ sd[e] # NoFd => sd[e] # aux[e]
    /\ conn # NoFd => /\ call["server"].pc \in {"ready", "looping", "broken"}
                      /\ conn # sd["server"]
    /\ open["client"] = {sd["client"], aux["client"]} \ {NoFd}
    /\ open["server"] = {sd["server"], aux["server"], conn} \ {NoFd}

\* What a step of end e has to do for it.
DescriptorsOf(e) ==
    /\ sd'[e] # NoFd <=> call'[e].pc \in HoldsSocket
    /\ aux'[e] # NoFd <=> call'[e].pc \in HoldsAux
    /\ sd'[e] # NoFd => sd'[e] # aux'[e]
    /\ e = "server" =>
        /\ conn' # NoFd => /\ call'[e].pc \in {"ready", "looping", "broken"}
                           /\ conn' # sd'[e]
        /\ open'[e] = {sd'[e], aux'[e], conn'} \ {NoFd}
    /\ e = "client" =>
        conn' = conn /\ open'[e] = {sd'[e], aux'[e]} \ {NoFd}
    /\ \A f \in Ends \ {e} : /\ call'[f] = call[f] /\ sd'[f] = sd[f]
                             /\ aux'[f] = aux[f] /\ open'[f] = open[f]

LEMMA StepBalances ==
    ASSUME DescriptorsKnown, NEW e \in Ends, DescriptorsOf(e)
    PROVE  DescriptorsKnown'
BY DEF DescriptorsKnown, DescriptorsOf, Ends

\* Where nothing is opened or closed the end only has to keep what it needs.
LEMMA GotoBalances ==
    ASSUME TypeOK, DescriptorsKnown, NEW e \in Ends, NEW to, Moves(e, to),
           UNCHANGED <<sd, aux, conn, open>>,
           call[e].pc \in HoldsSocket <=> to \in HoldsSocket,
           call[e].pc \in HoldsAux <=> to \in HoldsAux,
           call[e].pc \in {"ready", "looping", "broken"}
              => to \in {"ready", "looping", "broken"}
    PROVE  DescriptorsKnown'
<1>1. DescriptorsOf(e)
  BY DEF DescriptorsKnown, DescriptorsOf, Moves, Ends
<1>2. QED BY <1>1, StepBalances

LEMMA FdIsReal ==
    ASSUME NEW f \in Fds
    PROVE  f # NoFd
BY SocketAssumption DEF Fds

\* A helper that fails has closed what it had opened.
LEMMA FailBalances ==
    ASSUME TypeOK, DescriptorsKnown, NEW e \in Ends, NEW fds, Fail(e, fds),
           call[e].pc \in HelperPCs,
           {sd[e], aux[e]} \ {NoFd} \subseteq fds
    PROVE  DescriptorsKnown'
<1>1. Moves(e, "idle")
  BY FailMoves
<1>2. e = "server" => conn = NoFd
  BY DEF DescriptorsKnown, HelperPCs, ConnectPCs, CreatePCs
<1>3. open[e] = {sd[e], aux[e]} \ {NoFd}
  BY <1>2 DEF DescriptorsKnown, Ends
<1>4. /\ open'[e] = {} /\ sd'[e] = NoFd /\ aux'[e] = NoFd /\ conn' = conn
      /\ \A f \in Ends \ {e} :
            open'[f] = open[f] /\ sd'[f] = sd[f] /\ aux'[f] = aux[f]
  BY <1>3 DEF Fail, TypeOK
<1>5. DescriptorsOf(e)
  BY <1>1, <1>2, <1>4 DEF DescriptorsOf, Moves, HoldsSocket, HoldsAux
<1>6. QED BY <1>5, StepBalances

LEMMA OpenSocketBalances ==
    ASSUME TypeOK, DescriptorsKnown, NEW e \in Ends, OpenSocket(e)
    PROVE  DescriptorsKnown'
<1> USE DEF HoldsSocket, HoldsAux
<1>1. PICK to \in {"reuse", "mode", "connect", "ready"} : GoesOn(e, "socket", to)
  BY DEF OpenSocket, ModeOr, AfterMode
<1>2. Moves(e, to) /\ call[e].pc = "socket"
  BY <1>1, GoesOnMoves DEF GoesOn, At, HelperPCs, ConnectPCs, CreatePCs
<1>3. PICK f \in Fds : Opens(e, f) /\ sd' = [sd EXCEPT ![e] = f]
  BY DEF OpenSocket
<1>4. /\ sd[e] = NoFd /\ aux[e] = NoFd /\ open[e] = {}
      /\ e = "server" => conn = NoFd
  BY <1>2 DEF DescriptorsKnown, Ends
<1>5. /\ open'[e] = {f} /\ sd'[e] = f /\ aux' = aux /\ conn' = conn
      /\ \A g \in Ends \ {e} : open'[g] = open[g] /\ sd'[g] = sd[g]
  BY <1>3, <1>4 DEF Opens, OpenSocket, TypeOK
<1>6. f # NoFd
  BY FdIsReal
<1>7. DescriptorsOf(e)
  BY <1>2, <1>4, <1>5, <1>6 DEF DescriptorsOf, Moves
<1>8. QED BY <1>7, StepBalances

\* epoll_create() and opendir().
LEMMA OpenAuxBalances ==
    ASSUME TypeOK, DescriptorsKnown, NEW e \in Ends,
           OpenDirectory(e) \/ (e = "client" /\ CreateEpoll)
    PROVE  DescriptorsKnown'
<1> USE DEF HoldsSocket, HoldsAux
<1>1. PICK to \in {"counting", "epoll_ctl"} :
          /\ Moves(e, to)
          /\ call[e].pc = IF to = "counting" THEN "idle" ELSE "epoll_create"
  BY DirectoryMoves, GotoMoves
  DEF OpenDirectory, CreateEpoll, Goto, At, HelperPCs, ConnectPCs
<1>2. PICK f \in Fds : Opens(e, f) /\ aux' = [aux EXCEPT ![e] = f]
  BY DEF OpenDirectory, CreateEpoll
<1>3. /\ aux[e] = NoFd /\ open[e] = {sd[e]} \ {NoFd}
      /\ sd[e] # NoFd <=> to = "epoll_ctl"
      /\ e = "server" => conn = NoFd
  BY <1>1 DEF DescriptorsKnown, Ends
<1>4. /\ open'[e] = open[e] \cup {f} /\ aux'[e] = f /\ f \notin open[e]
      /\ sd' = sd /\ conn' = conn
      /\ \A g \in Ends \ {e} : open'[g] = open[g] /\ aux'[g] = aux[g]
  BY <1>2 DEF Opens, OpenDirectory, CreateEpoll, TypeOK
<1>5. f # NoFd
  BY FdIsReal
<1>6. DescriptorsOf(e)
  BY <1>1, <1>3, <1>4, <1>5 DEF DescriptorsOf, Moves
<1>7. QED BY <1>6, StepBalances

\* close() of the epoll descriptor, and closedir().
LEMMA CloseAuxBalances ==
    ASSUME TypeOK, DescriptorsKnown, NEW e \in Ends,
           CloseDirectory(e) \/ (e = "client" /\ CheckError)
    PROVE  DescriptorsKnown'
<1> USE DEF HoldsSocket, HoldsAux
<1>1. PICK to \in {"idle", "ready"} :
          /\ Moves(e, to)
          /\ call[e].pc = IF to = "idle" THEN "counting" ELSE "so_error"
  BY GotoMoves, GoesOnMoves
  DEF CloseDirectory, CheckError, Goto, GoesOn, At, CallerPCs
<1>2. /\ aux[e] # NoFd /\ aux[e] # sd[e]
      /\ sd[e] # NoFd <=> to = "ready"
      /\ e = "server" => conn = NoFd
      /\ open[e] = {sd[e], aux[e]} \ {NoFd}
  BY <1>1 DEF DescriptorsKnown, Ends
<1>3. /\ open'[e] = open[e] \ {aux[e]} /\ aux'[e] = NoFd
      /\ sd' = sd /\ conn' = conn
      /\ \A g \in Ends \ {e} : open'[g] = open[g] /\ aux'[g] = aux[g]
  BY DEF CloseDirectory, CheckError, TypeOK
<1>4. DescriptorsOf(e)
  BY <1>1, <1>2, <1>3 DEF DescriptorsOf, Moves
<1>5. QED BY <1>4, StepBalances

LEMMA UntouchedBalances ==
    ASSUME DescriptorsKnown, UNCHANGED <<call, sd, aux, conn, open>>
    PROVE  DescriptorsKnown'
BY DEF DescriptorsKnown

LEMMA HelperBalances ==
    ASSUME TypeOK, DescriptorsKnown, NEW e \in Ends, HelperActions(e)
    PROVE  DescriptorsKnown'
<1> USE DEF HelperPCs, ConnectPCs, CreatePCs, HoldsSocket, HoldsAux
<1>1. CASE SetMode(e)
  <2>1. PICK to \in {"connect", "ready"} : GoesOn(e, "mode", to)
    BY <1>1 DEF SetMode, AfterMode
  <2>2. Moves(e, to) /\ call[e].pc = "mode"
    BY <2>1, GoesOnMoves DEF GoesOn, At
  <2>3. UNCHANGED <<sd, aux, conn, open>>
    BY <1>1 DEF SetMode
  <2>4. QED BY <2>2, <2>3, GotoBalances
<1>2. CASE OpenFails(e)
  <2>1. Fail(e, {}) /\ call[e].pc \in {"lookup", "socket"}
    BY <1>2 DEF OpenFails
  <2>2. sd[e] = NoFd /\ aux[e] = NoFd
    BY <2>1 DEF DescriptorsKnown
  <2>3. QED BY <2>1, <2>2, FailBalances
<1>3. CASE StepFails(e)
  <2>1. /\ Fail(e, {sd[e]})
        /\ call[e].pc \in {"mode", "connect", "epoll_create", "reuse", "bind",
                           "listen"}
    BY <1>3 DEF StepFails
  <2>2. aux[e] = NoFd
    BY <2>1 DEF DescriptorsKnown
  <2>3. QED BY <2>1, <2>2, FailBalances
<1>4. ASSUME NEW type \in {"stream", "dgram"}, NEW nb \in BOOLEAN,
             Ask(e, type, nb)
      PROVE  DescriptorsKnown'
  <2>1. /\ call'[e].pc \in {"lookup", "socket"} /\ call[e].pc = "idle"
        /\ \A f \in Ends \ {e} : call'[f] = call[f]
    BY <1>4, AskMoves DEF Ask, At
  <2>2. UNCHANGED <<sd, aux, conn, open>>
    BY <1>4 DEF Ask
  <2>3. DescriptorsOf(e)
    BY <2>1, <2>2 DEF DescriptorsKnown, DescriptorsOf, Ends
  <2>4. QED BY <2>3, StepBalances
<1>5. QED BY <1>1, <1>2, <1>3, <1>4, OpenSocketBalances, OpenAuxBalances,
             CloseAuxBalances DEF HelperActions

LEMMA ClientBalances ==
    ASSUME TypeOK, DescriptorsKnown, ClientActions
    PROVE  DescriptorsKnown'
<1> USE DEF HelperPCs, ConnectPCs, CreatePCs, HoldsSocket, HoldsAux
<1> DEFINE e == "client"
<1>1. e \in Ends
  BY DEF Ends
<1> HIDE DEF e
<1>2. CASE EpollTimeout \/ WaitFails
  <2>1. Fail(e, {sd[e], aux[e]}) /\ call[e].pc \in HelperPCs
    BY <1>2 DEF EpollTimeout, WaitFails, At, e
  <2>2. QED BY <1>1, <2>1, FailBalances
<1>3. CASE Connect
  <2>1. Moves(e, "ready") /\ call[e].pc = "connect"
    BY <1>1, <1>3, GoesOnMoves DEF Connect, GoesOn, At, e
  <2>2. UNCHANGED <<sd, aux, conn, open>>
    BY <1>3 DEF Connect
  <2>3. QED BY <1>1, <2>1, <2>2, GotoBalances
<1>4. CASE LookUp
  <2>1. Moves(e, "socket") /\ call[e].pc = "lookup"
    BY <1>1, <1>4, GotoMoves DEF LookUp, Goto, At, e
  <2>2. UNCHANGED <<sd, aux, conn, open>>
    BY <1>4 DEF LookUp
  <2>3. QED BY <1>1, <2>1, <2>2, GotoBalances
<1>5. CASE ConnectPending
  <2>1. Moves(e, "epoll_create") /\ call[e].pc = "connect"
    BY <1>1, <1>5, GotoMoves DEF ConnectPending, Goto, At, e
  <2>2. UNCHANGED <<sd, aux, conn, open>>
    BY <1>5 DEF ConnectPending
  <2>3. QED BY <1>1, <2>1, <2>2, GotoBalances
<1>6. CASE AddToEpoll \/ EpollEvent
  <2>1. PICK to \in {"epoll_wait", "so_error"} :
            Moves(e, to) /\ call[e].pc \in {"epoll_ctl", "epoll_wait"}
    BY <1>1, <1>6, GotoMoves DEF AddToEpoll, EpollEvent, Goto, At, e
  <2>2. UNCHANGED <<sd, aux, conn, open>>
    BY <1>6 DEF AddToEpoll, EpollEvent
  <2>3. QED BY <1>1, <2>1, <2>2, GotoBalances
<1>7. CASE CreateEpoll
  BY <1>1, <1>7, OpenAuxBalances DEF e
<1>8. CASE CheckError
  BY <1>1, <1>8, CloseAuxBalances DEF e
<1>9. QED BY <1>2, <1>3, <1>4, <1>5, <1>6, <1>7, <1>8 DEF ClientActions

LEMMA LoopBalances ==
    ASSUME TypeOK, DescriptorsKnown, NEW e \in Ends, LoopActions(e)
    PROVE  DescriptorsKnown'
<1> USE DEF HoldsSocket, HoldsAux
<1>1. ASSUME NEW fn \in Functions(e), NEW size \in Sizes, BeginLoop(e, fn, size)
      PROVE  DescriptorsKnown'
  <2>1. Moves(e, "looping") /\ call[e].pc = "ready"
    BY <1>1, BeginMoves DEF BeginLoop, At
  <2>2. UNCHANGED <<sd, aux, conn, open>>
    BY <1>1 DEF BeginLoop
  <2>3. QED BY <2>1, <2>2, GotoBalances
<1>2. ASSUME NEW n \in 1..Capacity, Put(n) \/ Get(n)
      PROVE  DescriptorsKnown'
  BY <1>2, UntouchedBalances DEF Put, Get, helperVars
<1>3. CASE Again(e) \/ (e = "server" /\ EndAgain)
  BY <1>3, UntouchedBalances DEF Again, EndAgain, helperVars
<1>4. CASE ReturnCount(e) \/ LoopFails(e)
  <2>1. PICK to \in {"ready", "broken"} : Moves(e, to) /\ call[e].pc = "looping"
    BY <1>4, GotoMoves DEF ReturnCount, LoopFails, Goto, At, CallerPCs
  <2>2. UNCHANGED <<sd, aux, conn, open>>
    BY <1>4 DEF ReturnCount, LoopFails
  <2>3. QED BY <2>1, <2>2, GotoBalances
<1>5. CASE \E n \in 1..Capacity :
              (e = "client" /\ Put(n)) \/ (e = "server" /\ Get(n))
  BY <1>2, <1>5
<1>6. CASE \E fn \in Functions(e), size \in Sizes : BeginLoop(e, fn, size)
  BY <1>1, <1>6
<1>7. QED BY <1>3, <1>4, <1>5, <1>6, Zenon DEF LoopActions

LEMMA OtherBalances ==
    ASSUME TypeOK, DescriptorsKnown, OtherActions
    PROVE  DescriptorsKnown'
<1> USE DEF HoldsSocket, HoldsAux
<1> DEFINE e == "server"
<1>1. e \in Ends
  BY DEF Ends
<1> HIDE DEF e
<1>2. CASE ReuseAddress
  <2>1. Moves(e, "bind") /\ call[e].pc = "reuse"
    BY <1>1, <1>2, GotoMoves
    DEF ReuseAddress, Goto, At, HelperPCs, CreatePCs, e
  <2>2. UNCHANGED <<sd, aux, conn, open>>
    BY <1>2 DEF ReuseAddress
  <2>3. QED BY <1>1, <2>1, <2>2, GotoBalances
<1>3. CASE Bind \/ Listen
  <2>1. PICK from \in {"bind", "listen"}, to \in {"listen", "mode", "ready"} :
            GoesOn(e, from, to)
    BY <1>3 DEF Bind, Listen, ModeOr, AfterMode, e
  <2>2. Moves(e, to) /\ call[e].pc = from
    BY <1>1, <2>1, GoesOnMoves DEF GoesOn, At, HelperPCs, CreatePCs
  <2>3. UNCHANGED <<sd, aux, conn, open>>
    BY <1>3 DEF Bind, Listen
  <2>4. QED BY <1>1, <2>2, <2>3, GotoBalances
<1>4. CASE Accept
  <2>1. PICK f \in Fds : Opens(e, f) /\ conn' = f
    BY <1>4 DEF Accept, e
  <2>2. /\ call[e].pc = "ready" /\ conn = NoFd /\ aux[e] = NoFd
        /\ open[e] = {sd[e]} \ {NoFd}
        /\ UNCHANGED <<call, sd, aux>>
    BY <1>1, <1>4 DEF Accept, At, DescriptorsKnown, e
  <2>3. sd[e] # NoFd /\ f # NoFd /\ f # sd[e]
    <3>1. sd[e] # NoFd
      BY <1>1, <2>2 DEF DescriptorsKnown
    <3>2. f \notin open[e]
      BY <2>1 DEF Opens
    <3>3. QED BY <2>2, <3>1, <3>2, FdIsReal
  <2>4. /\ open'[e] = {sd[e], aux[e], f} \ {NoFd}
        /\ \A g \in Ends \ {e} : open'[g] = open[g]
    BY <1>1, <2>1, <2>2, <2>3 DEF Opens, TypeOK
  <2>5. DescriptorsOf(e)
    BY <1>1, <2>1, <2>2, <2>3, <2>4 DEF DescriptorsOf, DescriptorsKnown, e
  <2>6. QED BY <1>1, <2>5, StepBalances
<1>5. CASE Answer \/ Reset
  BY <1>5, UntouchedBalances DEF Answer, Reset
<1>6. ASSUME NEW f \in Ends, NEW blocking \in BOOLEAN, SetBlocking(f, blocking)
      PROVE  DescriptorsKnown'
  BY <1>6, UntouchedBalances DEF SetBlocking
<1>7. ASSUME NEW f \in Ends, Close(f)
      PROVE  DescriptorsKnown'
  <2>1. Moves(f, "closed") /\ call[f].pc \in {"ready", "broken"}
    BY <1>7, ReturnMoves DEF Close
  <2>2. aux[f] = NoFd
    BY <2>1 DEF DescriptorsKnown
  <2>3. /\ sd'[f] = NoFd /\ aux' = aux
        /\ conn' = IF f = "server" THEN NoFd ELSE conn
        /\ open'[f] = {}
        /\ \A g \in Ends \ {f} : open'[g] = open[g] /\ sd'[g] = sd[g]
    BY <1>7, <2>2 DEF Close, TypeOK, DescriptorsKnown, Ends
  <2>4. DescriptorsOf(f)
    BY <2>1, <2>2, <2>3 DEF DescriptorsOf, Moves
  <2>5. QED BY <2>4, StepBalances
<1>8. QED BY <1>2, <1>3, <1>4, <1>5, <1>6, <1>7 DEF OtherActions

\* Whatever fails, an end has the descriptors its caller was given and those
\* the helper under way still needs, and no others.
THEOREM DescriptorsAreBalanced == Spec => []DescriptorsBalanced
<1>1. Init => DescriptorsKnown
  BY DEF Init, DescriptorsKnown, HoldsSocket, HoldsAux, Ends
<1>2. ASSUME TypeOK, DescriptorsKnown, [Next]_vars
      PROVE  DescriptorsKnown'
  <2>1. CASE Next
    BY <1>2, <2>1, NextActions, HelperBalances, LoopBalances, ClientBalances,
       OtherBalances
  <2>2. CASE UNCHANGED vars
    BY <1>2, <2>2, UntouchedBalances DEF vars, helperVars
  <2>3. QED BY <1>2, <2>1, <2>2
<1>3. ASSUME DescriptorsKnown
      PROVE  DescriptorsBalanced
  <2>1. \A e \in Ends : (e = "client" \/ conn = NoFd) =>
            open[e] = {sd[e], aux[e]} \ {NoFd}
    BY <1>3 DEF DescriptorsKnown, Ends
  <2>2. conn # NoFd => /\ sd["server"] # NoFd /\ aux["server"] = NoFd
                       /\ conn # sd["server"]
    BY <1>3 DEF DescriptorsKnown, Ends, HoldsSocket, HoldsAux
  <2>3. QED BY <1>3, <2>1, <2>2 DEF DescriptorsKnown, DescriptorsBalanced
<1>4. QED BY <1>1, <1>2, <1>3, TypeCorrect, PTL DEF Spec

-----------------------------------------------------------------------------
(* The connection *)

\* What net may be where the client is.
Possible(pc, type) ==
    /\ pc \in {"lookup", "socket", "mode", "connect"} => net = "none"
    /\ pc \in {"epoll_create", "epoll_ctl", "epoll_wait"} =>
            net \in {"pending", "established", "refused", "reset"}
    /\ pc = "so_error" => net \in {"established", "refused", "reset"}
    /\ pc \in {"ready", "looping"} /\ type = "stream" =>
            net \in {"established", "reset"}

\* The invariant behind ConnectedIsEstablished: every attempt begins without a
\* connection, and one that is refused or not answered in time gets no further
\* than wait_connect().
ConnectionKnown == Possible(call["client"].pc, call["client"].type)

\* Steps of the server and of the network.
LEMMA NetworkConnects ==
    ASSUME ConnectionKnown, call'["client"] = call["client"],
           \/ net' = net
           \/ net \in {"established", "finished"} /\ net' = "reset"
           \/ net = "pending" /\ net' \in {"established", "refused"}
    PROVE  ConnectionKnown'
BY DEF ConnectionKnown, Possible

LEMMA FailConnects ==
    ASSUME TypeOK, ConnectionKnown, NEW e \in Ends, NEW fds, Fail(e, fds)
    PROVE  ConnectionKnown'
<1>1. Moves(e, "idle")
  BY FailMoves
<1>2. CASE e = "client"
  BY <1>1, <1>2 DEF ConnectionKnown, Possible, Moves
<1>3. CASE e = "server"
  <2>1. call'["client"] = call["client"]
    BY <1>1, <1>3 DEF Moves, Ends
  <2>2. net' = net \/ (net \in {"established", "finished"} /\ net' = "reset")
    BY <1>3 DEF Fail, Closed
  <2>3. QED BY <2>1, <2>2, NetworkConnects
<1>4. QED BY <1>2, <1>3 DEF Ends

LEMMA HelperConnects ==
    ASSUME TypeOK, ConnectionKnown, NEW e \in Ends, HelperActions(e)
    PROVE  ConnectionKnown'
<1> USE DEF HelperPCs, ConnectPCs, CreatePCs
<1>1. CASE OpenSocket(e)
  <2>1. PICK to \in {"reuse", "mode", "connect", "ready"} :
            /\ GoesOn(e, "socket", to)
            /\ e = "client" /\ to = "ready" => call[e].type # "stream"
    BY <1>1 DEF OpenSocket, ModeOr, AfterMode
  <2>2. Moves(e, to) /\ call[e].pc = "socket" /\ net' = net
    BY <1>1, <2>1, GoesOnMoves DEF GoesOn, At, OpenSocket
  <2>3. CASE e = "client"
    BY <2>1, <2>2, <2>3 DEF ConnectionKnown, Possible, Moves
  <2>4. CASE e = "server"
    BY <2>2, <2>4, NetworkConnects DEF Moves, Ends
  <2>5. QED BY <2>3, <2>4 DEF Ends
<1>2. CASE SetMode(e)
  <2>1. PICK to \in {"connect", "ready"} :
            /\ GoesOn(e, "mode", to)
            /\ e = "client" /\ to = "ready" => call[e].type # "stream"
    BY <1>2 DEF SetMode, AfterMode
  <2>2. Moves(e, to) /\ call[e].pc = "mode" /\ net' = net
    BY <1>2, <2>1, GoesOnMoves DEF GoesOn, At, SetMode
  <2>3. CASE e = "client"
    BY <2>1, <2>2, <2>3 DEF ConnectionKnown, Possible, Moves
  <2>4. CASE e = "server"
    BY <2>2, <2>4, NetworkConnects DEF Moves, Ends
  <2>5. QED BY <2>3, <2>4 DEF Ends
<1>3. CASE OpenFails(e) \/ StepFails(e)
  BY <1>3, FailConnects DEF OpenFails, StepFails
<1>4. CASE OpenDirectory(e) \/ CloseDirectory(e)
  <2>1. PICK to \in {"counting", "idle"} : Moves(e, to) /\ net' = net
    BY <1>4, DirectoryMoves, GotoMoves
    DEF OpenDirectory, CloseDirectory, Goto, CallerPCs
  <2>2. CASE e = "client"
    BY <2>1, <2>2 DEF ConnectionKnown, Possible, Moves
  <2>3. CASE e = "server"
    BY <2>1, <2>3, NetworkConnects DEF Moves, Ends
  <2>4. QED BY <2>2, <2>3 DEF Ends
<1>5. ASSUME NEW type \in {"stream", "dgram"}, NEW nb \in BOOLEAN,
             Ask(e, type, nb)
      PROVE  ConnectionKnown'
  <2>1. /\ call'[e].pc \in {"lookup", "socket"} /\ net' = net
        /\ e = "client" => net = "none"
        /\ \A f \in Ends \ {e} : call'[f] = call[f]
    BY <1>5, AskMoves DEF Ask
  <2>2. CASE e = "client"
    BY <2>1, <2>2 DEF ConnectionKnown, Possible
  <2>3. CASE e = "server"
    BY <2>1, <2>3, NetworkConnects DEF Ends
  <2>4. QED BY <2>2, <2>3 DEF Ends
<1>6. QED BY <1>1, <1>2, <1>3, <1>4, <1>5 DEF HelperActions

LEMMA ClientConnects ==
    ASSUME TypeOK, ConnectionKnown, ClientActions
    PROVE  ConnectionKnown'
<1> USE DEF HelperPCs, ConnectPCs, CreatePCs
<1> DEFINE e == "client"
<1>1. e \in Ends
  BY DEF Ends
<1> HIDE DEF e
<1>2. CASE EpollTimeout \/ WaitFails
  BY <1>1, <1>2, FailConnects DEF EpollTimeout, WaitFails, e
<1>3. CASE Connect \/ CheckError
  <2>1. Moves(e, "ready") /\ call[e].pc \in {"connect", "so_error"}
    BY <1>1, <1>3, GoesOnMoves DEF Connect, CheckError, GoesOn, At, e
  <2>2. net' \in {"established", "reset"}
    BY <1>3, <2>1
    DEF Connect, CheckError, GoesOn, At, ConnectionKnown, Possible, e
  <2>3. QED BY <2>1, <2>2 DEF ConnectionKnown, Possible, Moves, e
<1>4. CASE LookUp \/ CreateEpoll \/ AddToEpoll
  <2>1. PICK from \in {"lookup", "epoll_create", "epoll_ctl"} :
            /\ call[e].pc = from /\ net' = net
            /\ Moves(e, CASE from = "lookup" -> "socket"
                          [] from = "epoll_create" -> "epoll_ctl"
                          [] OTHER -> "epoll_wait")
    BY <1>1, <1>4, GotoMoves DEF LookUp, CreateEpoll, AddToEpoll, Goto, At, e
  <2>2. QED BY <2>1 DEF ConnectionKnown, Possible, Moves, e
<1>5. CASE ConnectPending
  <2>1. Moves(e, "epoll_create") /\ net' = "pending"
    BY <1>1, <1>5, GotoMoves DEF ConnectPending, Goto, e
  <2>2. QED BY <2>1 DEF ConnectionKnown, Possible, Moves, e
<1>6. CASE EpollEvent
  <2>1. Moves(e, "so_error") /\ net' = net /\ net # "pending"
        /\ call[e].pc = "epoll_wait"
    BY <1>1, <1>6, GotoMoves DEF EpollEvent, Goto, At, e
  <2>2. QED BY <2>1 DEF ConnectionKnown, Possible, Moves, e
<1>7. QED BY <1>2, <1>3, <1>4, <1>5, <1>6 DEF ClientActions

LEMMA LoopConnects ==
    ASSUME TypeOK, ConnectionKnown, NEW e \in Ends, LoopActions(e)
    PROVE  ConnectionKnown'
<1>1. ASSUME NEW to \in {"looping", "ready", "broken"}, Moves(e, to), net' = net,
             call[e].pc \in {"ready", "looping"}
      PROVE  ConnectionKnown'
  <2>1. CASE e = "client"
    BY <1>1, <2>1 DEF ConnectionKnown, Possible, Moves
  <2>2. CASE e = "server"
    BY <1>1, <2>2, NetworkConnects DEF Moves, Ends
  <2>3. QED BY <2>1, <2>2 DEF Ends
<1>2. ASSUME NEW fn \in Functions(e), NEW size \in Sizes, BeginLoop(e, fn, size)
      PROVE  ConnectionKnown'
  <2>1. Moves(e, "looping") /\ call[e].pc = "ready" /\ net' = net
    BY <1>2, BeginMoves DEF BeginLoop, At
  <2>2. QED BY <1>1, <2>1
<1>3. ASSUME NEW n \in 1..Capacity, Put(n) \/ Get(n)
      PROVE  ConnectionKnown'
  BY <1>3, NetworkConnects DEF Put, Get, helperVars
<1>4. CASE Again(e) \/ (e = "server" /\ EndAgain)
  BY <1>4, NetworkConnects DEF Again, EndAgain, helperVars
<1>5. CASE ReturnCount(e) \/ LoopFails(e)
  <2>1. PICK to \in {"ready", "broken"} :
            Moves(e, to) /\ call[e].pc = "looping" /\ net' = net
    BY <1>5, GotoMoves DEF ReturnCount, LoopFails, Goto, At, CallerPCs
  <2>2. QED BY <1>1, <2>1
<1>6. CASE \E n \in 1..Capacity :
              (e = "client" /\ Put(n)) \/ (e = "server" /\ Get(n))
  BY <1>3, <1>6
<1>7. CASE \E fn \in Functions(e), size \in Sizes : BeginLoop(e, fn, size)
  BY <1>2, <1>7
<1>8. QED BY <1>4, <1>5, <1>6, <1>7, Zenon DEF LoopActions

LEMMA OtherConnects ==
    ASSUME TypeOK, ConnectionKnown, OtherActions
    PROVE  ConnectionKnown'
<1> DEFINE e == "server"
<1>1. e \in Ends /\ "client" \in Ends \ {e}
  BY DEF Ends
<1> HIDE DEF e
<1>2. CASE ReuseAddress \/ Bind \/ Listen
  <2>1. call'["client"] = call["client"] /\ net' = net
    BY <1>1, <1>2
    DEF ReuseAddress, Bind, Listen, Goto, GoesOn, Return, TypeOK, e
  <2>2. QED BY <2>1, NetworkConnects
<1>3. CASE Accept \/ Answer \/ Reset
  BY <1>3, NetworkConnects DEF Accept, Answer, Reset
<1>4. ASSUME NEW f \in Ends, NEW blocking \in BOOLEAN, SetBlocking(f, blocking)
      PROVE  ConnectionKnown'
  BY <1>4, NetworkConnects DEF SetBlocking
<1>5. ASSUME NEW f \in Ends, Close(f)
      PROVE  ConnectionKnown'
  <2>1. Moves(f, "closed") /\ net' = Closed(f)
    BY <1>5, ReturnMoves DEF Close
  <2>2. CASE f = "client"
    BY <2>1, <2>2 DEF ConnectionKnown, Possible, Moves
  <2>3. CASE f = "server"
    BY <1>1, <2>1, <2>3, NetworkConnects DEF Moves, Closed, e
  <2>4. QED BY <2>2, <2>3 DEF Ends
<1>6. QED BY <1>2, <1>3, <1>4, <1>5 DEF OtherActions

\* A stream socket that connect_to_socket() returns is or was connected,
\* whenever the answer to connect() comes.
THEOREM ConnectedAreEstablished == Spec => []ConnectedIsEstablished
<1>1. Init => ConnectionKnown
  BY DEF Init, ConnectionKnown, Possible, Ends
<1>2. ASSUME TypeOK, ConnectionKnown, [Next]_vars
      PROVE  ConnectionKnown'
  <2>1. CASE Next
    BY <1>2, <2>1, NextActions, HelperConnects, LoopConnects, ClientConnects,
       OtherConnects
  <2>2. CASE UNCHANGED vars
    BY <1>2, <2>2, NetworkConnects DEF vars, helperVars
  <2>3. QED BY <1>2, <2>1, <2>2
<1>3. ConnectionKnown => ConnectedIsEstablished
  BY DEF ConnectionKnown, Possible, ConnectedIsEstablished
<1>4. QED BY <1>1, <1>2, <1>3, TypeCorrect, PTL DEF Spec

-----------------------------------------------------------------------------
(* The stream *)

LEMMA BytesOfMem ==
    ASSUME NEW m \in Seq(Nat), \A k \in 1..Len(m) : m[k] = k,
           NEW n \in 0..Len(m)
    PROVE  SubSeq(m, 1, n) = [k \in 1..n |-> k]
<1>1. Len(m) \in Nat /\ n \in Nat
  BY LenProperties
<1>2. SubSeq(m, 1, n) = Restrict(m, 1..n)
  BY SubSeqRestrict
<1>3. QED BY <1>1, <1>2 DEF Restrict

\* A whole sequence of that kind.
LEMMA BytesOfWire ==
    ASSUME NEW w \in Seq(Nat), \A k \in 1..Len(w) : w[k] = k
    PROVE  w = [k \in 1..Len(w) |-> k]
<1>1. w \in [1..Len(w) -> Nat]
  BY LenProperties
<1>2. QED BY <1>1

\* The steps that the abstract stream can see.
LEMMA VisibleSteps ==
    ASSUME [Next]_vars
    PROVE  \/ UNCHANGED <<told, wire>>
           \/ \E n \in 1..Capacity : Put(n)
           \/ \E e \in Ends : ReturnCount(e)
<1>1. ASSUME NEW e \in Ends, HelperActions(e)
      PROVE  UNCHANGED <<told, wire>>
  BY <1>1 DEF HelperActions, OpenSocket, SetMode, OpenFails, StepFails, Fail,
     OpenDirectory, CloseDirectory, Ask, loopVars
<1>2. ASSUME ClientActions
      PROVE  UNCHANGED <<told, wire>>
  BY <1>2 DEF ClientActions, LookUp, Connect, ConnectPending, CreateEpoll,
     AddToEpoll, EpollEvent, EpollTimeout, CheckError, WaitFails, Fail, loopVars
<1>3. ASSUME OtherActions
      PROVE  UNCHANGED <<told, wire>>
  BY <1>3 DEF OtherActions, ReuseAddress, Bind, Listen, Accept, Answer, Reset,
     SetBlocking, Close, loopVars
<1>4. ASSUME NEW e \in Ends, LoopActions(e)
      PROVE  \/ UNCHANGED <<told, wire>>
             \/ \E n \in 1..Capacity : Put(n)
             \/ ReturnCount(e)
  BY <1>4 DEF LoopActions, BeginLoop, Get, Again, EndAgain, LoopFails
<1>5. CASE Next
  BY <1>1, <1>2, <1>3, <1>4, <1>5, NextActions
<1>6. CASE UNCHANGED vars
  BY <1>6 DEF vars, loopVars
<1>7. QED BY <1>5, <1>6

\* What the abstract stream looks like.
StreamIsBytes ==
    /\ SubSeq(mem, 1, told["server"]) = Stream!Bytes(told["server"])
    /\ wire = Stream!Bytes(Len(wire))
    /\ told["server"] \in Nat /\ told["server"] <= Len(wire)
    /\ Len(wire) \in Nat

LEMMA StreamBytes == TypeOK /\ BytesInPlace => StreamIsBytes
<1> SUFFICES ASSUME TypeOK, BytesInPlace PROVE StreamIsBytes
  OBVIOUS
<1>1. /\ mem \in Seq(Nat) /\ \A k \in 1..Len(mem) : mem[k] = k
      /\ wire \in Seq(Nat) /\ \A k \in 1..Len(wire) : wire[k] = k
      /\ Len(mem) \in Nat /\ Len(wire) \in Nat
      /\ told["server"] \in 0..Len(mem) /\ Len(mem) <= Len(wire)
  BY DEF TypeOK, BytesInPlace
<1>2. /\ SubSeq(mem, 1, told["server"]) = [k \in 1..told["server"] |-> k]
      /\ wire = [k \in 1..Len(wire) |-> k]
  BY <1>1, BytesOfMem, BytesOfWire
<1>3. QED BY <1>1, <1>2 DEF StreamIsBytes, Stream!Bytes

LEMMA StreamStep ==
    ASSUME TypeOK, BytesInPlace, TypeOK', BytesInPlace', [Next]_vars
    PROVE  [Stream!Next]_(Stream!streamVars)
<1> DEFINE got == SubSeq(mem, 1, told["server"])
<1>1. /\ got = Stream!Bytes(told["server"]) /\ wire = Stream!Bytes(Len(wire))
      /\ told["server"] \in Nat /\ told["server"] <= Len(wire)
      /\ Len(wire) \in Nat
  BY StreamBytes DEF StreamIsBytes
<1>2. /\ got' = Stream!Bytes(told'["server"])
      /\ wire' = Stream!Bytes(Len(wire'))
      /\ told'["server"] \in Nat /\ told'["server"] <= Len(wire')
  <2>1. StreamIsBytes'
    BY StreamBytes, PTL
  <2>2. QED BY <2>1 DEF StreamIsBytes
<1> HIDE DEF got
<1>3. CASE UNCHANGED <<told, wire>>
  <2>1. got' = got
    BY <1>1, <1>2, <1>3
  <2>2. QED BY <1>3, <2>1 DEF Stream!streamVars, got
<1>4. ASSUME NEW n \in 1..Capacity, Put(n)
      PROVE  Stream!Send
  <2>1. Len(wire') = Len(wire) + n /\ UNCHANGED <<told, mem>>
    BY <1>4, PutKeeps DEF Put
  <2>2. n > 0 /\ n \in Nat
    BY SocketAssumption
  <2>3. QED BY <1>1, <1>2, <2>1, <2>2 DEF Stream!Send, got
<1>5. ASSUME NEW e \in Ends, ReturnCount(e)
      PROVE  Stream!Tell \/ Stream!Receive
  <2>1. /\ told' = [told EXCEPT ![e] = xfer[e].pos] /\ UNCHANGED wire
        /\ call[e].pc = "looping"
    BY <1>5, ReturnKeeps DEF ReturnCount, Goto, At
  <2>2. told \in [Ends -> Int]
    BY DEF TypeOK
  <2>3. CASE e = "client"
    <3>1. told'["client"] = Len(wire) /\ told'["server"] = told["server"]
      BY <2>1, <2>2, <2>3 DEF BytesInPlace, Ends
    <3>2. got' = got
      BY <1>1, <1>2, <3>1
    <3>3. QED BY <2>1, <3>1, <3>2 DEF Stream!Tell, got
  <2>4. CASE e = "server"
    <3>1. /\ told'["server"] = taken /\ told'["client"] = told["client"]
          /\ told["server"] <= taken
      BY <2>1, <2>2, <2>4 DEF BytesInPlace, TypeOK, Ends
    <3>2. Len(got) = told["server"]
      BY <1>1 DEF Stream!Bytes
    <3>3. told'["server"] \in Len(got)..Len(wire)
      BY <1>1, <1>2, <2>1, <3>1, <3>2
    <3>4. QED BY <1>2, <2>1, <3>1, <3>3 DEF Stream!Receive, got
  <2>5. QED BY <2>3, <2>4 DEF Ends
<1>6. QED BY <1>3, <1>4, <1>5, VisibleSteps DEF Stream!Next

\* The loops implement ByteStream: short transfers, time-outs, failures and
\* buffers longer than an int lose, repeat and invent nothing.
THEOREM StreamIsKept == Spec => StreamKept
<1>1. Init => Stream!Init
  <2>1. SUFFICES ASSUME Init PROVE Stream!Init
    OBVIOUS
  <2>2. SubSeq(mem, 1, told["server"]) = <<>>
    <3>1. mem = <<>> /\ told["server"] = 0
      BY <2>1 DEF Init, Ends
    <3>2. SubSeq(<<>>, 1, 0) = <<>>
      BY SubSeqEmpty
    <3>3. QED BY <3>1, <3>2
  <2>3. QED BY <2>1, <2>2 DEF Init, Stream!Init, Ends
<1>2. TypeOK /\ BytesInPlace /\ (TypeOK /\ BytesInPlace)' /\ [Next]_vars
        => [Stream!Next]_(Stream!streamVars)
  BY StreamStep
<1>3. QED BY <1>1, <1>2, BytesInvariant, PTL DEF Spec, StreamKept, Stream!Spec
=============================================================================
