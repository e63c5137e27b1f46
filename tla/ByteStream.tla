------------------------------ MODULE ByteStream ------------------------------
(***************************************************************************)
(* What two programs that talk through the loops of net_utils.c and        *)
(* file_utils.c may rely on.  The byte at place n of what the writer has   *)
(* to say is n.  The bytes go out in order, without a gap and none twice;  *)
(* the count the writer is told is exactly what went out; and the reader   *)
(* has a beginning of that, which only grows.                              *)
(***************************************************************************)
EXTENDS Integers, Sequences

VARIABLES
    stream,     \* the bytes that went out
    known,      \* how many of them the writer was told of
    got         \* the bytes the reader was told of

streamVars == <<stream, known, got>>

\* The first n bytes.
Bytes(n) == [k \in 1..n |-> k]

Init == stream = <<>> /\ known = 0 /\ got = <<>>

Send ==
    /\ Len(stream') > Len(stream) /\ stream' = Bytes(Len(stream'))
    /\ UNCHANGED <<known, got>>

Tell ==
    /\ known' = Len(stream)
    /\ UNCHANGED <<stream, got>>

Receive ==
    /\ \E n \in Len(got)..Len(stream) : got' = Bytes(n)
    /\ UNCHANGED <<stream, known>>

Next == Send \/ Tell \/ Receive

Spec == Init /\ [][Next]_streamVars
=============================================================================
