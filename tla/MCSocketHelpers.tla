--------------------------- MODULE MCSocketHelpers ---------------------------
(* TLC instances of SocketHelpers: an int of four bits. *)
EXTENDS SocketHelpers

\* 3 takes two loops: there is room for 2.  As an int 10 is negative, 17 is 1.
SomeSizes == {3, 10, 17}
=============================================================================
