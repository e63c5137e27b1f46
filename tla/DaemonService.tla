---------------------------- MODULE DaemonService ----------------------------
(***************************************************************************)
(* What the start scripts promise whoever runs a camera daemon with them,  *)
(* one command after the other: it is off, starting, up or ending and goes *)
(* through these in turn, it is started only when nothing of the last one  *)
(* is left, and what a shell says of it is so when it is said, except that *)
(* a stranger may be taken for the daemon when none is up.  There is no    *)
(* pid file, no lock, no port and no signal here.                          *)
(***************************************************************************)
CONSTANTS Pids, Scripts

VARIABLES
    phase,      \* phase[p]: what process p is to someone who runs the daemon
    said,       \* said[s]: the last words of shell s
    mistaken    \* a process that is no daemon passes for it

vars == <<phase, said, mistaken>>

Phases == {"off", "starting", "up", "ending"}

AllOff == \A p \in Pids : phase[p] = "off"

Init ==
    /\ phase = [p \in Pids |-> "off"]
    /\ said = [s \in Scripts |-> "nothing"]
    /\ mistaken = FALSE

Turns(p, from, to) == phase[p] \in from /\ phase' = [phase EXCEPT ![p] = to]

Says(s, words) == said' = [said EXCEPT ![s] = words]

(* The daemon *)

ComesUp(p) == Turns(p, {"starting"}, "up") /\ UNCHANGED <<said, mistaken>>

Ends(p) == Turns(p, Phases \ {"off"}, "off") /\ UNCHANGED <<said, mistaken>>

\* That never happens to a daemon that is up, and no such stranger is left
\* when one comes up.
Mistake ==
    /\ \A p \in Pids : phase[p] # "up"
    /\ mistaken' = TRUE
    /\ UNCHANGED <<phase, said>>

Clear == mistaken' = FALSE /\ UNCHANGED <<phase, said>>

(* The shells *)

Command(s) == Says(s, "nothing") /\ UNCHANGED <<phase, mistaken>>

\* There is no other process, not even one that is ending.
Start(s) ==
    /\ AllOff
    /\ \E p \in Pids : Turns(p, {"off"}, "starting")
    /\ Says(s, "started")
    /\ UNCHANGED mistaken

AlreadyRunning(s) ==
    /\ mistaken \/ \E p \in Pids : phase[p] = "up"
    /\ Says(s, "already running")
    /\ UNCHANGED <<phase, mistaken>>

NotRunning(s) ==
    AllOff /\ Says(s, "not running") /\ UNCHANGED <<phase, mistaken>>

\* d_stop tells a daemon to end that is up, and says so when it is told.
Stop ==
    \E p \in Pids : Turns(p, {"up"}, "ending") /\ UNCHANGED <<said, mistaken>>

Stopped(s) ==
    /\ \A p \in Pids : phase[p] \in {"off", "ending"}
    /\ Says(s, "stopped")
    /\ mistaken' \in {mistaken, FALSE}
    /\ UNCHANGED phase

\* main.py ends what it finds, starting or up, and then kills it.
Replace ==
    /\ \E all \in {"off", "ending"} :
        phase' = [p \in Pids |-> IF phase[p] = "off" THEN "off" ELSE all]
    /\ UNCHANGED <<said, mistaken>>

Next ==
    \/ \E p \in Pids : ComesUp(p) \/ Ends(p)
    \/ \E s \in Scripts :
        \/ Command(s) \/ Start(s) \/ AlreadyRunning(s) \/ NotRunning(s)
        \/ Stopped(s)
    \/ Stop \/ Replace \/ Mistake \/ Clear

Spec == Init /\ [][Next]_vars
=============================================================================
