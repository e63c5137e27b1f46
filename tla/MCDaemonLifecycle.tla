-------------------------- MODULE MCDaemonLifecycle --------------------------
(* TLC instances of DaemonLifecycle: model values and the sites. *)
EXTENDS DaemonLifecycle

CONSTANTS p1, p2, i1, i2, s1

TwoPids == {p1, p2}
TwoInodes == {i1, i2}
OneScript == {s1}

\* A shell that waits for nothing it has not to wait for.
Hasty == [daemon |-> "onvif_srvd", commands |-> {"start", "stop", "restart"},
          spaced |-> FALSE]

\* Every command waits, but restart does not wait inside.
RestartSite == {[Hasty EXCEPT !.spaced = TRUE]}

\* Each daemon where every command waits, under the script and under main.py.
Waiting == [daemon : {"wsdd", "onvif_srvd"},
            commands : {{"start", "stop"}, {"replace"}}, spaced : {TRUE}]

AllSites == Waiting \cup {Hasty}
=============================================================================
