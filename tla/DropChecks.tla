------------------------------ MODULE DropChecks ------------------------------
(***************************************************************************)
(* A Drop on its way into the repository: the content check of its pull    *)
(* request, the merge if the check has passed, and the weekly check of the *)
(* dates, which meets the merged Drops among those that were there.  The   *)
(* schema check, a third-party action, and the decision to merge are       *)
(* external; nothing is assumed of them.                                   *)
(***************************************************************************)
EXTENDS ContentValidator, DateValidator, Functions

CONSTANT Existing   \* Drops of the repository, as sequences

ASSUME ExistingAssumption == Existing \subseteq Seq(File)

VARIABLE merged     \* places in files of the Drops of the pull request

vars == <<contentVars, dateVars, merged>>

TypeOK == ContentTypeOK /\ DateTypeOK /\ merged \subseteq DOMAIN files

Init == ContentInit /\ DateInit /\ merged = {}

\* The Drops of the repository when the pull request is merged.
Names(e) ==
    ({"new"} \X {i \in DOMAIN changed : IsDrop(changed[i])})
        \cup ({"old"} \X DOMAIN e)

\* What they are, in the order of their names.
Directory(e, order) ==
    [k \in DOMAIN order |-> IF order[k][1] = "new" THEN changed[order[k][2]]
                            ELSE e[order[k][2]]]

\* The pull request is merged, and a Monday comes. readdirSync() sorts the
\* names, which may be anything.
MergeAndSchedule ==
    /\ exit = "pass" /\ files = <<>>
    /\ \E e \in Existing : \E n \in 0..(Len(changed) + Len(e)) :
        \E order \in Bijection(1..n, Names(e)) :
            /\ files' = Directory(e, order)
            /\ merged' = {k \in 1..n : order[k][1] = "new"}
    /\ head' \in [DOMAIN files' -> 0..Never]
    /\ checkout' = head'
    /\ since' = [k \in DOMAIN files' |-> {head'[k]}]
    /\ code' = "running"
    /\ UNCHANGED <<contentVars, at, outdated, warned, changesFound, error>>

Next ==
    \/ ContentNext /\ UNCHANGED <<dateVars, merged>>
    \/ MergeAndSchedule
    \/ DateNext /\ UNCHANGED <<contentVars, merged>>

Spec == Init /\ [][Next]_vars

-----------------------------------------------------------------------------
(* Properties *)

\* One bad file ends the weekly check of all Drops. One that stops it for its
\* form got past the content check only because that never saw it, several
\* names being on a line or its own name not being kept by the whitelist, or,
\* without a Source, because it was given another path in drops/ besides.
OneFileIsCaught ==
    (at \in merged /\ OneOnALine /\ files[at].name = "plain") =>
        /\ error # "syntax"
        /\ error = "source" => \E i, j \in DOMAIN args :
            i # j /\ InDrops(args[i]) /\ InDrops(args[j])
=============================================================================
