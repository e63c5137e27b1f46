---------------------------- MODULE DateValidator ----------------------------
(***************************************************************************)
(* The weekly check of LastModified (date-validator/validator.js): one     *)
(* Drop after the other, 30 seconds apart, the script asks GitHub when the *)
(* Drop's source was last committed to and lists the Drops that are older. *)
(* An exception ends the whole run.                                        *)
(*                                                                         *)
(* External: the sources, which go on being committed to while the run     *)
(* takes its time, and GitHub's API, which may refuse any request: 88      *)
(* Drops at this pace are 88 requests in 44 minutes, and 60 an hour are    *)
(* allowed.                                                                *)
(***************************************************************************)
EXTENDS DropFiles, Sequences

VARIABLES
    files,      \* the Drops, in the order of readdirSync()
    at,         \* the Drop that is processed next
    head,       \* head[i]: author date of the latest commit to the source of
                \* Drop i
    checkout,   \* the same when the repository was checked out
    since,      \* since[i]: all that head[i] has been since then
    outdated,   \* changedDrops
    warned,     \* Drops whose row in resultTableData says 'Warning'
    changesFound,
    error,      \* what console.error() printed
    code        \* of process.exit()

dateVars == <<files, at, head, checkout, since, outdated, warned, changesFound,
              error, code>>

\* The date of a path that no commit names.
Never == MaxDate + 1

Heads == [DOMAIN files -> 0..Never]

DateTypeOK ==
    /\ files \in Seq(File)
    /\ at \in 1..(Len(files) + 1)
    /\ head \in Heads /\ checkout \in Heads
    /\ since \in [DOMAIN files -> SUBSET (0..Never)]
    /\ outdated \subseteq DOMAIN files /\ warned \subseteq DOMAIN files
    /\ changesFound \in BOOLEAN
    /\ error \in {"none", "api", "empty", "syntax", "source"}
    /\ code \in {"running", "0", "1"}

\* Before a run there is nothing to be checked.
DateInit ==
    /\ files = <<>> /\ at = 1 /\ head = <<>> /\ checkout = <<>> /\ since = <<>>
    /\ outdated = {} /\ warned = {} /\ changesFound = FALSE
    /\ error = "none" /\ code = "0"

Drop == files[at]

Processing == code = "running" /\ at <= Len(files)

\* A comparison with what is not a date is false.
Older(d, date) == d.modified # NoDate /\ d.modified < date

\* The last Drop decides the exit code.
RowOfLast(date) ==
    /\ changesFound' = Older(Drop, date)
    /\ outdated' = IF Older(Drop, date) THEN outdated \cup {at} ELSE outdated
    /\ at' = at + 1
    /\ UNCHANGED <<files, head, checkout, since, warned, error, code>>

Row(date) ==
    /\ IF Older(Drop, date)
       THEN changesFound' = TRUE /\ outdated' = outdated \cup {at}
       ELSE UNCHANGED <<changesFound, outdated>>
    /\ at' = at + 1
    /\ UNCHANGED <<files, head, checkout, since, warned, error, code>>

\* git log of the checkout finds the commit, the API its date; without an
\* author in the answer the Drop gets a warning.
ProcessOwn ==
    /\ Processing /\ Drop.parses /\ Drop.source = "own"
    /\ \/ checkout[at] # Never /\ Row(checkout[at])
       \/ /\ warned' = warned \cup {at}
          /\ at' = at + 1
          /\ UNCHANGED <<files, head, checkout, since, outdated, changesFound,
                         error, code>>

\* getLatestCommit() asks for the commits to the path as they are now.
ProcessExternal ==
    /\ Processing /\ Drop.parses /\ Drop.source \in {"fork", "external"}
    /\ head[at] # Never
    /\ Row(head[at])

\* A source that is not on GitHub is passed over.
ProcessElsewhere ==
    /\ Processing /\ Drop.parses /\ Drop.source = "elsewhere"
    /\ at' = at + 1
    /\ UNCHANGED <<files, head, checkout, since, outdated, warned, changesFound,
                   error, code>>

\* What a Drop's file or an answer may throw: a request that fails, an answer
\* that is not JSON, and for an external source an answer that is no list of
\* commits, or an empty list.
Thrown ==
    IF ~Drop.parses THEN {"syntax"}
    ELSE CASE Drop.source = "none" -> {"source"}
           [] Drop.source = "elsewhere" -> {}
           [] Drop.source = "own" -> {"api"}
           [] Drop.source \in {"fork", "external"} ->
                {"api"} \cup (IF head[at] = Never THEN {"empty"} ELSE {})

Abort ==
    /\ Processing
    /\ \E e \in Thrown : error' = e
    /\ code' = "1"
    /\ UNCHANGED <<files, at, head, checkout, since, outdated, warned,
                   changesFound>>

Report ==
    /\ code = "running" /\ at > Len(files)
    /\ code' = IF changesFound THEN "1" ELSE "0"
    /\ UNCHANGED <<files, at, head, checkout, since, outdated, warned,
                   changesFound, error>>

\* A push to the source of Drop i. Git does not order the author dates of what
\* is cherry-picked or rebased, and a force push may leave no commit.
Commit(i) ==
    /\ code = "running"
    /\ \E d \in 0..Never : /\ head' = [head EXCEPT ![i] = d]
                          /\ since' = [since EXCEPT ![i] = @ \cup {d}]
    /\ UNCHANGED <<files, at, checkout, outdated, warned, changesFound, error,
                   code>>

DateNext ==
    \/ ProcessOwn \/ ProcessExternal \/ ProcessElsewhere \/ Abort \/ Report
    \/ \E i \in DOMAIN files : Commit(i)

-----------------------------------------------------------------------------
(* Properties *)

Outdates(date, i) == date # Never /\ Older(files[i], date)

\* However long the run takes and whatever is pushed meanwhile, one that ends
\* with 0 has missed no Drop that was outdated all the time, by every commit
\* that was the latest since the checkout, except with a warning or where it
\* cannot ask; and what any run lists one of these commits outdates.
ReportIsTrue ==
    /\ code = "0" => \A i \in DOMAIN files :
        (\A date \in since[i] : Outdates(date, i)) =>
            i \in warned \/ files[i].source = "elsewhere"
    /\ \A i \in outdated : \E date \in since[i] : Outdates(date, i)
=============================================================================
