--------------------------- MODULE DropChecksProofs ---------------------------
(***************************************************************************)
(* Theorems about DropChecks, for any pull requests, READMEs, Drops of the *)
(* repository and dates.                                                   *)
(***************************************************************************)
EXTENDS DropChecks, TLAPS

USE DateAssumption, ContentAssumption, ExistingAssumption

-----------------------------------------------------------------------------
(* The inductive invariant of the content check *)

TasksTyped ==
    task \in [DOMAIN task -> Task] /\ DOMAIN task \subseteq DOMAIN args

\* There are tasks once the paths are filtered, and a result at the end.
StagesInOrder ==
    /\ stage \in {"sanitize", "source", "fetch", "filter"} => DOMAIN task = {}
    /\ stage = "end" <=> exit # "running"
    /\ stage = "check" => DOMAIN task = Valid
    /\ stage \in {"sanitize", "source"} => tries = 0
    /\ stage = "fetch" => tries < 3

\* What the whitelist keeps is in the list, once its line is read.
ChangedAreListed ==
    /\ stage # "sanitize" => read = Len(changed)
    /\ OneOnALine => \A k \in 1..read :
        Taken(changed[k]) => \E i \in DOMAIN args : args[i] = changed[k]

\* A Drop without a Source gets past ReadSource only beside another path.
NoSourceAlone ==
    (stage \notin {"sanitize", "source"} /\ exit # "fail") =>
        \A i \in DOMAIN args :
            (IsDrop(args[i]) /\ args[i].source = "none") =>
                \E j \in DOMAIN args : j # i /\ InDrops(args[j])

\* A task that has found nothing has parsed its file and read its words.
NoneIsClean ==
    \A i \in DOMAIN task :
        task[i].pc = "none" =>
            /\ args[i].ext = "json" => args[i].parses
            /\ task[i].terms => ~Detects(args[i])

\* A job that has passed has looked at every file it was to look at.
PassIsComplete ==
    (exit = "pass" /\ args # <<>>) =>
        DOMAIN task = Valid /\ \A i \in DOMAIN task : task[i].pc = "none"

ContentInv ==
    /\ ContentTypeOK /\ TasksTyped /\ StagesInOrder /\ ChangedAreListed
    /\ NoSourceAlone /\ NoneIsClean /\ PassIsComplete

(* The inductive invariant of the date check *)

\* What the check asks for is one of the dates since the checkout.
DatesAreSince ==
    \A i \in DOMAIN files : checkout[i] \in since[i] /\ head[i] \in since[i]

\* The Drops the loop is through with.
AllOutdate(i) == \A date \in since[i] : Outdates(date, i)

PassedAreSeen ==
    \A j \in DOMAIN files :
        (j < at /\ AllOutdate(j)) =>
            j \in outdated \/ j \in warned \/ files[j].source = "elsewhere"

OutdatedIsOlder ==
    \A i \in outdated : \E date \in since[i] : Outdates(date, i)

\* A run ends with 0 behind the last Drop, having listed none.
EndsAtTheEnd ==
    /\ outdated # {} => changesFound
    /\ code = "0" => at > Len(files) /\ ~changesFound

\* The Drop an exception came from is the one the loop is at.
ErrorIsHere ==
    error # "none" =>
        /\ code = "1" /\ at \in DOMAIN files
        /\ error = "syntax" => ~files[at].parses
        /\ error = "source" => files[at].source = "none"

DateInv ==
    /\ DateTypeOK /\ DatesAreSince /\ PassedAreSeen /\ OutdatedIsOlder
    /\ EndsAtTheEnd /\ ErrorIsHere

\* Merged Drops are those of a pull request that has passed.
MergedHavePassed ==
    /\ merged \subseteq DOMAIN files
    /\ \A k \in merged :
        /\ exit = "pass"
        /\ \E i \in DOMAIN changed : files[k] = changed[i] /\ IsDrop(changed[i])

DropInv == ContentInv /\ DateInv /\ MergedHavePassed

-----------------------------------------------------------------------------

\* The initial states satisfy the invariant.
LEMMA InitDropInv == Init => DropInv
<1> SUFFICES ASSUME Init PROVE DropInv
  OBVIOUS
<1>1. ContentInv
  BY DEF Init, ContentInit, ContentInv, ContentTypeOK, TasksTyped,
         StagesInOrder, ChangedAreListed, NoSourceAlone, NoneIsClean,
         PassIsComplete, Stages, File
<1>2. DateInv
  <2> USE DEF Init, DateInit
  <2>1. files = <<>> /\ DOMAIN files = {} /\ Len(files) = 0
    OBVIOUS
  <2>2. /\ head \in Heads /\ checkout \in Heads
        /\ since \in [DOMAIN files -> SUBSET (0..Never)]
    BY <2>1 DEF Heads
  <2>3. DateTypeOK
    <3>1. files \in Seq(File) /\ at \in 1..(Len(files) + 1)
      BY <2>1
    <3>2. outdated \subseteq DOMAIN files /\ warned \subseteq DOMAIN files
      OBVIOUS
    <3> QED
      BY <2>2, <3>1, <3>2 DEF DateTypeOK
  <2>4. DatesAreSince /\ PassedAreSeen /\ OutdatedIsOlder
    BY <2>1 DEF DatesAreSince, PassedAreSeen, OutdatedIsOlder
  <2>5. EndsAtTheEnd /\ ErrorIsHere
    BY <2>1 DEF EndsAtTheEnd, ErrorIsHere
  <2> QED
    BY <2>3, <2>4, <2>5 DEF DateInv
<1>3. MergedHavePassed
  BY DEF Init, MergedHavePassed
<1> QED
  BY <1>1, <1>2, <1>3 DEF DropInv

-----------------------------------------------------------------------------
(* The steps of the content check *)

\* What a file is, and what of it the steps look at.
LEMMA ListedIsFile ==
    ASSUME ContentTypeOK, NEW i \in DOMAIN args
    PROVE args[i] \in File
  BY DEF ContentTypeOK

LEMMA ChangedIsSeq == ContentTypeOK => changed \in Seq(File)
  BY DEF ContentTypeOK

\* A line adds one file to the list, or none.
LEMMA SanitizeReads ==
    ASSUME ContentTypeOK, Sanitize
    PROVE /\ UNCHANGED <<changed, separator, stage, tries, task, exit>>
          /\ stage = "sanitize" /\ read \in Nat /\ Len(changed) \in Nat
          /\ read' \in 0..Len(changed)
          /\ \/ UNCHANGED args
             \/ \E f \in File : args' = Append(args, f)
<1>1. changed \in Seq(File) /\ read \in 0..Len(changed) /\ Len(changed) \in Nat
  BY ChangedIsSeq DEF ContentTypeOK
<1>2. CASE OneOnALine
  <2>1. read + 1 \in 1..Len(changed) /\ read' = read + 1
    BY <1>1, <1>2 DEF Sanitize
  <2>2. changed[read + 1] \in File
    BY <1>1, <2>1
  <2> QED
    BY <1>1, <1>2, <2>1, <2>2 DEF Sanitize, Clean
<1>3. CASE ~OneOnALine
  BY <1>1, <1>3 DEF Sanitize
<1> QED
  BY <1>2, <1>3

\* A list that grows keeps what it has.
LEMMA ListGrows ==
    ASSUME args \in Seq(File),
           UNCHANGED args \/ \E f \in File : args' = Append(args, f)
    PROVE /\ args' \in Seq(File)
          /\ \A k \in DOMAIN args : k \in DOMAIN args' /\ args'[k] = args[k]
          /\ DOMAIN args \subseteq DOMAIN args'
<1>1. CASE UNCHANGED args
  BY <1>1
<1>2. ASSUME NEW f \in File, args' = Append(args, f)
      PROVE /\ args' \in Seq(File)
            /\ \A k \in DOMAIN args : k \in DOMAIN args' /\ args'[k] = args[k]
            /\ DOMAIN args \subseteq DOMAIN args'
  BY <1>2
<1> QED
  BY <1>1, <1>2

\* The content check keeps its types.
LEMMA ContentTypes ==
    ASSUME ContentInv, ContentNext
    PROVE ContentTypeOK' /\ TasksTyped'
<1> USE DEF ContentInv, ContentTypeOK, TasksTyped, StagesInOrder, Stages, End
<1>0. changed \in Seq(File)
  BY ChangedIsSeq
<1>1. CASE Sanitize
  <2>1. /\ UNCHANGED <<changed, separator, stage, tries, task, exit>>
        /\ read' \in 0..Len(changed)
        /\ UNCHANGED args \/ \E f \in File : args' = Append(args, f)
    BY <1>1, SanitizeReads
  <2>2. args' \in Seq(File) /\ DOMAIN args \subseteq DOMAIN args'
    BY <2>1, ListGrows
  <2> QED
    BY <2>1, <2>2
<1>7. CASE Start
  BY <1>7 DEF Start
<1>2. CASE ReadSource
  BY <1>2 DEF ReadSource, ReadDescription
<1>3. CASE FetchReadme
  <2>1. CASE \E f \in Readmes : args' = Append(args, f)
    <3>1. PICK f \in Readmes : args' = Append(args, f)
      BY <2>1
    <3>2. args' \in Seq(File) /\ DOMAIN args \subseteq DOMAIN args'
      BY <3>1
    <3>3. DOMAIN task = {}
      BY <1>3 DEF FetchReadme
    <3>4. stage' \in Stages /\ exit' \in {"running", "pass", "fail"} /\ tries' \in 0..3
          /\ UNCHANGED <<changed, separator, read, task>>
      BY <1>3 DEF FetchReadme
    <3> QED
      BY <3>2, <3>3, <3>4
  <2>2. CASE UNCHANGED args
    BY <1>3, <2>2 DEF FetchReadme
  <2> QED
    BY <1>3, <2>1, <2>2 DEF FetchReadme
<1>4. CASE Filter
  BY <1>4 DEF Filter, Valid, Task
<1>5. CASE Finish
  BY <1>5 DEF Finish
<1>6. ASSUME NEW i \in DOMAIN task,
             ReadContent(i) \/ LoadTerms(i) \/ ReloadTerms(i) \/ Scan(i)
      PROVE ContentTypeOK' /\ TasksTyped'
  <2>1. /\ UNCHANGED <<changed, separator, read, args, stage, tries, exit>>
        /\ \E r \in Task : task' = [task EXCEPT ![i] = r]
    <3>1. task[i] \in Task
      OBVIOUS
    <3>2. \A pc \in {"read", "load", "reload", "scan"} \cup Results :
            [task EXCEPT ![i].pc = pc] = [task EXCEPT ![i] = [task[i] EXCEPT !.pc = pc]]
            /\ [task[i] EXCEPT !.pc = pc] \in Task
      BY <3>1 DEF Task
    <3>3. CASE ReadContent(i)
      BY <3>2, <3>3 DEF ReadContent, Step, Results
    <3>4. CASE LoadTerms(i)
      BY <3>2, <3>4 DEF LoadTerms, Step, Task
    <3>5. CASE ReloadTerms(i)
      BY <3>5 DEF ReloadTerms, Step, Task
    <3>6. CASE Scan(i)
      BY <3>2, <3>6 DEF Scan, Step, Results
    <3> QED
      BY <1>6, <3>3, <3>4, <3>5, <3>6
  <2>2. PICK r \in Task : task' = [task EXCEPT ![i] = r]
    BY <2>1
  <2> QED
    BY <2>1, <2>2
<1> QED
  BY <1>1, <1>2, <1>3, <1>4, <1>5, <1>6, <1>7 DEF ContentNext

\* Stages follow each other, with the tasks they need.
LEMMA ContentStages ==
    ASSUME ContentInv, ContentNext
    PROVE StagesInOrder'
<1> USE DEF ContentInv, ContentTypeOK, TasksTyped, StagesInOrder, Stages, End
<1>1. CASE Sanitize
  BY <1>1 DEF Sanitize, Clean
<1>7. CASE Start
  BY <1>7 DEF Start
<1>2. CASE ReadSource
  BY <1>2 DEF ReadSource, ReadDescription
<1>3. CASE FetchReadme
  BY <1>3 DEF FetchReadme
<1>4. CASE Filter
  BY <1>4 DEF Filter, Valid
<1>5. CASE Finish
  BY <1>5 DEF Finish
<1>6. ASSUME NEW i \in DOMAIN task,
             ReadContent(i) \/ LoadTerms(i) \/ ReloadTerms(i) \/ Scan(i)
      PROVE StagesInOrder'
  BY <1>6 DEF ReadContent, LoadTerms, ReloadTerms, Scan, Step, Valid
<1> QED
  BY <1>1, <1>2, <1>3, <1>4, <1>5, <1>6, <1>7 DEF ContentNext

\* A task's step leaves everything but its own task alone.
LEMMA TaskStep ==
    ASSUME NEW i \in DOMAIN task,
           ReadContent(i) \/ LoadTerms(i) \/ ReloadTerms(i) \/ Scan(i)
    PROVE /\ UNCHANGED <<changed, separator, read, args, stage, tries, exit>>
          /\ stage = "check"
  BY DEF ReadContent, LoadTerms, ReloadTerms, Scan, Step

\* The changed files stay in the list.
LEMMA ContentKeepsList ==
    ASSUME ContentInv, ContentNext
    PROVE ChangedAreListed'
<1> USE DEF ContentInv, ContentTypeOK
<1>0. changed \in Seq(File) /\ args \in Seq(File)
  BY ChangedIsSeq
\* The lines that were read, in a list that has grown.
<1>g. ASSUME UNCHANGED <<changed, separator>>, read' = read,
             UNCHANGED args \/ \E f \in File : args' = Append(args, f),
             stage' # "sanitize" => read = Len(changed)
      PROVE ChangedAreListed'
  <2>1. \A k \in DOMAIN args : k \in DOMAIN args' /\ args'[k] = args[k]
    BY <1>g, ListGrows
  <2> QED
    BY <1>g, <2>1 DEF ChangedAreListed, OneOnALine
<1>1. CASE Sanitize
  <2>1. /\ UNCHANGED <<changed, separator, stage>> /\ stage = "sanitize"
        /\ read \in Nat /\ Len(changed) \in Nat
        /\ UNCHANGED args \/ \E f \in File : args' = Append(args, f)
    BY <1>1, SanitizeReads
  <2>2. \A k \in DOMAIN args : k \in DOMAIN args' /\ args'[k] = args[k]
    BY <2>1, ListGrows
  <2>3. SUFFICES ASSUME OneOnALine, NEW k \in 1..read', Taken(changed[k])
                 PROVE \E i \in DOMAIN args' : args'[i] = changed[k]
    BY <2>1 DEF ChangedAreListed, OneOnALine
  <2>4. read' = read + 1 /\ Clean(changed[read + 1])
    BY <1>1, <2>3 DEF Sanitize
  <2>5. CASE k \in 1..read
    BY <2>2, <2>3, <2>5 DEF ChangedAreListed
  <2>6. CASE k = read + 1
    <3>1. args' = Append(args, changed[k])
      BY <2>3, <2>4, <2>6 DEF Clean, Taken
    <3>2. Len(args) + 1 \in DOMAIN args' /\ args'[Len(args) + 1] = changed[k]
      BY <1>0, <3>1
    <3> QED
      BY <3>2
  <2> QED
    BY <2>1, <2>3, <2>4, <2>5, <2>6
<1>2. CASE Start
  BY <1>2, <1>g DEF Start
<1>3. CASE ReadSource
  BY <1>3, <1>g DEF ReadSource, ChangedAreListed
<1>4. CASE FetchReadme
  <2>1. UNCHANGED args \/ \E f \in File : args' = Append(args, f)
    BY <1>4 DEF FetchReadme
  <2> QED
    BY <1>4, <1>g, <2>1 DEF FetchReadme, ChangedAreListed
<1>5. CASE Filter \/ Finish
  BY <1>5, <1>g DEF Filter, Finish, ChangedAreListed
<1>6. ASSUME NEW i \in DOMAIN task,
             ReadContent(i) \/ LoadTerms(i) \/ ReloadTerms(i) \/ Scan(i)
      PROVE ChangedAreListed'
  BY <1>6, <1>g, TaskStep DEF ChangedAreListed
<1> QED
  BY <1>1, <1>2, <1>3, <1>4, <1>5, <1>6 DEF ContentNext

\* ReadSource stops a lone Drop without a Source.
LEMMA ContentStopsNoSource ==
    ASSUME ContentInv, ContentNext
    PROVE NoSourceAlone'
<1> USE DEF ContentInv, ContentTypeOK, NoSourceAlone, StagesInOrder, End
<1>0. args \in Seq(File)
  OBVIOUS
<1>1. CASE Sanitize
  BY <1>1, SanitizeReads
<1>7. CASE Start
  BY <1>7 DEF Start
<1>2. CASE ReadSource
  <2>0. UNCHANGED args
    BY <1>2 DEF ReadSource
  <2>1. SUFFICES ASSUME NEW k \in DOMAIN args, exit' # "fail",
                        IsDrop(args[k]), args[k].source = "none"
                 PROVE \E j \in DOMAIN args : j # k /\ InDrops(args[j])
    BY <2>0
  <2>2. k \in Paths
    BY <2>1 DEF Paths, IsDrop, InDrops
  <2>3. Paths # {k}
    <3> SUFFICES ASSUME Paths = {k} PROVE FALSE
      OBVIOUS
    <3>1. PICK i \in DOMAIN args : Paths = {i} /\ ReadDescription(args[i])
      BY <1>2 DEF ReadSource
    <3>2. i = k
      BY <3>1
    <3> QED
      BY <2>1, <3>1, <3>2 DEF ReadDescription
  <2>4. PICK j \in Paths : j # k
    BY <2>2, <2>3
  <2> QED
    BY <2>4 DEF Paths
<1>3. CASE FetchReadme
  <2>1. CASE \E f \in Readmes : args' = Append(args, f)
    <3>1. PICK f \in Readmes : args' = Append(args, f)
      BY <2>1
    <3>2. f \in File /\ ~IsDrop(f)
      BY DEF IsDrop
    <3>3. /\ \A k \in DOMAIN args : k \in DOMAIN args' /\ args'[k] = args[k]
          /\ \A k \in DOMAIN args' \ DOMAIN args : args'[k] = f
      BY <1>0, <3>1, <3>2
    <3>4. stage = "fetch" /\ exit' = exit
      BY <1>3, <1>0, <3>1 DEF FetchReadme
    <3> QED
      BY <3>2, <3>3, <3>4
  <2>2. CASE UNCHANGED args
    BY <1>3, <2>2 DEF FetchReadme
  <2> QED
    BY <1>3, <2>1, <2>2 DEF FetchReadme
<1>4. CASE Filter
  BY <1>4 DEF Filter
<1>5. CASE Finish
  BY <1>5 DEF Finish
<1>6. ASSUME NEW i \in DOMAIN task,
             ReadContent(i) \/ LoadTerms(i) \/ ReloadTerms(i) \/ Scan(i)
      PROVE NoSourceAlone'
  BY <1>6, TaskStep
<1> QED
  BY <1>1, <1>2, <1>3, <1>4, <1>5, <1>6, <1>7 DEF ContentNext

\* Only a Scan finds nothing, and a list that grows keeps what was scanned.
LEMMA ContentScans ==
    ASSUME ContentInv, ContentNext
    PROVE NoneIsClean'
<1> USE DEF ContentInv, NoneIsClean, StagesInOrder, TasksTyped
<1>1. CASE Sanitize
  BY <1>1 DEF Sanitize, Clean
<1>7. CASE Start
  BY <1>7 DEF Start
<1>2. CASE ReadSource
  BY <1>2 DEF ReadSource
<1>3. CASE FetchReadme
  BY <1>3 DEF FetchReadme
<1>4. CASE Filter
  BY <1>4 DEF Filter
<1>5. CASE Finish
  BY <1>5 DEF Finish
<1>6. ASSUME NEW i \in DOMAIN task,
             ReadContent(i) \/ LoadTerms(i) \/ ReloadTerms(i) \/ Scan(i)
      PROVE NoneIsClean'
  <2>1. UNCHANGED args
    BY <1>6, TaskStep
  <2>2. CASE Scan(i)
    <3>1. task' = [task EXCEPT ![i].pc =
                    IF args[i].ext = "json" /\ ~args[i].parses THEN "false"
                    ELSE IF task[i].terms /\ Detects(args[i]) THEN "found"
                    ELSE "none"]
      BY <2>2 DEF Scan
    <3>2. task[i] \in Task
      OBVIOUS
    <3>3. DOMAIN task' = DOMAIN task
          /\ \A k \in DOMAIN task \ {i} : task'[k] = task[k]
      BY <3>1
    <3>4. task'[i].pc = "none" =>
            /\ args[i].ext = "json" => args[i].parses
            /\ task[i].terms => ~Detects(args[i])
      BY <3>1, <3>2 DEF Task
    <3>5. task'[i].terms = task[i].terms
      BY <3>1, <3>2 DEF Task
    <3> QED
      BY <2>1, <3>3, <3>4, <3>5 DEF Detects
  <2>3. CASE ReadContent(i) \/ LoadTerms(i) \/ ReloadTerms(i)
    <3>1. task[i] \in Task
      OBVIOUS
    <3>2. /\ DOMAIN task' = DOMAIN task
          /\ \A k \in DOMAIN task \ {i} : task'[k] = task[k]
      BY <2>3 DEF ReadContent, LoadTerms, ReloadTerms
    <3>3. task'[i].pc # "none"
      BY <2>3, <3>1 DEF ReadContent, LoadTerms, ReloadTerms, Task
    <3> QED
      BY <2>1, <3>2, <3>3 DEF Detects
  <2> QED
    BY <1>6, <2>2, <2>3
<1> QED
  BY <1>1, <1>2, <1>3, <1>4, <1>5, <1>6, <1>7 DEF ContentNext

\* The job passes before there are files or when each has its result.
LEMMA ContentCompletes ==
    ASSUME ContentInv, ContentNext
    PROVE PassIsComplete'
<1> USE DEF ContentInv, PassIsComplete, StagesInOrder, End
<1>1. CASE Sanitize
  BY <1>1 DEF Sanitize, Clean
<1>7. CASE Start
  BY <1>7 DEF Start
<1>2. CASE ReadSource
  BY <1>2 DEF ReadSource, ReadDescription
<1>3. CASE FetchReadme
  BY <1>3 DEF FetchReadme
<1>4. CASE Filter
  BY <1>4 DEF Filter
<1>5. CASE Finish
  BY <1>5 DEF Finish, Valid
<1>6. ASSUME NEW i \in DOMAIN task,
             ReadContent(i) \/ LoadTerms(i) \/ ReloadTerms(i) \/ Scan(i)
      PROVE PassIsComplete'
  BY <1>6, TaskStep
<1> QED
  BY <1>1, <1>2, <1>3, <1>4, <1>5, <1>6, <1>7 DEF ContentNext

\* What PassIsClean says follows from the invariant.
LEMMA ContentInvClean == ContentInv => PassIsClean
<1> SUFFICES ASSUME ContentInv, exit = "pass", args # <<>>,
                    NEW i \in DOMAIN args, InDrops(args[i]),
                    args[i].ext \in {"json", "text"}
             PROVE /\ i \in DOMAIN task
                   /\ args[i].ext = "json" => args[i].parses
                   /\ task[i].terms => args[i].words # "word"
  BY DEF PassIsClean
<1>1. i \in DOMAIN task /\ task[i].pc = "none"
  BY DEF ContentInv, PassIsComplete, Valid
<1>2. task[i].terms => ~Detects(args[i])
  BY <1>1 DEF ContentInv, NoneIsClean
<1>3. ~Detects(args[i]) => args[i].words # "word"
  BY DEF Detects
<1> QED
  BY <1>1, <1>2, <1>3 DEF ContentInv, NoneIsClean

-----------------------------------------------------------------------------
(* The steps of the date check *)

\* What the loop knows of the Drop it is at.
LEMMA DropIsFile ==
    ASSUME DateInv, Processing
    PROVE /\ at \in DOMAIN files /\ at \in Nat /\ Len(files) \in Nat
          /\ Drop \in File
          /\ head[at] \in 0..Never /\ checkout[at] \in 0..Never
  BY DEF DateInv, DateTypeOK, Processing, Drop, Heads

\* A row keeps the invariant when its date is one since the checkout.
LEMMA RowKeeps ==
    ASSUME DateInv, Processing, NEW date, Row(date),
           date \in since[at], date # Never
    PROVE DateInv'
<1> USE DEF DateInv
<1>0. at \in DOMAIN files /\ at \in Nat /\ Len(files) \in Nat
  BY DropIsFile
<1>1. /\ UNCHANGED <<files, head, checkout, since, warned, error, code>>
      /\ at' = at + 1
      /\ outdated' = IF Older(Drop, date) THEN outdated \cup {at} ELSE outdated
      /\ changesFound' = (Older(Drop, date) \/ changesFound)
  BY DEF Row, DateTypeOK
<1>2. at' \in 1..(Len(files) + 1)
  BY <1>0, <1>1 DEF Processing
<1>3. DateTypeOK'
  BY <1>0, <1>1, <1>2 DEF DateTypeOK, Heads, Older
<1>4. DatesAreSince'
  BY <1>1 DEF DatesAreSince
<1>5. PassedAreSeen'
  <2> SUFFICES ASSUME NEW j \in DOMAIN files, j < at + 1, AllOutdate(j)
               PROVE j \in outdated' \/ j \in warned
                     \/ files[j].source = "elsewhere"
    BY <1>1 DEF PassedAreSeen, AllOutdate, Outdates
  <2>1. CASE j < at
    BY <1>1, <2>1 DEF PassedAreSeen
  <2>2. CASE j = at
    BY <1>1, <2>2 DEF AllOutdate, Outdates, Drop
  <2>3. j \in Nat
    BY DEF DateTypeOK
  <2> QED
    BY <1>0, <2>1, <2>2, <2>3
<1>6. OutdatedIsOlder'
  <2>1. Older(Drop, date) => \E d \in since[at] : Outdates(d, at)
    BY DEF Outdates, Drop
  <2> QED
    BY <1>1, <2>1 DEF OutdatedIsOlder, Outdates
<1>7. EndsAtTheEnd'
  BY <1>1 DEF EndsAtTheEnd, Processing
<1>8. ErrorIsHere'
  BY <1>1 DEF ErrorIsHere, Processing
<1> QED
  BY <1>3, <1>4, <1>5, <1>6, <1>7, <1>8

\* A Drop that is passed over keeps the invariant if it has a warning or is
\* hosted elsewhere.
LEMMA PassingKeeps ==
    ASSUME DateInv, Processing, at' = at + 1,
           warned' \in {warned, warned \cup {at}},
           at \in warned' \/ Drop.source = "elsewhere",
           UNCHANGED <<files, head, checkout, since, outdated, changesFound,
                       error, code>>
    PROVE DateInv'
<1> USE DEF DateInv
<1>0. at \in DOMAIN files /\ at \in Nat /\ Len(files) \in Nat
  BY DropIsFile
<1>2. at' \in 1..(Len(files) + 1)
  BY <1>0 DEF Processing
<1>3. DateTypeOK'
  BY <1>0, <1>2 DEF DateTypeOK, Heads
<1>4. DatesAreSince' /\ OutdatedIsOlder'
  BY DEF DatesAreSince, OutdatedIsOlder, Outdates
<1>5. PassedAreSeen'
  <2> SUFFICES ASSUME NEW j \in DOMAIN files, j < at + 1, AllOutdate(j)
               PROVE j \in outdated \/ j \in warned'
                     \/ files[j].source = "elsewhere"
    BY DEF PassedAreSeen, AllOutdate, Outdates
  <2>1. CASE j < at
    BY <2>1 DEF PassedAreSeen
  <2>2. CASE j = at
    BY <2>2 DEF Drop
  <2>3. j \in Nat
    BY DEF DateTypeOK
  <2> QED
    BY <1>0, <2>1, <2>2, <2>3
<1>6. EndsAtTheEnd' /\ ErrorIsHere'
  BY DEF EndsAtTheEnd, ErrorIsHere, Processing
<1> QED
  BY <1>3, <1>4, <1>5, <1>6

\* A push adds a date to those since the checkout.
LEMMA CommitKeeps ==
    ASSUME DateInv, NEW i \in DOMAIN files, Commit(i)
    PROVE DateInv'
<1> USE DEF DateInv
<1>1. PICK d \in 0..Never : /\ head' = [head EXCEPT ![i] = d]
                            /\ since' = [since EXCEPT ![i] = since[i] \cup {d}]
  BY DEF Commit
<1>2. /\ UNCHANGED <<files, at, checkout, outdated, warned, changesFound, error,
                     code>>
      /\ head \in [DOMAIN files -> 0..Never]
      /\ checkout \in [DOMAIN files -> 0..Never]
      /\ since \in [DOMAIN files -> SUBSET (0..Never)]
  BY DEF Commit, DateTypeOK, Heads
<1>3. /\ head' \in [DOMAIN files -> 0..Never]
      /\ since' \in [DOMAIN files -> SUBSET (0..Never)]
  BY <1>1, <1>2
<1>4. \A k \in DOMAIN files : since[k] \subseteq since'[k]
  BY <1>1, <1>2
<1>5. DateTypeOK'
  BY <1>2, <1>3 DEF DateTypeOK, Heads
<1>6. DatesAreSince'
  <2>1. ASSUME NEW k \in DOMAIN files PROVE head'[k] \in since'[k]
    <3>1. CASE k = i
      BY <1>1, <1>2, <3>1
    <3>2. CASE k # i
      BY <1>1, <1>2, <3>2 DEF DatesAreSince
    <3> QED
      BY <3>1, <3>2
  <2> QED
    BY <1>2, <1>4, <2>1 DEF DatesAreSince
<1>7. OutdatedIsOlder'
  <2>1. \A k \in outdated : k \in DOMAIN files
    BY DEF DateTypeOK
  <2> QED
    BY <1>2, <1>4, <2>1 DEF OutdatedIsOlder, Outdates
<1>8. PassedAreSeen'
  BY <1>2, <1>4 DEF PassedAreSeen, AllOutdate, Outdates
<1>9. EndsAtTheEnd' /\ ErrorIsHere'
  BY <1>2 DEF EndsAtTheEnd, ErrorIsHere
<1> QED
  BY <1>5, <1>6, <1>7, <1>8, <1>9

\* The date check keeps its invariant.
LEMMA DateSteps ==
    ASSUME DateInv, DateNext
    PROVE DateInv'
<1>1. CASE ProcessOwn
  <2>0. Processing /\ at \in DOMAIN files
    BY <1>1, DropIsFile DEF ProcessOwn
  <2>1. CASE checkout[at] # Never /\ Row(checkout[at])
    <3>1. checkout[at] \in since[at]
      BY <2>0 DEF DateInv, DatesAreSince
    <3> QED
      BY <2>0, <2>1, <3>1, RowKeeps
  <2>2. CASE ~(checkout[at] # Never /\ Row(checkout[at]))
    <3>1. /\ warned' = warned \cup {at} /\ at' = at + 1
          /\ UNCHANGED <<files, head, checkout, since, outdated, changesFound,
                         error, code>>
      BY <1>1, <2>2 DEF ProcessOwn
    <3> QED
      BY <2>0, <3>1, PassingKeeps
  <2> QED
    BY <2>1, <2>2
<1>2. CASE ProcessExternal
  <2>1. Processing /\ head[at] # Never /\ Row(head[at])
    BY <1>2 DEF ProcessExternal
  <2>2. at \in DOMAIN files
    BY <2>1, DropIsFile
  <2>3. head[at] \in since[at]
    BY <2>2 DEF DateInv, DatesAreSince
  <2> QED
    BY <2>1, <2>3, RowKeeps
<1>3. CASE ProcessElsewhere
  BY <1>3, PassingKeeps DEF ProcessElsewhere
<1>4. CASE Abort
  <2>1. at \in DOMAIN files
    BY <1>4, DropIsFile DEF Abort
  <2>2. PICK e \in Thrown : error' = e
    BY <1>4 DEF Abort
  <2>3. /\ e \in {"syntax", "source", "api", "empty"}
        /\ e = "syntax" => ~files[at].parses
        /\ e = "source" => files[at].source = "none"
    <3>1. Drop.source \in Sources
      BY <1>4, DropIsFile DEF Abort, File
    <3> QED
      BY <2>2, <3>1 DEF Thrown, Drop, Sources
  <2>4. code' = "1"
        /\ UNCHANGED <<files, at, head, checkout, since, outdated, warned,
                       changesFound>>
    BY <1>4 DEF Abort
  <2> QED
    BY <2>1, <2>2, <2>3, <2>4 DEF DateInv, DateTypeOK, Heads, DatesAreSince,
       PassedAreSeen, AllOutdate, Outdates, OutdatedIsOlder, EndsAtTheEnd,
       ErrorIsHere
<1>5. CASE Report
  BY <1>5 DEF Report, DateInv, DateTypeOK, Heads, DatesAreSince,
     PassedAreSeen, AllOutdate, Outdates, OutdatedIsOlder, EndsAtTheEnd, ErrorIsHere
<1>6. CASE \E i \in DOMAIN files : Commit(i)
  BY <1>6, CommitKeeps
<1> QED
  BY <1>1, <1>2, <1>3, <1>4, <1>5, <1>6 DEF DateNext

-----------------------------------------------------------------------------
(* The merge *)

\* A directory is a sequence of files.
LEMMA DirectoryIsSeq ==
    ASSUME changed \in Seq(File), NEW e \in Seq(File), NEW n \in Nat,
           NEW order \in Bijection(1..n, Names(e))
    PROVE /\ Directory(e, order) \in Seq(File)
          /\ DOMAIN Directory(e, order) = 1..n
          /\ Len(Directory(e, order)) = n
          /\ \A k \in 1..n : order[k][1] = "new" =>
                \E i \in DOMAIN changed :
                    Directory(e, order)[k] = changed[i] /\ IsDrop(changed[i])
<1>1. order \in [1..n -> Names(e)]
  BY DEF Bijection, Injection
<1>2. ASSUME NEW k \in 1..n
      PROVE /\ Directory(e, order)[k] \in File
            /\ order[k][1] = "new" =>
                \E i \in DOMAIN changed :
                    Directory(e, order)[k] = changed[i] /\ IsDrop(changed[i])
  <2>1. order[k] \in Names(e)
    BY <1>1
  <2>2. CASE \E i \in DOMAIN changed : order[k] = <<"new", i>> /\ IsDrop(changed[i])
    BY <1>1, <2>2 DEF Directory
  <2>3. CASE \E i \in DOMAIN e : order[k] = <<"old", i>>
    BY <1>1, <2>3 DEF Directory
  <2> QED
    BY <2>1, <2>2, <2>3 DEF Names
<1>3. DOMAIN Directory(e, order) = 1..n
  BY <1>1 DEF Directory
<1>4. Directory(e, order) = [k \in 1..n |-> Directory(e, order)[k]]
  BY <1>1 DEF Directory
<1>5. Directory(e, order) \in [1..n -> File]
  BY <1>2, <1>3, <1>4
<1>6. Directory(e, order) \in Seq(File) /\ Len(Directory(e, order)) = n
  BY <1>3, <1>5
<1> QED
  BY <1>2, <1>3, <1>6

\* The merge begins a run in which nothing has been looked at.
LEMMA MergeKeeps ==
    ASSUME DropInv, MergeAndSchedule
    PROVE DateInv' /\ MergedHavePassed'
<1> USE DEF DropInv, DateInv
<1>0. PICK e \in Existing : \E n \in 0..(Len(changed) + Len(e)) :
        \E order \in Bijection(1..n, Names(e)) :
            /\ files' = Directory(e, order)
            /\ merged' = {k \in 1..n : order[k][1] = "new"}
  BY DEF MergeAndSchedule
<1>a. PICK n \in 0..(Len(changed) + Len(e)) :
        \E order \in Bijection(1..n, Names(e)) :
            /\ files' = Directory(e, order)
            /\ merged' = {k \in 1..n : order[k][1] = "new"}
  BY <1>0
<1>1. PICK order \in Bijection(1..n, Names(e)) :
            /\ files' = Directory(e, order)
            /\ merged' = {k \in 1..n : order[k][1] = "new"}
  BY <1>a
<1>2. /\ exit = "pass" /\ files = <<>> /\ checkout' = head'
      /\ head' \in [DOMAIN files' -> 0..Never]
      /\ since' = [k \in DOMAIN files' |-> {head'[k]}]
      /\ code' = "running"
      /\ UNCHANGED <<contentVars, at, outdated, warned, changesFound, error>>
  BY DEF MergeAndSchedule
<1>3. changed \in Seq(File) /\ e \in Seq(File) /\ n \in Nat
  BY ChangedIsSeq DEF ContentInv
<1>4. /\ files' \in Seq(File) /\ DOMAIN files' = 1..n /\ Len(files') = n
      /\ \A k \in 1..n : order[k][1] = "new" =>
            \E i \in DOMAIN changed : files'[k] = changed[i] /\ IsDrop(changed[i])
  BY <1>1, <1>3, DirectoryIsSeq
<1>5. at = 1 /\ outdated = {} /\ warned = {} /\ error = "none"
  BY <1>2 DEF DateTypeOK, ErrorIsHere
<1>6. DateTypeOK'
  BY <1>2, <1>3, <1>4, <1>5 DEF DateTypeOK, Heads
<1>7. DatesAreSince'
  BY <1>2 DEF DatesAreSince
<1>8. PassedAreSeen'
  BY <1>2, <1>4, <1>5 DEF PassedAreSeen
<1>9. OutdatedIsOlder' /\ EndsAtTheEnd' /\ ErrorIsHere'
  BY <1>2, <1>5 DEF OutdatedIsOlder, EndsAtTheEnd, ErrorIsHere
<1>10. MergedHavePassed'
  BY <1>1, <1>2, <1>4 DEF MergedHavePassed, contentVars
<1> QED
  BY <1>6, <1>7, <1>8, <1>9, <1>10

-----------------------------------------------------------------------------
(* The theorems *)

\* A job that has ended takes no more steps.
LEMMA EndedStays == ContentInv /\ ContentNext => exit # "pass"
  BY TaskStep DEF ContentInv, StagesInOrder, ContentNext, Sanitize, Start, ReadSource,
     FetchReadme, Filter, Finish

\* Every step keeps the invariant.
LEMMA NextDropInv == DropInv /\ [Next]_vars => DropInv'
<1> SUFFICES ASSUME DropInv, [Next]_vars PROVE DropInv'
  OBVIOUS
<1>1. CASE ContentNext /\ UNCHANGED <<dateVars, merged>>
  <2>1. ContentInv'
    BY <1>1, ContentTypes, ContentStages, ContentKeepsList,
       ContentStopsNoSource, ContentScans, ContentCompletes
       DEF DropInv, ContentInv
  <2>2. DateInv'
    BY <1>1 DEF DropInv, DateInv, dateVars, DateTypeOK, Heads, DatesAreSince,
       PassedAreSeen, AllOutdate, Outdates, OutdatedIsOlder, EndsAtTheEnd,
       ErrorIsHere
  <2>3. MergedHavePassed'
    BY <1>1, EndedStays DEF DropInv, MergedHavePassed, dateVars
  <2> QED
    BY <2>1, <2>2, <2>3 DEF DropInv
<1>2. ASSUME UNCHANGED contentVars
      PROVE ContentInv'
  BY <1>2 DEF DropInv, ContentInv, contentVars, ContentTypeOK, TasksTyped,
     StagesInOrder, ChangedAreListed, NoSourceAlone, NoneIsClean,
     PassIsComplete, Valid, OneOnALine
<1>3. CASE MergeAndSchedule
  <2>1. UNCHANGED contentVars
    BY <1>3 DEF MergeAndSchedule
  <2> QED
    BY <1>2, <1>3, <2>1, MergeKeeps DEF DropInv
<1>4. CASE DateNext /\ UNCHANGED <<contentVars, merged>>
  <2>1. DateInv'
    BY <1>4, DateSteps DEF DropInv
  <2>2. UNCHANGED files
    BY <1>4 DEF DateNext, ProcessOwn, ProcessExternal, ProcessElsewhere, Abort,
       Report, Commit, Row
  <2>3. MergedHavePassed'
    BY <1>4, <2>2 DEF DropInv, MergedHavePassed, contentVars
  <2> QED
    BY <1>2, <1>4, <2>1, <2>3 DEF DropInv
<1>5. CASE UNCHANGED vars
  <2>1. DateInv'
    BY <1>5 DEF vars, DropInv, DateInv, dateVars, DateTypeOK, Heads, DatesAreSince,
       PassedAreSeen, AllOutdate, Outdates, OutdatedIsOlder, EndsAtTheEnd,
       ErrorIsHere
  <2>2. MergedHavePassed'
    BY <1>5 DEF vars, DropInv, MergedHavePassed, dateVars, contentVars
  <2> QED
    BY <1>2, <1>5, <2>1, <2>2 DEF DropInv, vars
<1> QED
  BY <1>1, <1>3, <1>4, <1>5 DEF Next

\* The invariants of both checks, which the other theorems rest on: the tasks
\* of a job that passed have looked at all its files, and the loop of the date
\* check has judged every Drop it is through with.
THEOREM DropInvariant == Spec => []DropInv
  BY InitDropInv, NextDropInv, PTL DEF Spec

\* Every variable of both checks keeps its type.
THEOREM TypeCorrect == Spec => []TypeOK
<1>1. DropInv => TypeOK
  BY DEF DropInv, ContentInv, DateInv, TypeOK, MergedHavePassed
<1> QED
  BY <1>1, DropInvariant, PTL

\* A content check that passes has parsed every JSON file under drops/ that it
\* was given and has found no term of letters and digits that stands between
\* spaces in a file there, unless it could not read the list.
THEOREM PassesAreClean == Spec => []PassIsClean
<1>1. DropInv => PassIsClean
  BY ContentInvClean DEF DropInv
<1> QED
  BY <1>1, DropInvariant, PTL

\* Whatever is pushed while the date check runs, it has missed no Drop that was
\* outdated all the time, and lists none that never was.
THEOREM ReportsAreTrue == Spec => []ReportIsTrue
<1>1. DropInv => ReportIsTrue
  <2> SUFFICES ASSUME DropInv PROVE ReportIsTrue
    OBVIOUS
  <2>1. ASSUME code = "0", NEW i \in DOMAIN files, AllOutdate(i)
        PROVE i \in warned \/ files[i].source = "elsewhere"
    <3>1. outdated = {} /\ at > Len(files)
      BY <2>1 DEF DropInv, DateInv, EndsAtTheEnd
    <3>2. i < at
      BY <3>1 DEF DropInv, DateInv, DateTypeOK
    <3> QED
      BY <2>1, <3>1, <3>2 DEF DropInv, DateInv, PassedAreSeen
  <2>2. OutdatedIsOlder
    BY DEF DropInv, DateInv
  <2> QED
    BY <2>1, <2>2 DEF ReportIsTrue, AllOutdate, OutdatedIsOlder
<1> QED
  BY <1>1, DropInvariant, PTL

\* A merged Drop of a plain name, one on a line, does not stop the weekly check
\* by its form, nor by a missing Source unless the content check was given
\* another path in drops/.
THEOREM BadFilesAreCaught == Spec => []OneFileIsCaught
<1>1. DropInv => OneFileIsCaught
  <2> SUFFICES ASSUME DropInv, at \in merged, OneOnALine,
                      files[at].name = "plain"
               PROVE /\ error # "syntax"
                     /\ error = "source" => \E i, j \in DOMAIN args :
                         i # j /\ InDrops(args[i]) /\ InDrops(args[j])
    BY DEF OneFileIsCaught
  <2>1. PICK k \in DOMAIN changed : files[at] = changed[k] /\ IsDrop(changed[k])
    BY DEF DropInv, MergedHavePassed
  <2>2. exit = "pass" /\ stage = "end"
    BY DEF DropInv, MergedHavePassed, ContentInv, StagesInOrder
  <2>3. k \in 1..read
    <3>1. changed \in Seq(File)
      BY ChangedIsSeq DEF DropInv, ContentInv
    <3> QED
      BY <2>2, <3>1 DEF DropInv, ContentInv, ChangedAreListed
  <2>4. Taken(changed[k])
    BY <2>1 DEF Taken, IsDrop
  <2>5. PICK i \in DOMAIN args : args[i] = changed[k]
    BY <2>3, <2>4 DEF DropInv, ContentInv, ChangedAreListed
  <2>6. args # <<>> /\ IsDrop(args[i]) /\ InDrops(args[i])
        /\ args[i].ext = "json"
    BY <2>1, <2>5 DEF IsDrop, InDrops
  <2>7. args[i].parses
    BY <2>2, <2>6, ContentInvClean DEF DropInv, PassIsClean
  <2>8. error # "syntax"
    BY <2>1, <2>5, <2>7 DEF DropInv, DateInv, ErrorIsHere
  <2>9. ASSUME error = "source"
        PROVE \E j \in DOMAIN args : j # i /\ InDrops(args[j])
    <3>1. args[i].source = "none"
      BY <2>1, <2>5, <2>9 DEF DropInv, DateInv, ErrorIsHere
    <3> QED
      BY <2>2, <2>6, <3>1 DEF DropInv, ContentInv, NoSourceAlone
  <2> QED
    BY <2>6, <2>8, <2>9
<1> QED
  BY <1>1, DropInvariant, PTL
=============================================================================
