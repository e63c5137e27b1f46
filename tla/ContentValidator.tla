--------------------------- MODULE ContentValidator ---------------------------
(***************************************************************************)
(* The content check of a pull request: the step of                        *)
(* content-validator.yaml that passes the changed files on, and            *)
(* validator.js, which looks for listed words in those under drops/ and    *)
(* tries to add the README of a Drop that is hosted elsewhere.  One        *)
(* asynchronous task per file reads the file and, with an engine of its    *)
(* own, the word list.                                                     *)
(*                                                                         *)
(* External: the list of changed files (tj-actions/changed-files), the web *)
(* the README is fetched from, and reads that fail.                        *)
(***************************************************************************)
EXTENDS DropFiles, Sequences

CONSTANTS
    PullRequests,   \* the files a pull request may change
    Readmes,        \* what the three URLs may lead to: files, place "web",
                    \* or "below" when the name of the repository ends so
    Namesakes       \* files of the repository a changed name may turn into

ASSUME ContentAssumption ==
    /\ PullRequests \subseteq Seq(File)
    /\ Readmes \subseteq {f \in File : f.place \in {"below", "web"}}
    /\ Namesakes \subseteq File

VARIABLES
    changed,    \* the changed files
    separator,  \* between their names in ALL_CHANGED_FILES
    read,       \* names the loop of the step has read
    args,       \* sanitized_files, then urlsOrFilePaths
    stage,      \* how far the job is
    tries,      \* URLs tried for the README
    task,       \* the tasks of the files that are validated
    exit        \* of the job

contentVars == <<changed, separator, read, args, stage, tries, task, exit>>

Stages == {"sanitize", "source", "fetch", "filter", "check", "end"}
Results == {"found", "none", "false"}
Task == [pc : {"read", "load", "reload", "scan"} \cup Results, terms : BOOLEAN]

ContentTypeOK ==
    /\ changed \in PullRequests
    /\ separator \in {"space", "newline"}
    /\ read \in 0..Len(changed)
    /\ args \in Seq(File)
    /\ stage \in Stages
    /\ tries \in 0..3
    /\ \A i \in DOMAIN task : i \in DOMAIN args /\ task[i] \in Task
    /\ exit \in {"running", "pass", "fail"}

ContentInit ==
    /\ changed \in PullRequests
    /\ separator \in {"space", "newline"}
    /\ read = 0
    /\ args = <<>>
    /\ stage = "sanitize"
    /\ tries = 0
    /\ task = <<>>
    /\ exit = "running"

End(result) == stage' = "end" /\ exit' = result

-----------------------------------------------------------------------------

OneOnALine == separator = "newline" \/ Len(changed) <= 1

\* A file is passed on if its name survives the whitelist, which has no blank,
\* and its extension is listed.
Taken(f) == f.name = "plain" /\ f.ext # "unlisted"

\* Without the characters it may not have, a name is no file's or another's.
Clean(f) ==
    \/ Taken(f) /\ args' = Append(args, f)
    \/ ~Taken(f) /\ UNCHANGED args
    \/ /\ f.name = "altered"
       /\ \E g \in {h \in Namesakes : Taken(h)} : args' = Append(args, g)

\* The loop takes a line for a name. Of a line with several names the blanks
\* are deleted, and no file has the name that is left.
Sanitize ==
    /\ stage = "sanitize"
    /\ read < Len(changed)
    /\ IF OneOnALine
       THEN read' = read + 1 /\ Clean(changed[read + 1])
       ELSE read' = Len(changed) /\ UNCHANGED args
    /\ UNCHANGED <<changed, separator, stage, tries, task, exit>>

\* Without names the validator is not started and the job passes.
Start ==
    /\ stage = "sanitize"
    /\ read = Len(changed)
    /\ IF args = <<>> THEN End("pass") ELSE stage' = "source" /\ UNCHANGED exit
    /\ UNCHANGED <<changed, separator, read, args, tries, task>>

\* The paths in drops/, by their places in the list.
Paths == {i \in DOMAIN args : InDrops(args[i])}

\* source?.includes(): a Drop without a Source passes for an external one.
DescriptionOptional(f) ==
    IF ~f.parses THEN End("fail")
    ELSE /\ stage' = IF f.source \in {"own", "fork", "none"}
                     THEN "filter" ELSE "fetch"
         /\ UNCHANGED exit

\* Whatever JSON.parse() or includes() throws ends the program.
ReadDescription(f) ==
    IF ~f.parses \/ f.source = "none" THEN End("fail")
    ELSE /\ stage' = IF f.source \in {"own", "fork"} THEN "filter" ELSE "fetch"
         /\ UNCHANGED exit

\* With exactly one path in drops/ that file is taken for the description of
\* the Drop.
ReadSource ==
    /\ stage = "source"
    /\ \/ /\ \A i \in DOMAIN args : Paths # {i}
          /\ stage' = "filter"
          /\ UNCHANGED exit
       \/ \E i \in DOMAIN args : Paths = {i} /\ ReadDescription(args[i])
    /\ UNCHANGED <<changed, separator, read, args, tries, task>>

\* README.md, index.md, _index.md: the first that is there joins the list.
FetchReadme ==
    /\ stage = "fetch"
    /\ \/ \E f \in Readmes : args' = Append(args, f)
          /\ stage' = "filter"
          /\ UNCHANGED <<tries, exit>>
       \/ /\ tries' = tries + 1
          /\ stage' = IF tries' = 3 THEN "filter" ELSE "fetch"
          /\ UNCHANGED <<args, exit>>
       \/ End("fail") /\ UNCHANGED <<args, tries>>
    /\ UNCHANGED <<changed, separator, read, task>>

\* "Only the first file will be kept."
FirstValid ==
    {i \in DOMAIN args : /\ InDrops(args[i]) /\ args[i].ext # "other"
                         /\ \A j \in 1..(i - 1) : ~InDrops(args[j])}

\* The splice() shortens another list: every file is kept.
Valid == {i \in DOMAIN args : InDrops(args[i]) /\ args[i].ext # "other"}

Filter ==
    /\ stage = "filter"
    /\ task' = [i \in Valid |-> [pc |-> "read", terms |-> FALSE]]
    /\ stage' = "check"
    /\ UNCHANGED <<changed, separator, read, args, tries, exit>>

-----------------------------------------------------------------------------
(* The task of a file *)

Step(i, from) ==
    /\ stage = "check"
    /\ i \in DOMAIN task
    /\ task[i].pc = from
    /\ UNCHANGED <<changed, separator, read, args, stage, tries, exit>>

\* readFile() or fetch(): an error is caught, and the result is false.
ReadContent(i) ==
    /\ Step(i, "read")
    /\ \E to \in {"load", "false"} : task' = [task EXCEPT ![i].pc = to]

\* initialize(): a list that cannot be read is an empty one, and
\* hasCurseWords() tries a second time.
LoadTerms(i) ==
    /\ Step(i, "load")
    /\ \/ task' = [task EXCEPT ![i] = [pc |-> "scan", terms |-> TRUE]]
       \/ task' = [task EXCEPT ![i].pc = "reload"]

ReloadTerms(i) ==
    /\ Step(i, "reload")
    /\ \E b \in BOOLEAN : task' = [task EXCEPT ![i] = [pc |-> "scan", terms |-> b]]

\* hasCurseWords() compares what stands between white space; in JSON, as
\* stringify() writes it, it first makes blanks of all marks.
Detects(f) ==
    f.words \in IF f.ext = "json" THEN {"word", "punctuated"}
                ELSE {"word", "wrapped", "marked"}

Scan(i) ==
    /\ Step(i, "scan")
    /\ task' = [task EXCEPT ![i].pc =
                    IF args[i].ext = "json" /\ ~args[i].parses THEN "false"
                    ELSE IF task[i].terms /\ Detects(args[i]) THEN "found"
                    ELSE "none"]

\* flat() leaves a false in the results, which then counts as a finding.
Finish ==
    /\ stage = "check"
    /\ \A i \in DOMAIN task : task[i].pc \in Results
    /\ End(IF \E i \in DOMAIN task : task[i].pc # "none" THEN "fail" ELSE "pass")
    /\ UNCHANGED <<changed, separator, read, args, tries, task>>

ContentNext ==
    \/ Sanitize \/ Start \/ ReadSource \/ FetchReadme \/ Filter \/ Finish
    \/ \E i \in DOMAIN task :
        ReadContent(i) \/ LoadTerms(i) \/ ReloadTerms(i) \/ Scan(i)

-----------------------------------------------------------------------------
(* Properties *)

\* Though files are read one by one and each failure is caught on its own, a
\* job that passes after the validator ran has parsed every JSON file under
\* drops/ that it was given, and no text or JSON there has a listed term of
\* letters and digits between spaces, unless the word list could not be read
\* twice. Of other terms and places of terms nothing can be said of both.
PassIsClean ==
    (exit = "pass" /\ args # <<>>) =>
        \A i \in DOMAIN args :
            (InDrops(args[i]) /\ args[i].ext \in {"json", "text"}) =>
                /\ i \in DOMAIN task
                /\ args[i].ext = "json" => args[i].parses
                /\ task[i].terms => args[i].words # "word"
=============================================================================
