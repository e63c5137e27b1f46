---------------------------- MODULE MCDropChecks ----------------------------
(* TLC instances of DropChecks: pull requests of one and two files. *)
EXTENDS DropChecks, TLC

\* The description of a Drop, as good as it can be.
Good == [place |-> "drops", name |-> "plain", ext |-> "json", words |-> "clean",
         parses |-> TRUE, source |-> "own", modified |-> 0]

\* What differs from it in one thing.
OfSource(s) == [Good EXCEPT !.source = s]
Worded(w) == [Good EXCEPT !.words = w]
Text(place, w) == [Good EXCEPT !.place = place, !.ext = "text", !.words = w,
                               !.parses = FALSE, !.source = "none",
                               !.modified = NoDate]

Renamed(f) == [f EXCEPT !.name = "altered"]

Unparsable == [Good EXCEPT !.parses = FALSE]

SomeFiles ==
    {OfSource(s) : s \in Sources} \cup {Worded(w) : w \in Wordings}
        \cup {Unparsable, Renamed(Unparsable), Renamed(OfSource("none")),
              [Good EXCEPT !.ext = "other"], [Good EXCEPT !.ext = "unlisted"],
              [OfSource("none") EXCEPT !.place = "below"],
              [OfSource("external") EXCEPT !.modified = NoDate],
              Text("drops", "word"), Text("drops", "punctuated"),
              Text("drops", "marked"), Text("artifacts", "word")}

OneOrTwo == {<<f>> : f \in SomeFiles} \cup {<<f, g>> : f, g \in SomeFiles}

SomeReadmes == {Text("web", "word"), Text("below", "word"), Text("below", "clean")}

OneOther == {Good}

Repository == {<<>>, <<OfSource("external")>>}

\* Once Drops are in the repository no step reads what the job kept of them,
\* PassIsClean, which does, was checked before, and OneFileIsCaught asks for the
\* paths in drops/ only.  Of the dates of a Drop's source, steps read the one
\* that is asked for, until it was, and ReportIsTrue whether all or some of
\* them outdate the Drop.
Asked(i) ==
    IF i < at THEN Never
    ELSE IF files[i].source = "own" THEN checkout[i] ELSE head[i]

Dates(i) ==
    IF files[i].parses /\ files[i].source \in {"own", "fork", "external"}
    THEN <<Asked(i), \A date \in since[i] : Outdates(date, i),
           \E date \in since[i] : Outdates(date, i)>>
    ELSE <<>>

Jobs == IF files = <<>> THEN vars
        ELSE <<OneOnALine, Paths,
               [i \in DOMAIN files |->
                    <<files[i].name, files[i].parses, files[i].source,
                      files[i].modified, Dates(i)>>],
               at, outdated, warned, changesFound, error, code, merged>>
=============================================================================
