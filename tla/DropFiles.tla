------------------------------ MODULE DropFiles ------------------------------
(***************************************************************************)
(* What the checks of the repository's Drops tell apart in a file: whether *)
(* it lies in drops/, how it is named, the words in it, and, if it is the  *)
(* description of a Drop, whether it parses, the kind of its Source and    *)
(* its LastModified.                                                       *)
(***************************************************************************)
EXTENDS Naturals

CONSTANTS
    MaxDate,    \* bound: dates are 0..MaxDate
    NoDate      \* no LastModified, or one that is not a date

ASSUME DateAssumption == MaxDate \in Nat /\ NoDate \notin 0..MaxDate

\* Directly in drops/, below a directory of a path of which the last part
\* ends so, elsewhere in the repository, or on the web.
Places == {"drops", "below", "artifacts", "web"}

\* "altered": a name with other characters than letters, digits and _ . / -
FileNames == {"plain", "altered"}

\* "other": an extension the workflow takes and the validator does not, such
\* as .JSON; "unlisted": one that neither takes.
Extensions == {"json", "text", "other", "unlisted"}

\* How a listed term stands in the file, if one does: a term of letters and
\* digits between spaces (or one with such a part), with a punctuation mark
\* next to it, or right behind a line break, which JSON spells with a letter;
\* a term that has a mark in it; a term that has a blank in it or at its end.
Wordings == {"clean", "word", "punctuated", "wrapped", "marked", "spaced"}

\* In this repository, in a fork of it, on GitHub, anywhere else, or missing.
Sources == {"own", "fork", "external", "elsewhere", "none"}

File == [place : Places, name : FileNames, ext : Extensions, words : Wordings,
         parses : BOOLEAN, source : Sources, modified : 0..MaxDate \cup {NoDate}]

InDrops(f) == f.place \in {"drops", "below"}
IsDrop(f) == f.place = "drops" /\ f.ext = "json"
=============================================================================
