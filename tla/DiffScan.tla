------------------------------ MODULE DiffScan ------------------------------
(***************************************************************************)
(* How scanDiff reads the diff of a push (internal/chain/scan_diff.go):    *)
(* the added lines are picked out of git's output, whose headers and       *)
(* contents are told apart by their first characters and by whether a hunk *)
(* has begun, and matched with the configured rules.                       *)
(*                                                                         *)
(* A line is its leading characters and the path or the number after them; *)
(* of a content it matters with which characters it begins and which rules *)
(* it matches.                                                             *)
(***************************************************************************)
EXTENDS Integers, Sequences, FiniteSets, SequencesExt

CONSTANTS
    Context,   \* lines of context git shows around a change (3)
    Hits       \* what a content's characters match: [Char -> SUBSET rules]

Rules == {"literal", "pattern", "provider"}

\* A rule that the plus sign before an added line matches would match every line.
ASSUME DiffAssumption ==
    /\ Context \in Nat
    /\ "+" \in DOMAIN Hits
    /\ Hits["+"] = {}

DevNull == "/dev/null"
NoFile == ""

Line(text, path, start) == [text |-> text, path |-> path, start |-> start]

\* A changed file: its paths before and after, and the edits that lead from one
\* content to the other, with git's note where a last line has no newline.  A deleted
\* file's path is DevNull, and it has no new content.
Operations == {"keep", "del", "add", "noNewline"}
Edits == [op : Operations, text : Seq(DOMAIN Hits)]
Changes ==
    {c \in [old : STRING, new : STRING, edits : Seq(Edits)] :
        c.new = DevNull => \A i \in DOMAIN c.edits : c.edits[i].op \notin {"keep", "add"}}

-----------------------------------------------------------------------------
(* What git prints *)

DiffHeader == <<"d">>
NewPath == <<"+", "+", "+", " ">>
OldPath == <<"-", "-", "-", " ">>
Hunk == <<"@", "@">>

Marker(op) ==
    CASE op = "keep" -> <<" ">> [] op = "del" -> <<"-">>
      [] op = "add" -> <<"+">>  [] op = "noNewline" -> <<"\\">>

\* The number of the new content's lines among the first n edits.
NewLines(edits, n) == Cardinality({i \in 1..n : edits[i].op \in {"keep", "add"}})

Shown(edits, i) ==
    \E j \in DOMAIN edits : edits[j].op \in {"del", "add"} /\ i - j \in -Context..Context

\* One edit's line, after a hunk header where the lines before it are not shown.
PrintEdit(edits, i) ==
    IF ~Shown(edits, i) THEN <<>>
    ELSE (IF i > 1 /\ Shown(edits, i - 1) THEN <<>>
          ELSE <<Line(Hunk, NoFile, NewLines(edits, i - 1) + 1)>>)
         \o <<Line(Marker(edits[i].op) \o edits[i].text, NoFile, 0)>>

PrintChange(change) ==
    <<Line(DiffHeader, NoFile, 0), Line(<<"i">>, NoFile, 0),
      Line(OldPath, change.old, 0), Line(NewPath, change.new, 0)>>
    \o FlattenSeq([i \in DOMAIN change.edits |-> PrintEdit(change.edits, i)])

\* The output of git diff, which ends with an empty line after the last newline.
GitDiff(changes) ==
    IF changes = <<>> THEN <<>>
    ELSE FlattenSeq([i \in DOMAIN changes |-> PrintChange(changes[i])])
         \o <<Line(<<>>, NoFile, 0)>>

-----------------------------------------------------------------------------
(* What scanDiff makes of it *)

stripDiffPath(path) == IF path = DevNull THEN NoFile ELSE path

Begins(raw, prefix) == IsPrefix(prefix, raw.text)

Parser == [file |-> NoFile, newLine |-> 0, inHunk |-> FALSE, out |-> <<>>]

AddLine(p, raw) ==
    [p EXCEPT !.out = Append(@, [file |-> p.file, line |-> p.newLine, content |-> raw.text]),
              !.newLine = @ + 1]

\* Mutant: git's note on a missing newline counts as a line.
IsContextOrNote(raw) ==
    \A m \in {DiffHeader, Hunk, <<"+">>, <<"-">>} : ~Begins(raw, m)

\* Neither a header nor an added, a deleted or git's own line.
IsContext(raw) ==
    \A m \in {DiffHeader, Hunk, <<"+">>, <<"-">>, <<"\\">>} : ~Begins(raw, m)

ParseLine(p, raw) ==
    CASE Begins(raw, DiffHeader) -> [p EXCEPT !.inHunk = FALSE, !.file = NoFile]
      [] ~p.inHunk /\ Begins(raw, NewPath) -> [p EXCEPT !.file = stripDiffPath(raw.path)]
      [] ~p.inHunk /\ Begins(raw, OldPath) ->
            IF p.file = NoFile THEN [p EXCEPT !.file = stripDiffPath(raw.path)] ELSE p
      [] Begins(raw, Hunk) -> [p EXCEPT !.newLine = raw.start, !.inHunk = TRUE]
      [] p.inHunk /\ Begins(raw, <<"+">>) -> AddLine(p, raw)
      [] p.inHunk /\ IsContext(raw) -> [p EXCEPT !.newLine = @ + 1]
      [] OTHER -> p

\* The loop over the lines, from some state of the parser.
ParseLines(p, diff) ==
    LET after[n \in 0..Len(diff)] == IF n = 0 THEN p ELSE ParseLine(after[n - 1], diff[n])
    IN after[Len(diff)]

parseAddedChanges(diff) == ParseLines(Parser, diff).out

\* Providers are not looked for in a private organisation's repository.
diffMatchers(private) == IF private THEN Rules \ {"provider"} ELSE Rules

\* What matches is reported once per rule and file, with all its lines.
scanDiffViolations(diff, matchers) ==
    LET found == {h \in matchers \X ToSet(parseAddedChanges(diff)) :
                     \E k \in DOMAIN h[2].content : h[1] \in Hits[h[2].content[k]]}
    IN {[rule |-> f[1], file |-> f[2].file,
         lines |-> {g[2].line : g \in {h \in found : h[1] = f[1] /\ h[2].file = f[2].file}}] :
           f \in found}

-----------------------------------------------------------------------------
(* What a push adds *)

\* The lines of the new contents that the old ones do not have.
AddedLines(changes) ==
    UNION {{[file |-> changes[f].new, line |-> NewLines(changes[f].edits, i),
             text |-> changes[f].edits[i].text] :
                i \in {j \in DOMAIN changes[f].edits : changes[f].edits[j].op = "add"}} :
           f \in DOMAIN changes}
=============================================================================
