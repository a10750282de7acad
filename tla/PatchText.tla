------------------------------ MODULE PatchText ------------------------------
(***************************************************************************)
(* What the file tools do with text: the parser of the patch envelope and  *)
(* the hunks (fileops/patch.go), the paths the access policy finds in a    *)
(* patch (tools/files/policy.go), and the pages of read_file               *)
(* (fileops/fileops.go). A patch line is [k, path], the text after a '+',  *)
(* '-' or ' ' left out; a text is its pieces between newlines, as          *)
(* strings.Split gives them.                                               *)
(***************************************************************************)
EXTENDS Integers, Sequences, SequencesExt, FiniteSets

CONSTANTS PatchPaths,   \* the paths a patch may name
          MaxTokens,    \* bound: lines of a patch after its first
          Scripts,      \* diffs of whole files: sequences of [k, text], k one of keep, cut, put
          Widths, MaxReadLines, MaxReadBytes \* the line widths of the files read; the limits of a page
PatchAssumption == MaxReadLines \in Nat \ {0} /\ MaxReadBytes \in Nat
ASSUME PatchAssumption

VARIABLES patch, parser,    \* the lines read so far, and where the parser is
          script, edit,     \* a diff, and the application of hunks made from it
          widths, page      \* a file, and the reader that follows next_offset_lines through it
ptVars == <<patch, parser, script, edit, widths, page>>
parseVars == <<patch, parser>>
editVars == <<script, edit>>
pageVars == <<widths, page>>

-----------------------------------------------------------------------------
(* parsePatch, line by line *)

Tokens == [k : {"blank", "end", "hunk", "put", "cut", "keep", "eof", "other"}, path : {""}]
          \cup [k : {"add", "delete", "update", "move"}, path : PatchPaths]
ParserAtStart == [mode |-> "top", ops |-> <<>>]
FileMarks == {"end", "add", "delete", "update"}

Fail(s) == [s EXCEPT !.mode = "error"]
OpOf(t) == [kind |-> t.k, path |-> t.path, to |-> "", body |-> <<>>]
InLast(s, t) == [s EXCEPT !.ops[Len(s.ops)].body = Append(@, t.k)]
LastOp(s) == s.ops[Len(s.ops)]
\* The loop of parsePatch, between two file operations.
parseTop(s, t) ==
    CASE t.k = "blank" -> s
      [] t.k = "end" -> IF s.ops = <<>> THEN Fail(s) ELSE [s EXCEPT !.mode = "ended"]
      [] t.k = "add" -> [mode |-> "add", ops |-> Append(s.ops, OpOf(t))]
      [] t.k = "delete" -> [s EXCEPT !.ops = Append(@, OpOf(t))]
      [] t.k = "update" -> [mode |-> "updatehead", ops |-> Append(s.ops, OpOf(t))]
      [] OTHER -> Fail(s)
parseAddFile(s, t) ==
    CASE t.k \in FileMarks \cup {"move", "eof"} ->
              IF LastOp(s).body = <<>> THEN Fail(s) ELSE parseTop([s EXCEPT !.mode = "top"], t)
      [] t.k = "put" -> InLast(s, t)
      [] OTHER -> Fail(s)
parseUpdateFile(s, t) ==
    CASE t.k = "move" /\ s.mode = "updatehead" -> [s EXCEPT !.mode = "update", !.ops[Len(s.ops)].to = t.path]
      [] t.k \in FileMarks ->
              IF LastOp(s).body = <<>> /\ LastOp(s).to = "" THEN Fail(s) ELSE parseTop([s EXCEPT !.mode = "top"], t)
      [] t.k = "hunk" -> [InLast(s, t) EXCEPT !.mode = "hunk"]
      [] t.k = "blank" -> [s EXCEPT !.mode = "update"]
      [] OTHER -> Fail(s)
\* fault: a blank line in a hunk is skipped; so is a line of an unknown kind.
parseHunkLoose(s, t) ==
    CASE t.k \in {"put", "cut", "keep", "eof"} -> InLast(s, t)
      [] t.k \in FileMarks \cup {"hunk"} -> parseUpdateFile([s EXCEPT !.mode = "update"], t)
      [] OTHER -> s
parseHunk(s, t) ==
    CASE t.k \in {"put", "cut", "keep", "eof"} -> InLast(s, t)
      [] t.k \in FileMarks \cup {"hunk"} ->
              IF Last(SelectSeq(LastOp(s).body, LAMBDA b : b # "eof")) = "hunk" THEN Fail(s)
              ELSE parseUpdateFile([s EXCEPT !.mode = "update"], t)
      [] OTHER -> Fail(s)
parseLine(s, t) ==
    CASE s.mode = "top" -> parseTop(s, t)
      [] s.mode = "add" -> parseAddFile(s, t)
      [] s.mode \in {"updatehead", "update"} -> parseUpdateFile(s, t)
      [] s.mode = "hunk" -> parseHunk(s, t)
      [] s.mode = "ended" -> IF t.k = "blank" THEN s ELSE Fail(s)

ParseNext ==
    /\ Len(patch) < MaxTokens /\ parser.mode # "error"
    /\ \E t \in Tokens : patch' = Append(patch, t) /\ parser' = parseLine(parser, t)
    /\ UNCHANGED <<editVars, pageVars>>

\* pathsFromPatchEnvelope: the policy's own scan of the same text.
\* fault: the destination of a move is not looked at.
scanWithoutMoves(lines) == {t.path : t \in {x \in Range(lines) : x.k \in {"add", "delete", "update"}}}
pathsFromPatchEnvelope(lines) == {t.path : t \in {x \in Range(lines) : x.k \in {"add", "delete", "update", "move"}}}

-----------------------------------------------------------------------------
(* applyHunks, on hunks cut out of a true diff *)

OldLines(d) == LET old(x) == x.k \in {"keep", "cut"} IN [k \in DOMAIN SelectSeq(d, old) |-> SelectSeq(d, old)[k].text]
NewLines(d) == LET new(x) == x.k \in {"keep", "put"} IN [k \in DOMAIN SelectSeq(d, new) |-> SelectSeq(d, new)[k].text]
\* The text of some lines, with or without a newline after the last; no line, no newline.
FileText(lines, nl) == IF lines = <<>> THEN <<"">> ELSE IF nl THEN Append(lines, "") ELSE lines
hadTrailingNewline(text) == Len(text) > 1 /\ Last(text) = ""
splitLogicalLines(text) == IF Last(text) = "" THEN Front(text) ELSE text
\* Two stretches of a diff that hold all its changes, each with a line of the old file.
Cuts(d) ==
    {c \in (DOMAIN d) \X (0 .. Len(d)) \X (DOMAIN d) \X (0 .. Len(d)) :
        /\ c[1] <= c[2] /\ c[2] < c[3] /\ c[3] <= c[4] + 1
        /\ \A k \in DOMAIN d : d[k].k = "keep" \/ k \in c[1] .. c[2] \/ k \in c[3] .. c[4]
        /\ OldLines(SubSeq(d, c[1], c[2])) # <<>>
        /\ c[3] <= c[4] => OldLines(SubSeq(d, c[3], c[4])) # <<>>}
HunksOf(d, c) == <<SubSeq(d, c[1], c[2])>> \o (IF c[3] <= c[4] THEN <<SubSeq(d, c[3], c[4])>> ELSE <<>>)

MatchesFrom(lines, chunk, begin) ==
    {k \in begin .. Len(lines) - Len(chunk) : SubSeq(lines, k + 1, k + Len(chunk)) = chunk}
\* fault: the first match is taken, however many there are.
findFirstChunk(lines, chunk, start) ==
    LET m == MatchesFrom(lines, chunk, start) IN IF m = {} THEN {} ELSE {CHOOSE k \in m : \A j \in m : k <= j}
\* From the end of the last hunk on; in the whole file when there is nothing there.
findUniqueChunk(lines, chunk, start) ==
    LET m == MatchesFrom(lines, chunk, start) IN IF m = {} /\ start > 0 THEN MatchesFrom(lines, chunk, 0) ELSE m
replaceChunk(lines, at, chunk, new) == SubSeq(lines, 1, at) \o new \o SubSeq(lines, at + Len(chunk) + 1, Len(lines))
applyHunk ==
    /\ edit.pc = "apply" /\ edit.hunks # <<>>
    /\ LET old == OldLines(Head(edit.hunks))
           new == NewLines(Head(edit.hunks))
           at == findUniqueChunk(edit.lines, old, edit.start)
       IN IF Cardinality(at) # 1 THEN edit' = [edit EXCEPT !.pc = "refused"]
          ELSE LET k == CHOOSE x \in at : TRUE IN
               edit' = [edit EXCEPT !.lines = replaceChunk(@, k, old, new), !.start = k + Len(new), !.hunks = Tail(@)]
    /\ UNCHANGED <<parseVars, script, pageVars>>
\* strings.Join, and the newline of the old text again unless an end-of-file mark forbids it.
Joined(lines) == IF lines = <<>> THEN <<"">> ELSE lines
applyEnds ==
    /\ edit.pc = "apply" /\ edit.hunks = <<>>
    /\ LET out == Joined(edit.lines) IN
       edit' = [edit EXCEPT !.pc = "done",
                            !.text = IF hadTrailingNewline(@) /\ ~edit.endOfFile THEN Append(out, "") ELSE out]
    /\ UNCHANGED <<parseVars, script, pageVars>>
NoEdit == [pc |-> "none", text |-> <<"">>, newline |-> FALSE, lines |-> <<>>, start |-> 0, hunks |-> <<>>, endOfFile |-> FALSE]
\* A text that has the old lines, its diff cut at c, an end-of-file mark in it or not.
EditOf(d, c, nl, mark) ==
    [pc |-> "apply", text |-> FileText(OldLines(d), nl), newline |-> nl, lines |-> splitLogicalLines(FileText(OldLines(d), nl)),
     start |-> 0, hunks |-> HunksOf(d, c), endOfFile |-> mark]
Edits(d) == {e \in {EditOf(d, c, nl, mark) : c \in Cuts(d), nl, mark \in BOOLEAN} : e.lines = OldLines(d)}

-----------------------------------------------------------------------------
(* paginateText: a page ends at its line limit, or before the line that does not fit *)

SpaceOf(k, first) == widths[k] + (IF k = first THEN 0 ELSE 1)
BytesOf(first, last) == FoldLeft(LAMBDA n, k : n + SpaceOf(k, first), 0, [j \in 1 .. last - first + 1 |-> first + j - 1])
\* The last line of the page that starts at "from"; from - 1: not even that line fits.
PageEnd(from) ==
    LET ends == {k \in from - 1 .. Len(widths) : k < from + MaxReadLines /\ BytesOf(from, k) <= MaxReadBytes}
    IN CHOOSE k \in ends : \A j \in ends : j <= k
\* fault: the next page starts one line late.
NextOffsetLate(last) == last + 2
NextOffset(last) == last + 1
ReadPage ==
    /\ page.pc = "read"
    /\ LET last == PageEnd(page.offset) IN
       page' = IF widths = <<>> THEN [page EXCEPT !.pc = "done"]
               ELSE IF last < page.offset THEN [page EXCEPT !.pc = "toolong"]
               ELSE [seen |-> page.seen \o [j \in 1 .. last - page.offset + 1 |-> page.offset + j - 1],
                     pc |-> IF last < Len(widths) THEN "read" ELSE "done",
                     offset |-> IF last < Len(widths) THEN NextOffset(last) ELSE page.offset]
    /\ UNCHANGED <<parseVars, editVars, widths>>
PageAtStart == [pc |-> "read", offset |-> 1, seen |-> <<>>]

-----------------------------------------------------------------------------
\* One of the three at a time.
ParseInit == patch = <<>> /\ parser = ParserAtStart
PatchTextInit ==
    \/ ParseInit /\ script = <<>> /\ edit = NoEdit /\ widths = <<>> /\ page = [PageAtStart EXCEPT !.pc = "none"]
    \/ /\ script \in Scripts /\ edit \in Edits(script)
       /\ patch = <<>> /\ parser = [ParserAtStart EXCEPT !.mode = "error"]
       /\ widths = <<>> /\ page = [PageAtStart EXCEPT !.pc = "none"]
    \/ /\ widths \in Widths /\ page = PageAtStart /\ script = <<>> /\ edit = NoEdit
       /\ patch = <<>> /\ parser = [ParserAtStart EXCEPT !.mode = "error"]
PatchTextNext == ParseNext \/ applyHunk \/ applyEnds \/ ReadPage
PatchTextSpec == PatchTextInit /\ [][PatchTextNext]_ptVars

-----------------------------------------------------------------------------
(* Properties *)

\* The lines an operation stands for, its end-of-file marks left out.
RenderOp(op) ==
    <<[k |-> op.kind, path |-> op.path]>> \o (IF op.to = "" THEN <<>> ELSE <<[k |-> "move", path |-> op.to]>>)
    \o LET text(b) == b # "eof" IN [j \in DOMAIN SelectSeq(op.body, text) |-> [k |-> SelectSeq(op.body, text)[j], path |-> ""]]
\* An accepted patch is carried out whole: what parsePatch made of it gives back its lines, none dropped and none
\* attributed to another file.
NothingIsDropped ==
    parser.mode = "ended" =>
        LET said(t) == t.k \notin {"blank", "eof", "end"} IN
        FlattenSeq([k \in DOMAIN parser.ops |-> RenderOp(parser.ops[k])]) = SelectSeq(patch, said)
\* The policy sees every file a patch touches: the paths of an accepted patch are among those its own scan of the
\* text finds (PathAccessPolicy.CheckToolCall runs before the patch is parsed).
PolicySeesEveryPath ==
    parser.mode = "ended" =>
        UNION {{op.path, op.to} \ {""} : op \in Range(parser.ops)} \subseteq pathsFromPatchEnvelope(patch)
\* Hunks taken from a true diff give exactly the new text, or are refused as ambiguous: they never land elsewhere, and
\* the newline at the end stays unless an end-of-file mark takes it. A text that loses all its lines is the one
\* exception: applyHunks gives its newline back to it, so one newline is left where nothing should be.
ExactOrRefused ==
    edit.pc = "done" =>
        LET nl == edit.newline /\ ~edit.endOfFile
        IN edit.text = IF NewLines(script) = <<>> /\ nl THEN <<"", "">> ELSE FileText(NewLines(script), nl)
\* A reader that follows next_offset_lines sees every line once and in order, up to a line wider than a page.
PagesCoverTheFile ==
    /\ page.pc # "none" => page.seen = [j \in 1 .. Len(page.seen) |-> j]
    /\ page.pc = "done" => Len(page.seen) = Len(widths)
    /\ page.pc = "toolong" => widths[Len(page.seen) + 1] > MaxReadBytes
=============================================================================
