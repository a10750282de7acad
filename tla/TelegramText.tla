---------------------------- MODULE TelegramText ----------------------------
(***************************************************************************)
(* How an answer is cut into Telegram messages: planRichText and           *)
(* parseMarkdownBlocks (channel/telegram/rich_markdown.go) for rich        *)
(* messages, SplitText (channel.go) for the others. A line is its kind and *)
(* has length one; a character is "x", or white space.                     *)
(***************************************************************************)
EXTENDS Integers, Sequences, FiniteSets, SequencesExt

CONSTANTS Documents,  \* sequences of line kinds
          Strings,    \* sequences of characters
          RichLines,  \* telegramRichTextRunes and telegramRichBlockLimit, in lines
          ChunkLimit  \* telegramTextChunkRunes

ASSUME TextAssumption == RichLines > 0 /\ ChunkLimit > 0

VARIABLES lines, i, paragraph, blocks,  \* the document, the next line, the open paragraph, the blocks found
          current, chunks, planned,     \* the chunk being filled, the finished ones, blocks planned
          whole, text, parts            \* SplitText: all, still to cut, cut off; pairs <<position, character>>
txVars == <<lines, i, paragraph, blocks, current, chunks, planned, whole, text, parts>>

Indexed(s) == [k \in DOMAIN s |-> <<k, s[k]>>]
TextInit ==
    /\ \/ lines \in Documents /\ whole = <<>>
       \/ lines = <<>> /\ \E s \in Strings : whole = Indexed(s)
    /\ i = 1 /\ paragraph = <<>> /\ blocks = <<>> /\ current = <<>> /\ chunks = <<>> /\ planned = 0
    /\ text = whole /\ parts = <<>>

-----------------------------------------------------------------------------
(* parseMarkdownBlocks *)

AllParsed == i > Len(lines)
Kind(k) == IF k <= Len(lines) THEN lines[k] ELSE "end"
flushParagraph == IF paragraph = <<>> THEN blocks ELSE Append(blocks, [lines |-> paragraph, eligible |-> TRUE])
\* The lines from here to the line before j are one block.
Block(j, eligible) ==
    /\ blocks' = Append(flushParagraph, [lines |-> [k \in 1..(j - i) |-> i + k - 1], eligible |-> eligible])
    /\ paragraph' = <<>> /\ i' = j

\* The first line from k on of one of these kinds, or the last line.
UpTo(k, kinds) == IF \E j \in k..Len(lines) : lines[j] \in kinds
                  THEN CHOOSE j \in k..Len(lines) : lines[j] \in kinds /\ \A l \in k..(j - 1) : lines[l] \notin kinds
                  ELSE Len(lines)

\* fault: a fence ends at a blank line.
fenceEndBlank(k) == UpTo(k, {"fence", "blank"})

\* A fenced block goes to the line that closes it, or to the end.
fenceEnd(k) == UpTo(k, {"fence"})
isTable == Kind(i) \in {"row", "wide"} /\ Kind(i + 1) = "sep" /\ Kind(i + 2) = "row"
tableEnd == CHOOSE j \in (i + 2)..(Len(lines) + 1) : Kind(j) # "row" /\ \A k \in (i + 2)..(j - 1) : lines[k] = "row"

BlankLine == ~AllParsed /\ Kind(i) = "blank" /\ blocks' = flushParagraph /\ paragraph' = <<>> /\ i' = i + 1
FencedBlock == ~AllParsed /\ Kind(i) = "fence" /\ Block(fenceEnd(i + 1) + 1, TRUE)
\* A table with too many columns cannot be sent as a rich message.
TableBlock == ~AllParsed /\ isTable /\ Block(tableEnd, Kind(i) # "wide")
HeadingLine == ~AllParsed /\ Kind(i) = "head" /\ Block(i + 1, TRUE)
ParagraphLine ==
    /\ ~AllParsed /\ Kind(i) \in {"text", "row", "wide", "sep"} /\ ~isTable
    /\ paragraph' = Append(paragraph, i) /\ i' = i + 1 /\ UNCHANGED blocks
LastParagraph == AllParsed /\ paragraph # <<>> /\ blocks' = flushParagraph /\ paragraph' = <<>> /\ UNCHANGED i
Parse == (BlankLine \/ FencedBlock \/ TableBlock \/ HeadingLine \/ ParagraphLine \/ LastParagraph)
         /\ UNCHANGED <<lines, current, chunks, planned, whole, text, parts>>

-----------------------------------------------------------------------------
(* planRichText *)

Parsed == AllParsed /\ paragraph = <<>>
\* fault: the chunk being filled is dropped.
flushNothing == chunks

flushChunk == IF current = <<>> THEN chunks ELSE Append(chunks, [rich |-> TRUE, lines |-> current])

Fits(block) == Len(current) + Len(block.lines) <= RichLines
PlanBlock ==
    /\ Parsed /\ planned < Len(blocks) /\ planned' = planned + 1
    /\ LET block == blocks[planned + 1]
       IN \/ /\ ~block.eligible \/ Len(block.lines) > RichLines
             /\ chunks' = Append(flushChunk, [rich |-> FALSE, lines |-> block.lines]) /\ current' = <<>>
          \/ /\ block.eligible /\ Len(block.lines) <= RichLines /\ Fits(block)
             /\ current' = current \o block.lines /\ UNCHANGED chunks
          \/ /\ block.eligible /\ Len(block.lines) <= RichLines /\ ~Fits(block)
             /\ chunks' = flushChunk /\ current' = block.lines
    /\ UNCHANGED <<lines, i, paragraph, blocks, whole, text, parts>>
PlanEnd ==
    /\ Parsed /\ planned = Len(blocks) /\ current # <<>> /\ chunks' = flushChunk /\ current' = <<>>
    /\ UNCHANGED <<lines, i, paragraph, blocks, planned, whole, text, parts>>

-----------------------------------------------------------------------------
(* SplitText *)

Solid(c) == c[2] = "x"
trim(s) == LET solid == {k \in DOMAIN s : Solid(s[k])}
           IN IF solid = {} THEN <<>>
              ELSE SubSeq(s, CHOOSE k \in solid : \A l \in solid : k <= l, CHOOSE k \in solid : \A l \in solid : l <= k)

\* The last place in the second half of the limit where a delimiter starts.
Char(s, k) == IF k \in DOMAIN s THEN s[k][2] ELSE "end"
BlankLinesIn(s) == {k \in 1..(ChunkLimit - 1) : Char(s, k) = "n" /\ Char(s, k + 1) = "n"}
NewlinesIn(s) == {k \in 1..ChunkLimit : Char(s, k) = "n"}
SpacesIn(s) == {k \in 1..ChunkLimit : Char(s, k) = "s"}
lastBoundary(places) == {k \in places : k >= ChunkLimit \div 2 + 2 /\ \A l \in places : l <= k}

\* fault: the character at the boundary goes with the delimiter.
CutAfter(s, k, skip) == <<trim(SubSeq(s, 1, k - 1)), trim(SubSeq(s, k + skip + 1, Len(s)))>>

CutAt(s, k, skip) == <<trim(SubSeq(s, 1, k - 1)), trim(SubSeq(s, k + skip, Len(s)))>>

\* splitTextChunk: at a blank line, a line end or a space, else in the middle of a word.
splitTextChunk(s) ==
    IF Len(s) <= ChunkLimit THEN <<s, <<>>>>
    ELSE IF lastBoundary(BlankLinesIn(s)) # {} THEN CutAt(s, CHOOSE k \in lastBoundary(BlankLinesIn(s)) : TRUE, 2)
    ELSE IF lastBoundary(NewlinesIn(s)) # {} THEN CutAt(s, CHOOSE k \in lastBoundary(NewlinesIn(s)) : TRUE, 1)
    ELSE IF lastBoundary(SpacesIn(s)) # {} THEN CutAt(s, CHOOSE k \in lastBoundary(SpacesIn(s)) : TRUE, 1)
    ELSE CutAt(s, ChunkLimit + 1, 0)
SplitStep ==
    /\ trim(text) # <<>> /\ text' = splitTextChunk(trim(text))[2] /\ parts' = Append(parts, splitTextChunk(trim(text))[1])
    /\ UNCHANGED <<lines, i, paragraph, blocks, current, chunks, planned, whole>>

TextNext == Parse \/ PlanBlock \/ PlanEnd \/ SplitStep
TextSpec == TextInit /\ [][TextNext]_txVars

-----------------------------------------------------------------------------
Planned == Parsed /\ planned = Len(blocks) /\ current = <<>>
ChunkLines == FlattenSeq([k \in DOMAIN chunks |-> chunks[k].lines])
Fences == SelectSeq([k \in DOMAIN lines |-> k], LAMBDA k : lines[k] = "fence")

\* The messages hold the whole document in order: every line that is not blank once, fenced ones included.
EveryLineIsSent ==
    Planned => SelectSeq(ChunkLines, LAMBDA k : lines[k] # "blank") = SelectSeq([k \in DOMAIN lines |-> k], LAMBDA k : lines[k] # "blank")

\* A message can be rendered on its own: a fenced block (every first and second fence line, whatever is
\* between them) is in one message, and a rich message is within Telegram's limits.
ChunksStandAlone ==
    Planned =>
      /\ \A k \in DOMAIN chunks : chunks[k].rich => Len(chunks[k].lines) <= RichLines
      /\ \A f \in DOMAIN Fences : f % 2 = 1 /\ f < Len(Fences) =>
           \E k \in DOMAIN chunks : \A l \in Fences[f]..Fences[f + 1] : l \in ToSet(chunks[k].lines)

\* Cutting loses nothing but white space at the cuts: no part is empty or too long, and the parts with what
\* is left are the text.
SplitKeepsText ==
    /\ \A k \in DOMAIN parts : parts[k] # <<>> /\ Len(parts[k]) <= ChunkLimit
    /\ SelectSeq(FlattenSeq(parts) \o text, Solid) = SelectSeq(whole, Solid)
=============================================================================
