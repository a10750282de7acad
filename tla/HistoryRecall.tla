---------------------------- MODULE HistoryRecall ----------------------------
(***************************************************************************)
(* history_read (history/tools.go, source_page.go, recall_overview.go): a  *)
(* stored turn is read in pages that a byte budget shortens, and a reader  *)
(* goes on with the cursors it is given. A character is a cell; a cell     *)
(* costs one byte, or two when its part is not valid text (base64). The    *)
(* JSON around a page, a conversation entry and an evidence entry costs 1. *)
(***************************************************************************)
EXTENDS Integers, Sequences, FiniteSets, SequencesExt

CONSTANTS Shapes,        \* stored turns: sequences of parts [kind, message, size, width, replay]
          ConversationLimit, \* the LIMIT of ReadConversationPartIDs
          PageSize,      \* sourcePageCharacters
          EvidencePage,  \* evidencePageSize
          ResultBytes    \* recallResultBytes, and the smaller budgets of boundedRecallResult

\* A text is the user's, an answer of the assistant, or its commentary.
Kinds == {"user", "answer", "commentary", "reasoning", "tool"}

\* A stored turn has parts, in the order of their messages; a page and a budget have room for something.
ASSUME RecallAssumption ==
    /\ \A s \in Shapes :
         /\ Len(s) > 0 /\ s \in Seq([kind : Kinds, message : Nat, size : Nat, width : Nat, replay : Nat])
         /\ \A p, q \in DOMAIN s : p < q => s[p].message <= s[q].message
    /\ ConversationLimit \in Nat \ {0} /\ PageSize \in Nat \ {0} /\ EvidencePage \in Nat \ {0} /\ ResultBytes \subseteq Nat \ {0}

VARIABLES shape, view,   \* the turn; "none", "overview", "evidence", "source", then what was read
          limit,         \* the limit the reader asks for
          pending,       \* cursors the reader has still to follow
          evOffset,      \* evidence_offset to ask for next, or -1
          got, listed    \* the cells and the evidence entries the reader was given
hrVars == <<shape, view, limit, pending, evOffset, got, listed>>

None == [part |-> 0, field |-> "none", off |-> 0]
Cursor(p, f, o) == [part |-> p, field |-> f, off |-> o]
Size(c) == IF c.field = "body" THEN shape[c.part].size ELSE shape[c.part].replay
Least(a, b) == IF a < b THEN a ELSE b

PartsOf(kind) == FlattenSeq([p \in 1..Len(shape) |-> IF shape[p].kind = kind THEN <<p>> ELSE <<>>])

\* fault: the limit is shared by the two roles.
FirstTexts ==
    LET texts == FlattenSeq([p \in 1..Len(shape) |-> IF shape[p].kind \in {"user", "answer"} THEN <<p>> ELSE <<>>])
    IN SubSeq(texts, 1, Least(ConversationLimit, Len(texts)))

\* ReadConversationPartIDs: the first texts of the user, then the first ones of the latest message of the
\* assistant that answers; both in the order of the turn.
ConversationParts ==
    LET answers == PartsOf("answer")
        latest == SelectSeq(answers, LAMBDA p : shape[p].message = shape[Last(answers)].message)
        First(parts) == SubSeq(parts, 1, Least(ConversationLimit, Len(parts)))
    IN SetToSortSeq(ToSet(First(PartsOf("user"))) \cup ToSet(First(latest)), <)

\* ReadToolEvidence: the tool results, in the order of the turn.
ToolEvidence == PartsOf("tool")

\* fault: the replay of a reasoning part is passed over.
NextUnreplayed(c) == IF c.part < Len(shape) THEN Cursor(c.part + 1, "body", 0) ELSE None

\* readSourcePage: what follows a field that was read to its end.
NextSource(c) ==
    IF c.field = "body" /\ shape[c.part].replay > 0 THEN Cursor(c.part, "replay", 0)
    ELSE IF c.part < Len(shape) THEN Cursor(c.part + 1, "body", 0) ELSE None

\* readSourcePage: up to lim cells from the cursor's offset, and the cursor of what follows.
readSourcePage(c, lim) ==
    LET count == Least(lim, Size(c) - c.off)
    IN [c |-> c, count |-> count, next |-> IF Size(c) - c.off > lim THEN [c EXCEPT !.off = @ + lim] ELSE NextSource(c)]

\* shorten: half the cells, and a cursor to the other half.
shorten(page) == [c |-> page.c, count |-> page.count \div 2, next |-> [page.c EXCEPT !.off = @ + page.count \div 2]]

PageBytes(page) == 1 + page.count * shape[page.c.part].width
Omitted == [c |-> None, count |-> 0, next |-> None]

\* encodeSourcePage: shortened until it fits; a page of one cell that does not fit is omitted.
encodeSourcePage(page, budget) ==
    FoldLeft(LAMBDA p, k : IF p = Omitted \/ PageBytes(p) <= budget THEN p ELSE IF p.count <= 1 THEN Omitted ELSE shorten(p),
             page, [k \in 1..PageSize |-> k])

\* readOverview: the first page of every conversation part, which goes on only within its part.
ConversationPages(lim) ==
    [n \in 1..Len(ConversationParts) |->
       LET page == readSourcePage(Cursor(ConversationParts[n], "body", 0), lim)
       IN IF page.next.part # page.c.part \/ page.next.field # "body" THEN [page EXCEPT !.next = None] ELSE page]

OverviewBytes(o) == 1 + FoldLeft(LAMBDA n, page : n + PageBytes(page), 0, o.pages) + Len(o.evidence)

\* fault: evidence that does not fit is dropped without a continuation.
DropEvidenceOnly(o) == [o EXCEPT !.evidence = Front(@)]

\* encodeOverview: the last evidence entry goes, and setEvidenceContinuation points to it.
DropEvidence(o) == [o EXCEPT !.evidence = Front(@), !.next = o.offset + Len(o.evidence) - 1]

\* The first one of the longest pages.
LargestPage(pages) ==
    LET longest == {n \in 1..Len(pages) : \A m \in 1..Len(pages) : pages[m].count * shape[pages[m].c.part].width
                                                                  <= pages[n].count * shape[pages[n].c.part].width}
    IN CHOOSE n \in longest : \A m \in longest : n <= m

\* encodeOverview: evidence is dropped first, then the longest page is halved.
ShortenOverview(o) ==
    IF o.evidence # <<>> THEN DropEvidence(o)
    ELSE IF o.pages = <<>> \/ o.pages[LargestPage(o.pages)].count <= 1 THEN [o EXCEPT !.ok = FALSE]
    ELSE [o EXCEPT !.pages[LargestPage(o.pages)] = shorten(@)]
encodeOverview(o, budget) ==
    FoldLeft(LAMBDA x, k : IF ~x.ok \/ OverviewBytes(x) <= budget THEN x ELSE ShortenOverview(x),
             o, [k \in 1..(EvidencePage + PageSize * Len(shape)) |-> k])

-----------------------------------------------------------------------------
RecallInit ==
    /\ shape \in Shapes /\ view = "none" /\ limit = PageSize /\ pending = <<>> /\ evOffset = -1 /\ got = <<>> /\ listed = <<>>

\* The reader starts with turn_id alone, or with view=source.
ReadStart(v) ==
    /\ view = "none" /\ view' = v
    /\ pending' = IF v = "source" THEN <<Cursor(1, "body", 0)>> ELSE <<>>
    /\ evOffset' = IF v = "overview" THEN 0 ELSE -1
    /\ UNCHANGED <<shape, limit, got, listed>>

Cells(page) == [k \in 1..page.count |-> [part |-> page.c.part, field |-> page.c.field, n |-> page.c.off + k]]
Follow(c) == IF c = None THEN <<>> ELSE <<c>>

\* readOverview; view=evidence has no conversation. The entries of the evidence carry read arguments. An
\* omitted answer is asked for again with a smaller limit, and at last with view=source.
ReadOverview(budget) ==
    /\ view \in {"overview", "evidence"} /\ evOffset >= 0
    /\ LET rest == SubSeq(ToolEvidence, evOffset + 1, Len(ToolEvidence))
           listing == SubSeq(rest, 1, Least(EvidencePage, Len(rest)))
           o == encodeOverview([pages |-> IF view = "overview" THEN ConversationPages(limit) ELSE <<>>,
                                evidence |-> listing, offset |-> evOffset, ok |-> TRUE,
                                next |-> IF Len(rest) > EvidencePage THEN evOffset + EvidencePage ELSE -1], budget)
       IN IF o.ok
          THEN /\ got' = got \o FlattenSeq([n \in 1..Len(o.pages) |-> Cells(o.pages[n])])
               /\ listed' = listed \o o.evidence
               /\ evOffset' = o.next /\ view' = "evidence"
               /\ pending' = pending \o FlattenSeq([n \in 1..Len(o.pages) |-> Follow(o.pages[n].next)])
                                     \o [n \in 1..Len(o.evidence) |-> Cursor(o.evidence[n], "body", 0)]
               /\ UNCHANGED limit
          ELSE /\ limit' = 1 /\ UNCHANGED <<got, listed>>
               /\ IF limit > 1 THEN UNCHANGED <<view, pending, evOffset>>
                  ELSE view' = "source" /\ pending' = <<Cursor(1, "body", 0)>> /\ evOffset' = -1
    /\ UNCHANGED shape

\* readTurn with a returned cursor. A reader of the overview stays within the part; one that walks the
\* source goes wherever it is sent.
ReadSource(budget) ==
    /\ view \in {"evidence", "source"} /\ evOffset = -1 /\ pending # <<>>
    /\ LET page == encodeSourcePage(readSourcePage(Head(pending), limit), budget)
           next == IF view = "evidence" /\ (page.next.part # page.c.part \/ page.next.field # "body") THEN None ELSE page.next
       IN IF page = Omitted
          THEN limit > 1 /\ limit' = 1 /\ UNCHANGED <<pending, got>>
          ELSE got' = got \o Cells(page) /\ pending' = Follow(next) \o Tail(pending) /\ UNCHANGED limit
    /\ UNCHANGED <<shape, view, evOffset, listed>>

\* The reader has followed everything.
ReadOver ==
    /\ view \in {"evidence", "source"} /\ evOffset = -1 /\ pending = <<>>
    /\ view' = (IF view = "source" THEN "read source" ELSE "read overview")
    /\ UNCHANGED <<shape, limit, pending, evOffset, got, listed>>

RecallNext == (\E v \in {"overview", "source"} : ReadStart(v)) \/ (\E b \in ResultBytes : ReadOverview(b) \/ ReadSource(b)) \/ ReadOver
RecallSpec == RecallInit /\ [][RecallNext]_hrVars

-----------------------------------------------------------------------------
CellsOf(parts, fields) ==
    UNION {{[part |-> p, field |-> f, n |-> k] : k \in 1..Size(Cursor(p, f, 0))} : p \in parts, f \in fields}

\* Cell a stands before cell b in the turn.
StandsBefore(a, b) ==
    \/ a.part < b.part
    \/ a.part = b.part /\ a.field = "body" /\ b.field = "replay"
    \/ a.part = b.part /\ a.field = b.field /\ a.n < b.n

\* A reader who follows every cursor of view=source is given each character of each part and of each
\* provider replay once and in order, however the pages were shortened on the way.
SourceIsWhole ==
    /\ \A i, j \in 1..Len(got) : got[i] = got[j] => i = j
    /\ view \in {"source", "read source"} => \A i, j \in 1..Len(got) : i < j => StandsBefore(got[i], got[j])
    /\ view = "read source" /\ listed = <<>> => ToSet(got) = CellsOf(1..Len(shape), {"body", "replay"})

\* The texts that an overview owes: the user's and those of the final answer, each with fewer than the limit
\* before it.
Conversation ==
    {p \in 1..Len(shape) :
       LET same == {q \in 1..p - 1 : shape[q].kind = shape[p].kind /\ (shape[p].kind = "user" \/ shape[q].message = shape[p].message)}
       IN /\ shape[p].kind \in {"user", "answer"} /\ Cardinality(same) < ConversationLimit
          /\ shape[p].kind = "answer" => \A q \in 1..Len(shape) : shape[q].kind = "answer" => shape[q].message <= shape[p].message}

\* A reader of the overview is given every tool result and, up to the query's limit for each side, what the user
\* wrote and the final answer, each of them whole: what a result had no room for is always reachable from it.
\* (Commentary, earlier answers and texts beyond the limit are left out without a word; view=source has them.)
OverviewIsWhole ==
    view = "read overview" =>
      /\ \A i \in 1..Len(listed) - 1 : listed[i] < listed[i + 1]
      /\ ToSet(listed) = {p \in 1..Len(shape) : shape[p].kind = "tool"}
      /\ ToSet(got) = CellsOf(Conversation \cup ToSet(listed), {"body"})
=============================================================================
