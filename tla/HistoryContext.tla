--------------------------- MODULE HistoryContext ---------------------------
(***************************************************************************)
(* The history a run's prompt starts with (history/context.go): recent     *)
(* turns, retrieved summaries, and fitting them to the limits of the model *)
(* each attempt is made with. Token counts are small numbers; a text is    *)
(* its size. Shortening caps have two levels: as stored, and shortened.    *)
(***************************************************************************)
EXTENDS Integers, Sequences, FiniteSets, SequencesExt

CONSTANTS Windows,         \* model refs -> MaxContextTokens, 0 when unknown
          InitialMax,      \* InitialContextMaxTokens
          UnknownLimit,    \* requestLimit of a model whose window is unknown
          RecentTurns, RetrievalLimit,
          MaxGenerated     \* bound: turns of the engine that add tool results

VARIABLES hcPhase,   \* "idle", "prepared", "sent" (the engine waits for a reply)
          snapshot,  \* contextSnapshot
          active,    \* input and generated messages: [text, tool] sizes
          lastFit    \* what fitRequest returned last
hcVars == <<hcPhase, snapshot, active, lastFit>>

MinOf(a, b) == IF a < b THEN a ELSE b
MaxOf(a, b) == IF a < b THEN b ELSE a

-----------------------------------------------------------------------------
(* Limits *)

\* outputReserve and requestLimit, with the reserves of a window of w tokens.
requestLimit(w) == IF w <= 0 THEN MinOf(InitialMax, UnknownLimit) ELSE MaxOf(1, w - w \div 4 - MaxOf(1, w \div 20))

\* assemblyLimit, with the default fraction of a quarter.
assemblyLimit(w) ==
    IF w <= 0 THEN MinOf(InitialMax, requestLimit(w))
    ELSE MaxOf(1, MinOf(InitialMax, MinOf(w \div 4, requestLimit(w))))

-----------------------------------------------------------------------------
(* Retrieval *)

\* fuseHits: reciprocal rank fusion; ties go to the newer turn.
fuseHits(dense, lexical) ==
    LET rank(list, t) == IF \E k \in 1..Len(list) : list[k] = t
                         THEN 6000 \div (60 + (CHOOSE k \in 1..Len(list) : list[k] = t)) ELSE 0
        score(t) == rank(dense, t) + rank(lexical, t)
    IN SortSeq(SetToSeq(ToSet(dense) \cup ToSet(lexical)),
               LAMBDA a, b : score(a) > score(b) \/ (score(a) = score(b) /\ a > b))

\* fault: the fallback for a failed judge keeps every hit.
judgeHitsUnlimited(hits, useful, valid) == IF valid THEN SelectSeq(hits, LAMBDA t : t \in useful) ELSE hits

\* judgeHits: the ones that score as useful, equally, at most RetrievalLimit; a failed or an invalid
\* judgment falls back to the first ones of the search.
judgeHits(hits, useful, valid) ==
    LET kept == IF valid THEN SelectSeq(hits, LAMBDA t : t \in useful) ELSE hits
    IN SubSeq(kept, 1, MinOf(RetrievalLimit, Len(kept)))

-----------------------------------------------------------------------------
(* Fitting *)

\* A group of the snapshot. A turn's text is 1, its shortenable tool output up to 2; a digest or an
\* excerpt is 1.
Group(id, kind, tool, scored, protected) ==
    [id |-> id, kind |-> kind, tool |-> tool, scored |-> scored, protected |-> protected, dropped |-> FALSE]

\* capParts: tool output and reasoning at a cap level, 1 being the lowest cap.
capParts(size, level) == IF level = 0 THEN size ELSE MinOf(size, 1)

\* renderGroups: what a group costs at a cap level.
GroupTokens(g, level) == IF g.dropped THEN 0 ELSE IF g.kind = "recent" THEN 1 + capParts(g.tool, level) ELSE 1

SumTokens(groups, level) == FoldLeft(LAMBDA n, g : n + GroupTokens(g, level), 0, groups)

\* The system prompt, the tools and the note about the window cost 1; capParts shortens the tool output
\* of the active run, compactActiveEvidence omits it.
ActiveTokens(act, level) == act.text + (IF level = 2 THEN 0 ELSE capParts(act.tool, level))
Tokens(groups, act, level, aLevel) == 1 + SumTokens(groups, level) + ActiveTokens(act, aLevel)

\* The tier in which fit drops a group: keyword matches, semantic matches, gap digests; recent turns stay.
Tier(g) == CASE g.kind = "retrieved" /\ ~g.scored -> 0 [] g.kind = "retrieved" -> 1 [] g.kind = "gap" -> 2 [] OTHER -> 3

\* fault: keyword matches are dropped after semantic ones.
TierSwapped(g) == CASE g.kind = "retrieved" /\ ~g.scored -> 1 [] g.kind = "retrieved" -> 0 [] g.kind = "gap" -> 2 [] OTHER -> 3

\* fit: the tier a group leaves in.
DropTier(g) == Tier(g)

\* recentAllowance and the loop that demotes the oldest unprotected recent turns to their digests.
Demote(groups, act, limit) ==
    LET free == MaxOf(0, limit - Tokens(<<>>, act, 0, 0))
        found == SumTokens(SelectSeq(groups, LAMBDA g : g.kind = "retrieved"), 0)
        allowance == MaxOf(free \div 3, free - found)
        recent(gs) == SumTokens(SelectSeq(gs, LAMBDA g : g.kind \in {"recent", "gap"}), 0)
    IN FoldLeft(LAMBDA gs, n : IF recent(gs) > allowance /\ gs[n].kind = "recent" /\ ~gs[n].protected
                               THEN [gs EXCEPT ![n].kind = "gap"] ELSE gs,
                groups, [n \in 1..Len(groups) |-> n])

\* fit, the last steps: shorten and compact the active run until the request fits; what is still over is a
\* TokenBudgetError.
FitActive(groups, act, limit, level, aLevel) ==
    [ok |-> Tokens(groups, act, level, aLevel) <= limit, groups |-> groups, level |-> level,
     tokens |-> Tokens(groups, act, level, aLevel)]
ShortenActive(groups, act, limit, level) ==
    FitActive(groups, act, limit, level, Min({a \in 0..2 : a = 2 \/ Tokens(groups, act, level, a) <= limit}))

\* fit, the middle: drop by tier, the oldest first, while the request is over its limit.
DropOrder(n) == [t \in 1..(3 * n) |-> [tier |-> (t - 1) \div n, n |-> ((t - 1) % n) + 1]]
DropToFit(groups, act, limit, level) ==
    IF groups = <<>> THEN groups
    ELSE FoldLeft(LAMBDA gs, s :
           IF Tokens(gs, act, level, 0) > limit /\ ~gs[s.n].protected /\ DropTier(gs[s.n]) = s.tier
           THEN [gs EXCEPT ![s.n].dropped = TRUE] ELSE gs, groups, DropOrder(Len(groups)))
DropAndShorten(groups, act, limit, level) == ShortenActive(DropToFit(groups, act, limit, level), act, limit, level)
ShortenThenDrop(groups, act, limit) ==
    DropAndShorten(groups, act, limit, IF Tokens(groups, act, 0, 0) > limit THEN 1 ELSE 0)

\* fit: demote, shorten, drop, then shorten the active run.
fit(groups, act, limit, assembling) ==
    ShortenThenDrop(IF assembling THEN Demote(groups, act, limit) ELSE groups, act, limit)

\* selectedGroups: what is left of the groups.
selectedGroups(groups) == SelectSeq(groups, LAMBDA g : ~g.dropped)

-----------------------------------------------------------------------------
NoFit == [ok |-> FALSE, model |-> "none", first |-> FALSE, groups |-> <<>>, tokens |-> 0]
NoSnapshot == [groups |-> <<>>, initial |-> <<>>, ready |-> FALSE]

HistoryContextInit ==
    /\ hcPhase = "idle" /\ snapshot = NoSnapshot /\ active = [text |-> 0, tool |-> 0, gen |-> 0]
    /\ lastFit = NoFit

\* PrepareContext: the groups, oldest first, then the hits, weakest first. The newest turn and the newest
\* one with an assistant's message are protected; the latter may be older than the window.
PrepareContext(n, older, tool, hits, useful, valid, input) ==
    /\ hcPhase = "idle"
    /\ LET ids == (IF older THEN <<1>> ELSE <<>>) \o [k \in 1..n |-> 1 + k]
           recent == [k \in 1..Len(ids) |->
                        Group(ids[k], "recent", IF k = 1 THEN tool ELSE 1, FALSE, k = Len(ids) \/ (older /\ k = 1))]
           kept == judgeHits(fuseHits(hits.dense, hits.lexical), useful, valid)
           found == [k \in 1..Len(kept) |->
                       Group(kept[Len(kept) + 1 - k], "retrieved", 0, kept[Len(kept) + 1 - k] \in ToSet(hits.dense), FALSE)]
       IN snapshot' = [groups |-> recent \o found, initial |-> <<>>, ready |-> FALSE]
    /\ active' = [text |-> input, tool |-> 0, gen |-> 0]
    /\ hcPhase' = "prepared" /\ UNCHANGED lastFit

\* fault: the selection of a failed attempt stays.
KeepSelection(snap, first, ok) == snap

\* A failed attempt must not fix the history selection for a fallback.
Unfreeze(snap, first, ok) == IF ~ok /\ first THEN [snap EXCEPT !.initial = <<>>, !.ready = FALSE] ELSE snap

\* fault: mandatory input over the assembly target fails the attempt.
AssembledOrFail(f) == [groups |-> f.groups, ok |-> f.ok]

\* What the assembling fit selects; input that exceeds the assembly target leaves out the selected history.
Assembled(f) ==
    [groups |-> IF f.ok THEN [n \in 1..Len(f.groups) |-> IF f.level = 1 /\ f.groups[n].kind = "recent"
                                THEN [f.groups[n] EXCEPT !.tool = capParts(@, 1)] ELSE f.groups[n]]
                ELSE <<>>,
     ok |-> TRUE]

\* fitRequest, its end: the fit f of the selection asm in one attempt with a model.
Attempted(model, first, asm, f) ==
    /\ lastFit' = [ok |-> asm.ok /\ f.ok, model |-> model, first |-> first, tokens |-> f.tokens,
                   groups |-> selectedGroups(f.groups)]
    /\ snapshot' = Unfreeze([snapshot EXCEPT !.initial = asm.groups, !.ready = TRUE], first, asm.ok /\ f.ok)
    /\ hcPhase' = IF asm.ok /\ f.ok THEN "sent" ELSE "prepared"

\* fitRequest for one attempt with a model: the first one of a run selects the history.
fitRequest(model) ==
    /\ hcPhase = "prepared"
    /\ \E asm \in {IF ~snapshot.ready
                   THEN Assembled(fit(snapshot.groups, active, assemblyLimit(Windows[model]), TRUE))
                   ELSE [groups |-> snapshot.initial, ok |-> TRUE]} :
         Attempted(model, ~snapshot.ready, asm, fit(asm.groups, active, requestLimit(Windows[model]), FALSE))
    /\ UNCHANGED active

\* The provider fails and the next model is tried, or it answers with tool calls whose results grow the run.
ProviderFails == hcPhase = "sent" /\ hcPhase' = "prepared" /\ UNCHANGED <<snapshot, active, lastFit>>
ToolResults(size) ==
    /\ hcPhase = "sent" /\ active.gen < MaxGenerated
    /\ active' = [text |-> active.text + 1, tool |-> active.tool + size, gen |-> active.gen + 1]
    /\ hcPhase' = "prepared" /\ UNCHANGED <<snapshot, lastFit>>
RunOver == hcPhase # "idle" /\ hcPhase' = "idle" /\ snapshot' = NoSnapshot /\ lastFit' = NoFit
           /\ active' = [text |-> 0, tool |-> 0, gen |-> 0]

\* The turns a dense and a lexical search find, best first; search takes them with a similarity or without.
SearchDense == {<<>>, <<11>>}
SearchLexical == {<<>>, <<12, 13>>}
Found == [dense : SearchDense, lexical : SearchLexical]

HistoryContextNext ==
    \/ \E n \in 0..RecentTurns, older \in BOOLEAN, tool \in 1..2, hits \in Found, useful \in SUBSET {11, 12}, valid \in BOOLEAN,
          input \in {1, 3, 9} : PrepareContext(n, older, tool, hits, useful, valid, input)
    \/ (\E model \in DOMAIN Windows : fitRequest(model)) \/ ProviderFails
    \/ (\E size \in {1, 3} : ToolResults(size)) \/ RunOver

HistoryContextSpec == HistoryContextInit /\ [][HistoryContextNext]_hcVars

-----------------------------------------------------------------------------
\* fitRequest rejects the first request of a run only when the input alone, without any history, is too
\* large for the model: history that was selected automatically never costs the user an answer.
HistoryNeverRejects ==
    lastFit.model # "none" /\ lastFit.first /\ ~lastFit.ok
      => Tokens(<<>>, active, 0, 2) > requestLimit(Windows[lastFit.model])

\* A request that is sent fits its model, and holds at most as many retrieved turns as configured.
RequestsFit ==
    hcPhase = "sent" => /\ lastFit.tokens <= requestLimit(Windows[lastFit.model])
                        /\ Len(SelectSeq(lastFit.groups, LAMBDA g : g.kind = "retrieved")) <= RetrievalLimit

\* What is left out goes in order: a semantic match is dropped only when every keyword match is, and a
\* gap digest only when no retrieved summary is left.
DropsInOrder ==
    snapshot.ready /\ snapshot.initial # <<>> =>
      \A i, j \in 1..Len(snapshot.initial) :
        LET a == snapshot.initial[i] b == snapshot.initial[j]
        IN a.dropped /\ ~a.protected /\ ~b.protected /\ Tier(b) < Tier(a) => b.dropped

\* Once a request was sent the run's history stays as it was selected for it, so that every step of the
\* run is told the same past; before that a failed attempt leaves no trace, so that a fallback model gets
\* the selection its own window allows.
SelectionIsStable ==
    /\ hcPhase = "sent" /\ hcPhase' # "idle" => snapshot' = snapshot
    /\ lastFit' # lastFit /\ hcPhase = "prepared" /\ lastFit'.first /\ ~lastFit'.ok => snapshot' = snapshot
=============================================================================
