----------------------------- MODULE EmbedSearch -----------------------------
(***************************************************************************)
(* embed_search: Service.Search asks every collection and merges the hits; *)
(* boundedSearchOutput (tools/embed/search_output.go) then brings the      *)
(* answer under the output limit step by step: excerpts, references, fewer *)
(* hits. A payload is its reference, its long strings and a number that    *)
(* the document itself may have under the key omitted_bytes. A string has  *)
(* a length and the width of its characters, both in bytes, and each byte  *)
(* takes escape bytes of the answer.                                       *)
(***************************************************************************)
EXTENDS Integers, Sequences, FiniteSets, SequencesExt

CONSTANTS FoundHits,       \* the hits each collection can return, best first: [score, texts, own, double]
          SearchLimit, \* the most hits that are asked for
          MinExcerpt,  \* minUsefulExcerptBytes
          Caps         \* output limits

ASSUME SearchAssumption ==
    /\ SearchLimit > 0 /\ MinExcerpt > 0
    /\ \A c \in DOMAIN FoundHits : \A i \in DOMAIN FoundHits[c] :
         /\ FoundHits[c][i].own >= 0 /\ FoundHits[c][i].double \in BOOLEAN
         /\ \A t \in ToSet(FoundHits[c][i].texts) : t.size >= 0 /\ t.width > 0 /\ t.escape > 0

VARIABLES stage,   \* "status", "query", "bound", "done" or "error"
          todo,    \* collections still to be asked
          hits,    \* the hits so far, then the bounded ones
          all,     \* every hit that a collection returned
          capBytes, dropped, disclosed
esVars == <<stage, todo, hits, all, capBytes, dropped, disclosed>>

RefBytes == 2      \* a hit reduced to its reference, without the marks
KeyBytes == 1      \* the key of a string
MarkBytes == 1     \* a mark that something was left out

SearchInit ==
    /\ stage = "status" /\ todo = SetToSeq(DOMAIN FoundHits) /\ hits = <<>> /\ all = {} /\ dropped = 0 /\ disclosed = FALSE
    /\ capBytes \in Caps

AddUp(s) == FoldLeft(+, 0, s)
Sizes(hit) == [i \in DOMAIN hit.texts |-> hit.texts[i].size]
Hit(c, i, found) == [from |-> c, rank |-> i, score |-> found.score, texts |-> found.texts, double |-> found.double,
                     cloned |-> FALSE, truncated |-> FALSE, omitted |-> found.own, reference |-> FALSE]

-----------------------------------------------------------------------------
(* Service.Search *)

\* A collection that does not exist is passed over, also when it disappears before it is asked.
AskStatus ==
    /\ stage = "status" /\ todo # <<>>
    /\ \/ stage' = "query" /\ UNCHANGED todo
       \/ stage' = "status" /\ todo' = Tail(todo)
       \/ stage' = "error" /\ UNCHANGED todo
    /\ UNCHANGED <<hits, all, capBytes, dropped, disclosed>>

\* QdrantStore.Search; a hybrid query without sparse vectors is asked again as a dense one, which can fail too.
AskCollection ==
    /\ stage = "query"
    /\ \/ \E n \in 0..Len(FoundHits[Head(todo)]) :
            LET got == [i \in 1..n |-> Hit(Head(todo), i, FoundHits[Head(todo)][i])]
            IN n <= SearchLimit /\ hits' = hits \o got /\ all' = all \cup ToSet(got)
       \/ UNCHANGED <<hits, all>>
    /\ todo' = Tail(todo) /\ stage' = "status" /\ UNCHANGED <<capBytes, dropped, disclosed>>
AskFails ==
    /\ stage = "query" /\ stage' = "error" /\ UNCHANGED <<todo, hits, all, capBytes, dropped, disclosed>>

\* A stable sort: of equal scores the earlier hit stays first.
Precedes(i, j) == hits[i].score > hits[j].score \/ (hits[i].score = hits[j].score /\ i < j)
Ranked == SortSeq([i \in 1..Len(hits) |-> i], Precedes)
FirstOf(s) == SubSeq(s, 1, IF Len(s) < SearchLimit THEN Len(s) ELSE SearchLimit)

\* fault: the list is cut before it is sorted.
MergeCutFirst == [i \in DOMAIN SelectSeq(Ranked, LAMBDA r : r <= SearchLimit) |->
                    hits[SelectSeq(Ranked, LAMBDA r : r <= SearchLimit)[i]]]

Merge == [i \in DOMAIN FirstOf(Ranked) |-> hits[FirstOf(Ranked)[i]]]
Merged ==
    /\ stage = "status" /\ todo = <<>> /\ hits' = Merge /\ stage' = "bound"
    /\ UNCHANGED <<todo, all, capBytes, dropped, disclosed>>

-----------------------------------------------------------------------------
(* boundedSearchOutput *)

\* The payload as JSON, the marks included.
HitBytes(hit) == RefBytes + AddUp([i \in DOMAIN hit.texts |-> KeyBytes + hit.texts[i].size * hit.texts[i].escape])
                 + (IF hit.truncated \/ hit.omitted > 0 THEN MarkBytes ELSE 0)
OutputBytes == AddUp([i \in DOMAIN hits |-> HitBytes(hits[i])]) + (IF disclosed THEN MarkBytes ELSE 0)
               + (IF dropped > 0 THEN MarkBytes ELSE 0)

\* A string of a payload: the hit and its place in it.
Leaves == {leaf \in (DOMAIN hits) \X (1..3) : leaf[2] \in DOMAIN hits[leaf[1]].texts}
SizeOf(leaf) == hits[leaf[1]].texts[leaf[2]].size

\* fault: a string that is already at the smallest size counts as reducible.
ReducibleAtLeast == {leaf \in Leaves : SizeOf(leaf) >= MinExcerpt}

\* collectReducibleStrings, largest first; ties by hit, then by place.
Reducible == {leaf \in Leaves : SizeOf(leaf) > MinExcerpt}
LargerFirst(x, y) == \/ SizeOf(x) > SizeOf(y) \/ (SizeOf(x) = SizeOf(y) /\ x[1] < y[1])
                     \/ (SizeOf(x) = SizeOf(y) /\ x[1] = y[1] /\ x[2] < y[2])
Candidates == SortSeq(SetToSeq(Reducible), LargerFirst)

\* excerptPrefix: whole characters.
excerptPrefix(text, target) == target - (target % text.width)

\* The number under omitted_bytes, also the document's own: an integer is seen once the payload was cloned,
\* which makes it a float64.
existingOmitted(hit) == IF hit.cloned \/ hit.double THEN hit.omitted ELSE 0

\* fault: the bytes of a second excerpt replace those of the first.
cutForgets(hit, t, target) ==
    LET kept == excerptPrefix(hit.texts[t], target)
    IN [hit EXCEPT !.texts[t].size = kept, !.cloned = TRUE, !.truncated = TRUE, !.omitted = hit.texts[t].size - kept]

cutPayloadString(hit, t, target) ==
    LET kept == excerptPrefix(hit.texts[t], target)
    IN [hit EXCEPT !.texts[t].size = kept, !.cloned = TRUE, !.truncated = TRUE,
                   !.omitted = existingOmitted([hit EXCEPT !.cloned = TRUE]) + hit.texts[t].size - kept]

\* Each candidate gives up what is still missing, down to the smallest useful excerpt. Missing(n) is what
\* the first n candidates leave to the others.
Target(leaf, missing) == SizeOf(leaf) - (IF missing < SizeOf(leaf) - MinExcerpt THEN missing ELSE SizeOf(leaf) - MinExcerpt)
cutOversizedPayloadStrings ==
    LET leaves == Candidates
        text(n) == hits[leaves[n][1]].texts[leaves[n][2]]
        Missing[n \in 0..Len(leaves)] ==
          IF n = 0 THEN OutputBytes - capBytes
          ELSE LET m == Missing[n - 1]
               IN IF m <= 0 THEN m ELSE m - (text(n).size - excerptPrefix(text(n), Target(leaves[n], m)))
        cut(hit, n) == IF Missing[n - 1] <= 0 THEN hit ELSE cutPayloadString(hit, leaves[n][2], Target(leaves[n], Missing[n - 1]))
        of(h) == SelectSeq([n \in DOMAIN leaves |-> n], LAMBDA n : leaves[n][1] = h)
    IN [h \in DOMAIN hits |-> FoldLeft(cut, hits[h], of(h))]

Over == stage = "bound" /\ OutputBytes > capBytes
CutStrings ==
    /\ Over /\ Reducible # {} /\ hits' = cutOversizedPayloadStrings /\ disclosed' = TRUE
    /\ UNCHANGED <<stage, todo, all, capBytes, dropped>>

\* fault: what was cut before is not counted.
ReducedAnew(hit) == [hit EXCEPT !.texts = <<>>, !.truncated = TRUE, !.omitted = HitBytes(hit) - RefBytes, !.reference = TRUE]

\* reduceTrailingPayloadToReference: the last hit that is more than its reference. What it loses is counted as
\* JSON: keys, escapes and earlier marks included.
Reduced(hit) ==
    [hit EXCEPT !.texts = <<>>, !.truncated = TRUE, !.omitted = existingOmitted(hit) + HitBytes(hit) - RefBytes, !.reference = TRUE]
Unreduced == {i \in DOMAIN hits : ~hits[i].reference /\ hits[i].texts # <<>>}
ReduceTrailing ==
    /\ Over /\ Reducible = {} /\ Unreduced # {}
    /\ LET i == CHOOSE k \in Unreduced : \A j \in Unreduced : j <= k IN hits' = [hits EXCEPT ![i] = Reduced(@)]
    /\ disclosed' = TRUE /\ UNCHANGED <<stage, todo, all, capBytes, dropped>>
DropTrailing == Front(hits)
DropHit ==
    /\ Over /\ Reducible = {} /\ Unreduced = {} /\ hits # <<>> /\ hits' = DropTrailing /\ dropped' = dropped + 1
    /\ UNCHANGED <<stage, todo, all, capBytes, disclosed>>
Unsatisfiable ==
    /\ Over /\ hits = <<>> /\ stage' = "error" /\ UNCHANGED <<todo, hits, all, capBytes, dropped, disclosed>>
Fits ==
    /\ stage = "bound" /\ OutputBytes <= capBytes /\ stage' = "done"
    /\ UNCHANGED <<todo, hits, all, capBytes, dropped, disclosed>>

SearchStep == AskStatus \/ AskCollection \/ AskFails \/ Merged \/ CutStrings \/ ReduceTrailing \/ DropHit \/ Unsatisfiable \/ Fits
SearchSpec == SearchInit /\ [][SearchStep]_esVars
SearchFairness == WF_esVars(SearchStep)

-----------------------------------------------------------------------------
\* The answer owns up to what it leaves out, over any number of steps: a hit without the tool's mark is whole; one
\* with excerpts says exactly the bytes that are missing, on top of the number that the document itself had
\* under that key; one reduced to its reference says at least the bytes of text that are missing, and at most the
\* payload's size as JSON more (omitted_bytes of cutPayloadString and reduceTrailingPayloadToReference).
OmissionsAddUp ==
    \A i \in DOMAIN hits :
      LET found == FoundHits[hits[i].from][hits[i].rank]
          missing == AddUp(Sizes(found)) - AddUp(Sizes(hits[i]))
      IN IF ~hits[i].truncated THEN hits[i].texts = found.texts
         ELSE /\ disclosed
              /\ ~hits[i].reference => hits[i].omitted = found.own + missing
              /\ hits[i].omitted \in missing..found.own + HitBytes(Hit(hits[i].from, hits[i].rank, found)) + MarkBytes

\* No hit is left out while a worse one is shown, however the collections' lists interleave and however
\* many hits had to go (Search sorts before it cuts, the ladder drops from the end).
BestHitsShown ==
    stage = "done" => \A h \in all : (\A i \in DOMAIN hits : hits[i].from # h.from \/ hits[i].rank # h.rank)
                                       => \A i \in DOMAIN hits : hits[i].score >= h.score

\* What must end: the loop of boundedSearchOutput, although a step may add marks to the answer.
Searching == stage \notin {"done", "error"}
=============================================================================
