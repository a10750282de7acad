------------------------------ MODULE MCRecall ------------------------------
(***************************************************************************)
(* Bounded instances of what the agent remembers: the turn store and its   *)
(* indexer, the selection of a request's history, the pages of a recalled  *)
(* turn, and the embedding service's sync and search. The components share *)
(* no state here, so a behaviour follows one of them (focus) and leaves    *)
(* the others where they start.                                            *)
(***************************************************************************)
EXTENDS HistoryStore, HistoryContext, HistoryRecall, EmbedIndex, EmbedSearch

CONSTANT Focuses    \* the components the run explores
VARIABLE focus

recallVars == <<focus, hsVars, hcVars, hrVars, eiVars, esVars>>

mWindows == [a |-> 12, b |-> 24, u |-> 0]
mPart(k, m, s, w, r) == [kind |-> k, message |-> m, size |-> s, width |-> w, replay |-> r]
mShapes == {<<mPart("user", 1, 3, 1, 0), mPart("reasoning", 2, 2, 1, 3), mPart("commentary", 2, 1, 1, 0), mPart("tool", 3, 5, 2, 0),
              mPart("tool", 4, 1, 1, 0), mPart("tool", 5, 0, 1, 0), mPart("answer", 6, 6, 1, 0),
              mPart("answer", 6, 1, 1, 0), mPart("answer", 6, 2, 1, 0)>>,
            <<mPart("user", 1, 1, 1, 0), mPart("user", 1, 2, 1, 0), mPart("user", 1, 1, 1, 0), mPart("answer", 2, 2, 1, 0),
              mPart("tool", 3, 4, 2, 0), mPart("reasoning", 4, 0, 1, 2), mPart("answer", 4, 1, 2, 0)>>,
            <<mPart("user", 1, 6, 2, 0)>>}
mDocs == <<"a", "b">>
mText(s, w, e) == [size |-> s, width |-> w, escape |-> e]
mFound(s, texts, own, double) == [score |-> s, texts |-> texts, own |-> own, double |-> double]
mFoundHits == [m |-> <<mFound(3, <<mText(9, 1, 1), mText(6, 3, 1)>>, 0, FALSE), mFound(1, <<mText(1, 1, 2)>>, 4, TRUE)>>,
               n |-> <<mFound(3, <<mText(8, 2, 2)>>, 2, FALSE), mFound(2, <<mText(2, 1, 1)>>, 1, FALSE)>>]

MemoryInit ==
    /\ focus \in Focuses
    /\ HistInit /\ (focus # "history" => source = {})
    /\ HistoryContextInit
    /\ RecallInit /\ (focus # "recall" => Len(shape) = 1)
    /\ EmbedInit
    /\ SearchInit /\ (focus # "search" => capBytes = 0)

OnlyHistory == focus = "history" /\ UNCHANGED <<focus, hcVars, hrVars, eiVars, esVars>>
OnlyContext == focus = "context" /\ UNCHANGED <<focus, hsVars, hrVars, eiVars, esVars>>
OnlyRecall  == focus = "recall" /\ UNCHANGED <<focus, hsVars, hcVars, eiVars, esVars>>
OnlyEmbed   == focus = "embed" /\ UNCHANGED <<focus, hsVars, hcVars, hrVars, esVars>>
OnlySearch  == focus = "search" /\ UNCHANGED <<focus, hsVars, hcVars, hrVars, eiVars>>

MemoryNext ==
    \/ OnlyHistory /\ HistNext
    \/ OnlyContext /\ HistoryContextNext
    \/ OnlyRecall /\ RecallNext
    \/ OnlyEmbed /\ EmbedNext
    \/ OnlySearch /\ SearchStep

\* HistFairness, EmbedFairness and SearchFairness, of the component in focus.
MemoryFairness ==
    /\ WF_recallVars((OnlyHistory /\ IndexStep("agent")) \/ (OnlyEmbed /\ SyncStep) \/ (OnlySearch /\ SearchStep))
    /\ WF_recallVars(OnlyHistory /\ IndexStep("cli"))
    /\ WF_recallVars(OnlyHistory /\ \E i \in Ids : NextAttempt(i))

MemorySpec == MemoryInit /\ [][MemoryNext]_recallVars
MemoryFairSpec == MemorySpec /\ MemoryFairness

Unfinished ==
    \/ focus = "history" /\ Unindexed
    \/ focus = "embed" /\ JobRuns
    \/ focus = "search" /\ Searching

\* The memory catches up: while the agent serves every complete turn becomes searchable, also after failures of
\* the providers; a sync of the embedding service that runs ends; the loop that fits a search answer ends.
MemoryCatchesUp == Unfinished ~> ~Unfinished

\* The turn store: one turn per delivery, fresh identities, an agent that starts on an indexed store, and serial
\* batches.
HistorySafe == OneTurnPerDelivery /\ ReadyMeansIndexed /\ IdentitiesAreFresh /\ BatchesAreSerial

\* What the model is given of its memory: requests that fit and drop the least first, recalled turns that can be
\* read whole, a settled source that is indexed and a removed one that is pruned, and search answers that show the
\* best hits and account for the others.
RecallSafe ==
    /\ HistoryNeverRejects /\ RequestsFit /\ DropsInOrder
    /\ SourceIsWhole /\ OverviewIsWhole
    /\ SettledMeansIndexed /\ FullSyncRepairs /\ RemovedIsPruned
    /\ OmissionsAddUp /\ BestHitsShown

\* What no step does: change a stored turn or what was derived from it, change the past a run was told, or pay
\* twice for a vector.
RecallSteps == [][HistoryIsImmutable /\ SelectionIsStable /\ NothingPaidTwice]_recallVars
=============================================================================
