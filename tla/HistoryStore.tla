---------------------------- MODULE HistoryStore ----------------------------
(***************************************************************************)
(* Conversation history in Postgres (history/store.go, delivery.go,        *)
(* import.go, indexer.go, digest.go, bootstrap.go, cli/memory.go): turns   *)
(* are immutable once complete, search data is derived from them by an     *)
(* indexer that the agent and the backfill command share, and the cutover  *)
(* from the file history is recorded in the bootstrap row. A transaction   *)
(* is one step. The operator runs one memory command at a time.            *)
(***************************************************************************)
EXTENDS Integers, FiniteSets, FiniteSetsExt

CONSTANTS Imported,      \* turn ids of the file history, a subset of 1..n
          Writers,       \* concurrent recorders of one delivery
          MaxTurns,      \* bound: turn identities
          MaxHistFaults, \* bound: failures of providers, commits and processes
          MaxCommands,   \* bound: memory commands the operator runs
          MaxUpgrades,   \* bound: releases with a new digest prompt
          MaxGrowth      \* bound: turns the old agent adds to the file history

ASSUME HistoryAssumption == MaxTurns \in Nat /\ Imported \subseteq 1..MaxTurns

VARIABLES turns, seq,    \* memory.turns with what is derived from each; the identity's last value
          boot,          \* memory.bootstrap
          source,        \* ids in the file history; {} when there is none
          ver,           \* DigestPromptVersion of the installed release
          up, run,       \* the agent serves; the turn its run reserved, or 0
          idx, lock,     \* the indexers; the owner of the advisory lock
          cmd,           \* the memory command
          rec,           \* the delivery's recorders
          hf, cmds, grown
hsVars == <<turns, seq, boot, source, ver, up, run, idx, lock, cmd, rec, hf, cmds, grown>>

Ids == 1..MaxTurns
Indexers == {"agent", "cli"}
NoTurn == [st |-> "none", kind |-> "none", chunk |-> FALSE, cemb |-> FALSE, dig |-> 0, demb |-> 0, wait |-> "no"]
NoBoot == [row |-> FALSE, ids |-> {}, prepared |-> 0]
IdleIdx == [pc |-> "idle", units |-> {}, did |-> FALSE, err |-> FALSE]
NoCmd == [op |-> "none", snap |-> {}, todo |-> {}, pc |-> "none"]

\* writeMessages and CompleteTurn: a turn with all its messages and parts.
Complete(kind) == [NoTurn EXCEPT !.st = "done", !.kind = kind]
Done == {i \in Ids : turns[i].st = "done"}

HistInit ==
    /\ turns = [i \in Ids |-> NoTurn] /\ seq = 0 /\ boot = NoBoot /\ source \in {{}, Imported} /\ ver = 1
    /\ up = FALSE /\ run = 0 /\ idx = [p \in Indexers |-> IdleIdx] /\ lock = "none" /\ cmd = NoCmd
    /\ rec = [w \in Writers |-> "idle"] /\ hf = 0 /\ cmds = 0 /\ grown = 0

Fault == hf < MaxHistFaults /\ hf' = hf + 1

-----------------------------------------------------------------------------
(* Turns *)

\* ReserveTurn: the identity advances even when its value is taken, which is an error.
Reserve(kind, st) ==
    /\ seq < MaxTurns /\ seq' = seq + 1
    /\ turns' = IF turns[seq + 1].st = "none" THEN [turns EXCEPT ![seq + 1] = [NoTurn EXCEPT !.st = st, !.kind = kind]] ELSE turns

ReserveTurnSeq ==
    /\ up /\ run = 0 /\ Reserve("user", "reserved")
    /\ run' = IF turns[seq + 1].st = "none" THEN seq + 1 ELSE 0
    /\ UNCHANGED <<boot, source, ver, up, idx, lock, cmd, rec, hf, cmds, grown>>

\* AppendTurnAtSeq; a run that fails leaves its turn reserved.
AppendTurnAtSeq ==
    /\ up /\ run # 0 /\ turns[run].st = "reserved"
    /\ turns' = [turns EXCEPT ![run] = Complete("user")] /\ run' = 0
    /\ UNCHANGED <<seq, boot, source, ver, up, idx, lock, cmd, rec, hf, cmds, grown>>
RunFails == up /\ run # 0 /\ run' = 0 /\ UNCHANGED <<turns, seq, boot, source, ver, up, idx, lock, cmd, rec, hf, cmds, grown>>

FindDelivery == {i \in Done : turns[i].kind = "delivery"}

\* writeDelivery reads first; the unique key of the delivery is checked by the insert.
RecordDelivery(w) ==
    /\ up /\ rec[w] = "idle"
    /\ rec' = [rec EXCEPT ![w] = IF FindDelivery # {} THEN "recorded" ELSE "writing"]
    /\ UNCHANGED <<turns, seq, boot, source, ver, up, run, idx, lock, cmd, hf, cmds, grown>>

\* fault: the delivery's key is not unique.
KeyTakenNever == FALSE

\* SQLSTATE 23505 on the delivery's key; verifyDelivery then finds the same text.
KeyTaken == FindDelivery # {}

WriteDelivery(w) ==
    /\ up /\ rec[w] = "writing"
    /\ IF KeyTaken
       THEN seq < MaxTurns /\ seq' = seq + 1 /\ rec' = [rec EXCEPT ![w] = "recorded"] /\ UNCHANGED turns
       ELSE /\ Reserve("delivery", "done")
            /\ rec' = [rec EXCEPT ![w] = IF turns[seq + 1].st = "none" THEN "recorded" ELSE "idle"]
    /\ UNCHANGED <<boot, source, ver, up, run, idx, lock, cmd, hf, cmds, grown>>

\* The commit succeeds and its answer is lost: the recorder reports an error and is called again.
CommitLost(w) ==
    /\ up /\ rec[w] = "writing" /\ ~KeyTaken /\ Fault /\ Reserve("delivery", "done")
    /\ rec' = [rec EXCEPT ![w] = "idle"]
    /\ UNCHANGED <<boot, source, ver, up, run, idx, lock, cmd, cmds, grown>>

-----------------------------------------------------------------------------
(* The indexer *)

Step(p, next) == idx' = [idx EXCEPT ![p] = next]
Alive(p) == IF p = "agent" THEN up ELSE cmd.op = "backfill" /\ cmd.pc = "batches"

\* fault: the lock is not tried.
MayRunUnlocked(p) == TRUE

\* pg_try_advisory_lock
MayRun(p) == lock = "none"

\* A batch ends: Run waits and goes on; the command goes on after progress, ends with an error, or is idle.
BatchOver(p, did, err) ==
    /\ Step(p, IdleIdx) /\ lock' = IF lock = p THEN "none" ELSE lock
    /\ cmd' = IF p = "agent" \/ (did /\ ~err) THEN cmd ELSE IF err THEN NoCmd ELSE [cmd EXCEPT !.pc = "prepare"]

\* RunBatch; a refused lock is an error of the batch: the agent tries again later, the command ends.
RunBatch(p) ==
    /\ Alive(p) /\ idx[p].pc = "idle"
    /\ \/ MayRun(p) /\ lock' = p /\ Step(p, [IdleIdx EXCEPT !.pc = "chunk"]) /\ UNCHANGED cmd
       \/ ~MayRun(p) /\ p = "cli" /\ BatchOver(p, FALSE, TRUE)
    /\ UNCHANGED <<turns, seq, boot, source, ver, up, run, rec, hf, cmds, grown>>

\* Chunk: the chunks of every part that has none of this chunker; one transaction for each part, and
\* what an interrupted batch leaves the next one does.
Chunk(p) ==
    /\ Alive(p) /\ idx[p].pc = "chunk"
    /\ turns' = [i \in Ids |-> [turns[i] EXCEPT !.chunk = @ \/ i \in Done]]
    /\ Step(p, [idx[p] EXCEPT !.pc = "digest", !.did = \E i \in Done : ~turns[i].chunk])
    /\ UNCHANGED <<seq, boot, source, ver, up, run, lock, cmd, rec, hf, cmds, grown>>

\* fault: a failed turn has no next attempt.
DelayForever == "never"

\* RecordDigestFailure: only this turn is delayed, for 30 seconds to 32 minutes.
DigestDelay == "delayed"
NextAttempt(i) ==
    /\ turns[i].wait = "delayed" /\ turns' = [turns EXCEPT ![i].wait = "no"]
    /\ UNCHANGED <<seq, boot, source, ver, up, run, idx, lock, cmd, rec, hf, cmds, grown>>

\* PendingDigests: no digest of this release, and no later next attempt.
PendingDigests == {i \in Done : turns[i].dig # ver /\ turns[i].wait = "no"}

\* fault: the digest's old vector stays.
saveDigestOnly(t) == [t EXCEPT !.dig = ver, !.wait = "no"]

\* saveDigest: the digest of this release is kept, an older one is replaced and its vectors go with it.
saveDigest(t) == IF t.dig = ver THEN t ELSE [t EXCEPT !.dig = ver, !.demb = 0, !.wait = "no"]

\* Digest: digestTurn for every pending turn, some of which fail; then Embed reads what has no vector.
Digest(p) ==
    /\ Alive(p) /\ idx[p].pc = "digest"
    /\ \E failed \in SUBSET PendingDigests :
         LET now == [i \in Ids |-> IF i \notin PendingDigests THEN turns[i]
                                   ELSE IF i \in failed THEN [turns[i] EXCEPT !.wait = DigestDelay] ELSE saveDigest(turns[i])]
         IN /\ IF failed = {} THEN UNCHANGED hf ELSE Fault
            /\ turns' = now
            /\ Step(p, [pc |-> "embed", did |-> idx[p].did \/ failed # PendingDigests, err |-> failed # {},
                        units |-> {[id |-> i, dig |-> now[i].dig] : i \in {j \in Done : now[j].dig # 0 /\ now[j].demb = 0}}
                                  \cup {[id |-> i, dig |-> 0] : i \in {j \in Done : now[j].chunk /\ ~now[j].cemb}}])
    /\ UNCHANGED <<seq, boot, source, ver, up, run, lock, cmd, rec, cmds, grown>>

\* Embed and saveEmbeddings: all vectors in one transaction, ON CONFLICT DO NOTHING; or the provider fails.
Embed(p) ==
    /\ Alive(p) /\ idx[p].pc = "embed"
    /\ turns' = [i \in Ids |->
         [turns[i] EXCEPT !.demb = IF @ = 0 /\ turns[i].dig # 0 /\ \E u \in idx[p].units : u.id = i /\ u.dig # 0
                                   THEN (CHOOSE u \in idx[p].units : u.id = i /\ u.dig # 0).dig ELSE @,
                          !.cemb = @ \/ [id |-> i, dig |-> 0] \in idx[p].units]]
    /\ BatchOver(p, idx[p].did \/ idx[p].units # {}, idx[p].err)
    /\ UNCHANGED <<seq, boot, source, ver, up, run, rec, hf, cmds, grown>>
EmbedFails(p) ==
    /\ Alive(p) /\ idx[p].pc = "embed" /\ idx[p].units # {} /\ Fault /\ BatchOver(p, idx[p].did, TRUE)
    /\ UNCHANGED <<turns, seq, boot, source, ver, up, run, rec, cmds, grown>>

-----------------------------------------------------------------------------
(* The memory command *)

Start(op) ==
    /\ cmd = NoCmd /\ cmds < MaxCommands /\ cmds' = cmds + 1
    /\ op = "import" => source # {} /\ ~up
    /\ cmd' = [op |-> op, snap |-> source, todo |-> source, pc |-> IF op = "import" THEN "turns" ELSE "batches"]
    /\ UNCHANGED <<turns, seq, boot, source, ver, up, run, idx, lock, rec, hf, grown>>

\* importTurn and the verification of what is stored; a conflict ends the import.
ImportTurn ==
    /\ cmd.op = "import" /\ cmd.pc = "turns" /\ cmd.todo # {}
    /\ LET i == Min(cmd.todo)
       IN /\ turns' = IF turns[i].st = "none" THEN [turns EXCEPT ![i] = Complete("import")] ELSE turns
          /\ cmd' = IF turns[i].st = "none" \/ turns[i].kind = "import" THEN [cmd EXCEPT !.todo = @ \ {i}] ELSE NoCmd
    /\ UNCHANGED <<seq, boot, source, ver, up, run, idx, lock, rec, hf, cmds, grown>>

\* fault: the identity stays where it was.
AdvanceNothing(head) == seq

AdvanceTurnIdentity(head) == Max({seq, head} \cup {i \in Ids : turns[i].st # "none"})

\* fault: a new import leaves the readiness of the old one.
RecordImportKeeps(ids) == [row |-> TRUE, ids |-> ids, prepared |-> boot.prepared]

RecordImport(ids) == [row |-> TRUE, ids |-> ids, prepared |-> IF boot.row /\ boot.ids = ids THEN boot.prepared ELSE 0]

\* The counts and the second snapshot must agree; then the identity, then the bootstrap row.
ImportAdvance ==
    /\ cmd.op = "import" /\ cmd.pc = "turns" /\ cmd.todo = {}
    /\ IF Done = cmd.snap /\ source = cmd.snap
       THEN seq' = AdvanceTurnIdentity(Max(cmd.snap)) /\ cmd' = [cmd EXCEPT !.pc = "record"]
       ELSE seq' = seq /\ cmd' = NoCmd
    /\ UNCHANGED <<turns, boot, source, ver, up, run, idx, lock, rec, hf, cmds, grown>>
ImportRecord ==
    /\ cmd.op = "import" /\ cmd.pc = "record" /\ boot' = RecordImport(cmd.snap) /\ cmd' = NoCmd
    /\ UNCHANGED <<turns, seq, source, ver, up, run, idx, lock, rec, hf, cmds, grown>>

\* CountMissingDigests, PendingChunkParts and Status of PrepareCutover.
Indexed(i) == turns[i].chunk /\ turns[i].cemb /\ turns[i].dig = ver /\ turns[i].demb = ver
PrepareCutover ==
    /\ cmd.op = "backfill" /\ cmd.pc = "prepare"
    /\ boot' = IF boot.row /\ \A i \in Done : Indexed(i) THEN [boot EXCEPT !.prepared = ver] ELSE boot
    /\ cmd' = NoCmd
    /\ UNCHANGED <<turns, seq, source, ver, up, run, idx, lock, rec, hf, cmds, grown>>

\* The command is interrupted; a database session that ends gives up its lock.
CommandStops ==
    /\ cmd # NoCmd /\ Fault /\ cmd' = NoCmd /\ lock' = (IF lock = "cli" THEN "none" ELSE lock) /\ idx' = [idx EXCEPT !["cli"] = IdleIdx]
    /\ UNCHANGED <<turns, seq, boot, source, ver, up, run, rec, cmds, grown>>

-----------------------------------------------------------------------------
(* The agent's start *)

\* RequireReady
Ready == boot.row /\ boot.prepared = ver
AgentStarts ==
    /\ ~up /\ ~(cmd.op = "import")
    /\ \/ Ready /\ UNCHANGED boot
       \/ ~boot.row /\ source = {} /\ (\A i \in Ids : turns[i].st = "none")
          /\ boot' = [row |-> TRUE, ids |-> {}, prepared |-> ver]
    /\ up' = TRUE /\ rec' = [w \in Writers |-> IF rec[w] = "writing" THEN "idle" ELSE rec[w]]
    /\ UNCHANGED <<turns, seq, source, ver, run, idx, lock, cmd, hf, cmds, grown>>
AgentStops ==
    /\ up /\ Fault /\ up' = FALSE /\ run' = 0 /\ lock' = (IF lock = "agent" THEN "none" ELSE lock) /\ idx' = [idx EXCEPT !["agent"] = IdleIdx]
    /\ UNCHANGED <<turns, seq, boot, source, ver, cmd, rec, cmds, grown>>
\* A release with a new digest prompt replaces one the history was prepared for.
Upgrade ==
    /\ ~up /\ cmd = NoCmd /\ Ready /\ Done # {} /\ ver <= MaxUpgrades /\ ver' = ver + 1
    /\ UNCHANGED <<turns, seq, boot, source, up, run, idx, lock, cmd, rec, hf, cmds, grown>>
SourceGrows ==
    /\ source # {} /\ ~up /\ grown < MaxGrowth /\ Max(source) < MaxTurns
    /\ source' = source \cup {Max(source) + 1} /\ grown' = grown + 1
    /\ UNCHANGED <<turns, seq, boot, ver, up, run, idx, lock, cmd, rec, hf, cmds>>

IndexStep(p) == RunBatch(p) \/ Chunk(p) \/ Digest(p) \/ Embed(p)
HistNext ==
    \/ ReserveTurnSeq \/ AppendTurnAtSeq \/ RunFails
    \/ \E w \in Writers : RecordDelivery(w) \/ WriteDelivery(w) \/ CommitLost(w)
    \/ \E p \in Indexers : IndexStep(p) \/ EmbedFails(p)
    \/ \E i \in Ids : NextAttempt(i)
    \/ (\E op \in {"import", "backfill"} : Start(op)) \/ ImportTurn \/ ImportAdvance \/ ImportRecord \/ PrepareCutover
    \/ CommandStops \/ AgentStarts \/ AgentStops \/ Upgrade \/ SourceGrows

HistSpec == HistInit /\ [][HistNext]_hsVars
HistFairness == WF_hsVars(IndexStep("agent")) /\ WF_hsVars(IndexStep("cli")) /\ WF_hsVars(\E i \in Ids : NextAttempt(i))

-----------------------------------------------------------------------------
\* RecordDeliveredAssistantEvent: an acknowledged delivery is in the history exactly once, whatever the
\* recorders' interleaving and whichever answer was lost.
OneTurnPerDelivery ==
    /\ Cardinality(FindDelivery) <= 1
    /\ (\E w \in Writers : rec[w] = "recorded") => FindDelivery # {}

\* RequireReady: an agent that serves knows every turn of the import it was prepared for, with the search
\* data of the installed release.
ReadyMeansIndexed == up => \A i \in boot.ids : turns[i].st = "done" /\ Indexed(i)

\* AdvanceTurnIdentity: a serving agent whose import is whole never gets the identity of a stored turn.
IdentitiesAreFresh ==
    up /\ {i \in Done : turns[i].kind = "import"} = boot.ids => \A i \in Ids : turns[i].st # "none" => i <= seq

\* RunBatch: the agent and a backfill never pay for the digests and vectors of the same batch.
BatchesAreSerial == Cardinality({p \in Indexers : idx[p].pc \in {"chunk", "digest", "embed"}}) <= 1

\* A complete turn is never changed, and what is derived from it is not lost: a digest is only replaced by
\* the one of a newer release, and a vector is always the one of the digest beside it.
HistoryIsImmutable ==
    \A i \in Ids : turns[i].st = "done" =>
      /\ turns'[i].st = "done" /\ turns'[i].kind = turns[i].kind
      /\ turns'[i].dig # turns[i].dig => turns'[i].dig = ver /\ turns[i].dig < ver
      /\ turns'[i].demb \in {0, turns'[i].dig}

\* What must end while the agent serves: a complete turn is not searchable yet (Indexer.Run), also after
\* failures of the digest's and of the embedding's provider.
Unindexed == up /\ \E i \in Ids : turns[i].st = "done" /\ ~Indexed(i)
=============================================================================
