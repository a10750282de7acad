----------------------------- MODULE ToolsProofs -----------------------------
(***************************************************************************)
(* Proofs about the sub-agents (Subagents), the file tools (FileCommit,    *)
(* PatchText) and the exec service (ExecSessions, ExecStartup), for every  *)
(* number of sessions, restarts, failed writes, messages, calls, patch     *)
(* lines, chunks of output and budgets: the record directory can always be *)
(* restored, no id is used twice, live sessions keep their records, no     *)
(* accepted message is dropped in silence, and retention is kept; a failed *)
(* patch that was rolled back leaves nothing in the memory files, no step  *)
(* reads them torn, and                                                    *)
(* the access policy sees every file a patch touches; a caller gets the    *)
(* lines a command wrote, once and in order, or is told that some are cut, *)
(* but for those the answer's format leaves out.                           *)
(*                                                                         *)
(* SubInv is inductive: the life of a session, its record and the reserved *)
(* sequence number go together.  So are CommitInv (the calls, the lease    *)
(* and the memory files), PatchInv (what a parser names and its lines),    *)
(* ExecInv (where each chunk is and what a call has read) and StartInv     *)
(* (what of /nix is whole).                                                *)
(***************************************************************************)
EXTENDS MCAgentTools, FiniteSetTheorems, WellFoundedInduction, TLAPS

SubStates == {"none", "running"} \cup Ended
SubRecords ==
    [st : SubStates, run : {"none", "engine", "defer", "evict", "done"}, fin : Nat, pending : Nat,
     limitTold : BOOLEAN, evicted : BOOLEAN, perr : BOOLEAN, ctx : BOOLEAN]
FileRecords == [st : SubStates, fin : Nat]
SubBudgets == [faults : Nat, boots : Nat, messages : 0..MaxMessages]

SubTyped ==
    /\ mgr \in {"down", "up", "closing"}
    /\ sub \in [Sessions -> SubRecords] /\ files \in [Sessions -> FileRecords]
    /\ seqFile \in 0..Cardinality(Sessions) /\ subNext \in 0..Cardinality(Sessions)
    /\ tick \in Nat /\ everUsed \in Seq(Sessions) /\ budget \in SubBudgets

\* The life of session i, with the record f of its file and the reserved number n.
Life(s, f, i, n) ==
    /\ s.run = "none" => s.st = "none" /\ s.fin = 0
    /\ s.run \in {"engine", "defer"} =>
          s.fin = 0 /\ ~s.evicted /\ f.st # "none"
    /\ s.run = "engine" => s.st \in {"running", "killed", "interrupted"}
    /\ s.run \in {"defer", "evict", "done"} => s.st \in Ended
    /\ s.run \in {"evict", "done"} => s.fin > 0
    /\ s.st = "completed" => s.pending = 0 \/ s.limitTold
    /\ ValidRecord(f)
    /\ f.st # "none" => i <= n

SubLives ==
    \A i \in Sessions :
        Life(sub[i], files[i], i, seqFile) /\ sub[i].pending <= budget.messages

\* What was ever used is reserved on disk, and the counter in memory is not behind.
SubReserved ==
    /\ mgr # "down" => seqFile <= subNext
    /\ \A a \in DOMAIN everUsed : everUsed[a] <= seqFile
    /\ IdsAreNeverReused

DoneSet(t) == {i \in Sessions : Finished(t[i]) /\ t[i].run = "done"}
DoneLogs(t) == {i \in Sessions : Finished(t[i]) /\ t[i].run = "done" /\ ~t[i].evicted}

\* The sessions past their eviction step are within the limits.
SubRetained ==
    budget.faults = 0 => /\ Cardinality(DoneSet(sub)) <= MaxRecords
                         /\ Cardinality(DoneLogs(sub)) <= MaxLogs

SubInv == SubTyped /\ SubLives /\ SubReserved /\ SubRetained

-----------------------------------------------------------------------------
(* Counting. *)
LEMMA SmallestOf ==
    ASSUME NEW T, T \subseteq Nat, T # {}
    PROVE  \E x \in T : \A y \in T : x <= y
<1>1. PICK x \in T : \A y \in T : ~(<<y, x>> \in OpToRel(<, Nat))
    BY NatLessThanWellFounded, WFMin
<1>2. \A y \in T : ~(y < x)
    BY <1>1 DEF OpToRel
<1>3. QED BY <1>2

LEMMA SessionNumbers ==
    /\ IsFiniteSet(Sessions) /\ Sessions \subseteq Nat /\ Cardinality(Sessions) \in Nat
    /\ Sessions = 1..Cardinality(Sessions)
<1>1. IsFiniteSet(Sessions) /\ Sessions = 1..Cardinality(Sessions)
    BY RetentionAssumption
<1>2. Cardinality(Sessions) \in Nat
    BY <1>1, FS_CardinalityType
<1>3. QED BY <1>1, <1>2

\* At most M finished sessions have fewer than M newer ones.
LEMMA RankBound ==
    ASSUME NEW t \in [Sessions -> SubRecords], NEW M \in Nat
    PROVE  LET K == {i \in Sessions : Finished(t[i]) /\ Newer(t, i) < M}
           IN  IsFiniteSet(K) /\ Cardinality(K) <= M
<1> DEFINE K == {i \in Sessions : Finished(t[i]) /\ Newer(t, i) < M}
<1>1. IsFiniteSet(K) /\ Cardinality(K) \in Nat
  <2>1. K \in SUBSET Sessions
    OBVIOUS
  <2>2. QED BY <2>1, SessionNumbers, FS_Subset, FS_CardinalityType
<1>2. CASE K = {}
    BY <1>2, FS_EmptySet
<1>3. CASE K # {}
  <2>1. \A i \in Sessions : t[i].fin \in Nat
    BY DEF SubRecords
  <2> DEFINE F == {t[i].fin : i \in K}
  <2>2. F \subseteq Nat /\ F # {}
    BY <1>3, <2>1
  <2>3. PICK x \in F : \A y \in F : x <= y
    <3> HIDE DEF F
    <3>1. QED BY <2>2, SmallestOf
  <2> DEFINE L == {i \in K : t[i].fin = x}
  <2>4. L \subseteq Nat /\ L # {}
    BY <2>3, SessionNumbers
  <2>5. PICK m \in L : \A y \in L : m <= y
    <3> HIDE DEF L
    <3>1. QED BY <2>4, SmallestOf
  <2>6. m \in K /\ m \in Sessions /\ t[m].fin = x
    OBVIOUS
  <2> DEFINE A == {j \in Sessions : Finished(t[j]) /\ (t[j].fin > t[m].fin \/ (t[j].fin = t[m].fin /\ j > m))}
  <2>7. ASSUME NEW j \in K, j # m PROVE j \in A
    <3>1. t[j].fin \in Nat /\ x \in Nat /\ x <= t[j].fin /\ j \in Nat /\ m \in Nat
      BY <2>1, <2>2, <2>3, <2>6, SessionNumbers
    <3>2. CASE t[j].fin = x
      <4>1. m <= j
        BY <2>5, <3>2
      <4>2. QED BY <2>6, <2>7, <3>1, <3>2, <4>1
    <3>3. CASE t[j].fin # x
      BY <2>6, <3>1, <3>3
    <3>4. QED BY <3>2, <3>3
  <2>8. IsFiniteSet(A) /\ Cardinality(A) \in Nat /\ Cardinality(A) = Newer(t, m)
    <3>1. A \in SUBSET Sessions
      OBVIOUS
    <3>2. Cardinality(A) = Newer(t, m)
      BY DEF Newer
    <3> HIDE DEF A
    <3>3. QED BY <3>1, <3>2, SessionNumbers, FS_Subset, FS_CardinalityType
  <2>9. Newer(t, m) < M
    BY <2>6
  <2>10. K \ {m} \in SUBSET A
    BY <2>7
  <2> HIDE DEF A, K
  <2>11. Cardinality(K \ {m}) <= Cardinality(A) /\ Cardinality(K \ {m}) = Cardinality(K) - 1
    BY <1>1, <2>6, <2>8, <2>10, FS_Subset, FS_RemoveElement
  <2>12. Cardinality(K) <= M
    BY <1>1, <2>8, <2>9, <2>11
  <2>13. QED BY <1>1, <2>12 DEF K
<1>4. QED BY <1>1, <1>2, <1>3

-----------------------------------------------------------------------------
(* The steps. *)

LEMMA DoneSets ==
    /\ IsFiniteSet(DoneSet(sub)) /\ Cardinality(DoneSet(sub)) \in Nat
    /\ IsFiniteSet(DoneLogs(sub)) /\ Cardinality(DoneLogs(sub)) \in Nat
<1>1. DoneSet(sub) \in SUBSET Sessions /\ DoneLogs(sub) \in SUBSET Sessions
    BY DEF DoneSet, DoneLogs
<1>2. QED BY <1>1, SessionNumbers, FS_Subset, FS_CardinalityType

\* Sessions that change without passing their eviction step leave retention as it is.
LEMMA RetainedKept ==
    ASSUME SubRetained, DoneSet(sub)' \subseteq DoneSet(sub), DoneLogs(sub)' \subseteq DoneLogs(sub),
           budget'.faults = 0 => budget.faults = 0
    PROVE  SubRetained'
<1> SUFFICES ASSUME budget'.faults = 0
             PROVE  Cardinality(DoneSet(sub)') <= MaxRecords /\ Cardinality(DoneLogs(sub)') <= MaxLogs
    BY DEF SubRetained
<1>1. Cardinality(DoneSet(sub)) <= MaxRecords /\ Cardinality(DoneLogs(sub)) <= MaxLogs
    BY DEF SubRetained
<1>2. /\ IsFiniteSet(DoneSet(sub)) /\ Cardinality(DoneSet(sub)) \in Nat
      /\ IsFiniteSet(DoneLogs(sub)) /\ Cardinality(DoneLogs(sub)) \in Nat
    BY DoneSets
<1>3. /\ Cardinality(DoneSet(sub)') <= Cardinality(DoneSet(sub)) /\ Cardinality(DoneSet(sub)') \in Nat
      /\ Cardinality(DoneLogs(sub)') <= Cardinality(DoneLogs(sub)) /\ Cardinality(DoneLogs(sub)') \in Nat
  <2>1. DoneSet(sub)' \in SUBSET DoneSet(sub) /\ DoneLogs(sub)' \in SUBSET DoneLogs(sub)
    OBVIOUS
  <2>2. QED BY <1>2, <2>1, FS_Subset, FS_CardinalityType
<1>4. MaxRecords \in Nat /\ MaxLogs \in Nat
    BY RetentionAssumption
<1>5. QED BY <1>1, <1>2, <1>3, <1>4

\* A step of one session.
LEMMA OneSession ==
    ASSUME SubInv, NEW CONSTANT i \in Sessions,
           sub' \in [Sessions -> SubRecords], files' \in [Sessions -> FileRecords],
           \A j \in Sessions : j # i => sub'[j] = sub[j] /\ files'[j] = files[j],
           Life(sub'[i], files'[i], i, seqFile), sub'[i].pending <= budget'.messages,
           sub'[i].run # "done", UNCHANGED <<mgr, seqFile, subNext, everUsed>>, tick' \in Nat,
           budget' \in SubBudgets, budget'.messages >= budget.messages,
           budget'.faults = 0 => budget.faults = 0
    PROVE  SubInv'
<1>1. SubTyped /\ SubLives /\ SubReserved /\ SubRetained
    BY DEF SubInv
<1>2. SubTyped'
    BY <1>1 DEF SubTyped
<1>3. SubLives'
  <2>1. SUFFICES ASSUME NEW j \in Sessions
                 PROVE  Life(sub'[j], files'[j], j, seqFile) /\ sub'[j].pending <= budget'.messages
    BY DEF SubLives
  <2>2. CASE j = i
    BY <2>2
  <2>3. CASE j # i
    <3>1. /\ sub'[j] = sub[j] /\ files'[j] = files[j] /\ Life(sub[j], files[j], j, seqFile)
          /\ sub[j].pending <= budget.messages
      BY <1>1, <2>3 DEF SubLives
    <3>2. sub[j].pending \in Nat /\ budget.messages \in Nat /\ budget'.messages \in Nat
      BY <1>1 DEF SubTyped, SubRecords, SubBudgets
    <3>3. QED BY <3>1, <3>2
  <2>4. QED BY <2>2, <2>3
<1>4. SubReserved'
    BY <1>1 DEF SubReserved, IdsAreNeverReused
<1>5. DoneSet(sub)' \subseteq DoneSet(sub) /\ DoneLogs(sub)' \subseteq DoneLogs(sub)
    BY DEF DoneSet, DoneLogs
<1>6. QED BY <1>1, <1>2, <1>3, <1>4, <1>5, RetainedKept DEF SubInv

\* A step of the manager over the whole table.
LEMMA WholeTable ==
    ASSUME SubInv, mgr' \in {"down", "up", "closing"},
           sub' \in [Sessions -> SubRecords], files' \in [Sessions -> FileRecords],
           \A j \in Sessions : /\ Life(sub'[j], files'[j], j, seqFile)
                               /\ sub'[j].pending <= budget'.messages,
           UNCHANGED <<seqFile, everUsed>>, tick' \in Nat,
           subNext' \in 0..Cardinality(Sessions), mgr' # "down" => seqFile <= subNext',
           budget' \in SubBudgets, SubRetained'
    PROVE  SubInv'
<1>1. SubTyped /\ SubReserved
    BY DEF SubInv
<1>2. SubTyped' /\ SubLives' /\ SubReserved'
    BY <1>1 DEF SubTyped, SubLives, SubReserved, IdsAreNeverReused
<1>3. QED BY <1>2 DEF SubInv

LEMMA SubFacts ==
    ASSUME SubInv, NEW CONSTANT i \in Sessions
    PROVE  /\ sub[i] \in SubRecords /\ files[i] \in FileRecords /\ Life(sub[i], files[i], i, seqFile)
           /\ sub[i].pending <= budget.messages /\ sub[i].pending \in Nat
           /\ sub[i].run \in {"none", "engine", "defer", "evict", "done"}
           /\ sub \in [Sessions -> SubRecords] /\ files \in [Sessions -> FileRecords]
           /\ budget \in SubBudgets /\ budget.messages \in Nat /\ budget.faults \in Nat
           /\ tick \in Nat
<1>1. SubTyped /\ SubLives
    BY DEF SubInv
<1>2. sub[i] \in SubRecords /\ budget \in SubBudgets
    BY <1>1 DEF SubTyped
<1>3. QED BY <1>1, <1>2 DEF SubTyped, SubLives, SubRecords, SubBudgets

\* A fault is counted, and nothing else of the budget changes.
LEMMA FaultCounted ==
    ASSUME budget \in SubBudgets, SubFault
    PROVE  /\ budget' \in SubBudgets /\ budget'.messages = budget.messages /\ budget'.faults # 0
BY DEF SubFault, SubBudgets

LEMMA ObserverKeeps ==
    ASSUME SubInv, NEW CONSTANT i \in Sessions, observer(i)
    PROVE  SubInv'
<1>1. /\ sub[i] \in SubRecords /\ files[i] \in FileRecords /\ Life(sub[i], files[i], i, seqFile)
      /\ sub[i].pending <= budget.messages /\ sub \in [Sessions -> SubRecords]
      /\ files \in [Sessions -> FileRecords] /\ budget \in SubBudgets /\ budget.messages \in Nat /\ tick \in Nat
    BY SubFacts
<1>2. /\ sub[i].run = "engine" /\ sub[i].st = "running" /\ SubFault
      /\ files' \in {files, [files EXCEPT ![i] = SubRecord(sub[i])]}
      /\ sub' = [sub EXCEPT ![i].perr = TRUE, ![i].ctx = FALSE]
      /\ UNCHANGED <<mgr, seqFile, subNext, tick, everUsed>>
    BY DEF observer, Saved
<1>21. PICK s : s = [sub[i] EXCEPT !.perr = TRUE, !.ctx = FALSE]
    OBVIOUS
<1>3. /\ s \in SubRecords /\ s.st = sub[i].st /\ s.run = sub[i].run /\ s.fin = sub[i].fin
      /\ s.pending = sub[i].pending /\ s.limitTold = sub[i].limitTold
      /\ s.evicted = sub[i].evicted
    BY <1>1, <1>21 DEF SubRecords
<1>4. sub' \in [Sessions -> SubRecords] /\ sub'[i] = s /\ \A j \in Sessions : j # i => sub'[j] = sub[j]
    BY <1>1, <1>2, <1>21, <1>3
<1>41. PICK f : f = SubRecord(sub[i])
    OBVIOUS
<1>5. f \in FileRecords /\ f.st = sub[i].st /\ f.fin = sub[i].fin
    BY <1>1, <1>41 DEF SubRecord, SubRecords, FileRecords
<1>6. /\ files' \in [Sessions -> FileRecords] /\ files'[i] \in {files[i], f}
      /\ \A j \in Sessions : j # i => files'[j] = files[j]
    BY <1>1, <1>2, <1>41, <1>5
<1>7. Life(s, files'[i], i, seqFile)
    BY <1>1, <1>2, <1>3, <1>5, <1>6 DEF Life, ValidRecord
<1>8. budget' \in SubBudgets /\ budget'.messages = budget.messages /\ budget'.faults # 0
    BY <1>1, <1>2, FaultCounted
<1>9. /\ s.pending <= budget'.messages /\ budget'.messages >= budget.messages
      /\ (budget'.faults = 0 => budget.faults = 0) /\ s.run # "done"
    BY <1>1, <1>2, <1>3, <1>8
<1>10. QED BY <1>1, <1>2, <1>4, <1>6, <1>7, <1>8, <1>9, OneSession

LEMMA EngineReturnsKeeps ==
    ASSUME SubInv, NEW CONSTANT i \in Sessions, NEW CONSTANT err \in BOOLEAN,
           NEW CONSTANT left \in BOOLEAN, EngineReturns(i, err, left)
    PROVE  SubInv'
<1>1. /\ sub[i] \in SubRecords /\ files[i] \in FileRecords /\ Life(sub[i], files[i], i, seqFile)
      /\ sub[i].pending <= budget.messages /\ sub[i].pending \in Nat /\ sub \in [Sessions -> SubRecords]
      /\ files \in [Sessions -> FileRecords] /\ budget \in SubBudgets /\ budget.messages \in Nat /\ tick \in Nat
    BY SubFacts
<1>2. PICK r : r = sub[i]
    OBVIOUS
<1>3. PICK s : s = IF r.st \in {"killed", "interrupted"} THEN [r EXCEPT !.st = r.st, !.run = "defer"]
                   ELSE IF ~r.ctx \/ err \/ r.perr THEN [r EXCEPT !.st = "failed", !.run = "defer"]
                   ELSE IF Completes(r, left)
                        THEN [[r EXCEPT !.st = "completed", !.run = "defer"]
                                EXCEPT !.limitTold = r.pending > 0 /\ ~left]
                   ELSE [r EXCEPT !.pending = 0]
    OBVIOUS
<1>4. /\ r.run = "engine" /\ sub' = [sub EXCEPT ![i] = s]
      /\ UNCHANGED <<mgr, files, seqFile, subNext, tick, everUsed, budget>>
    BY <1>2, <1>3 DEF EngineReturns
<1>5. /\ s \in SubRecords /\ s.fin = r.fin /\ s.evicted = r.evicted
      /\ s.pending <= r.pending /\ s.pending \in Nat
      /\ \/ s.run = "defer" /\ s.st \in {"killed", "interrupted", "failed"} 
         \/ s.run = "defer" /\ s.st = "completed" /\ (s.pending = 0 \/ s.limitTold)
         \/ s.run = "engine" /\ s.st = r.st /\ s.pending = 0
  <2>1. r \in SubRecords /\ r.pending \in Nat /\ r.run = "engine" /\ 0 <= r.pending
        /\ r.st \in {"running", "killed", "interrupted"}
    BY <1>1, <1>2, <1>4 DEF Life
  <2>2. CASE r.st \in {"killed", "interrupted"}
    <3>1. s = [r EXCEPT !.st = r.st, !.run = "defer"]
      BY <1>3, <2>2
    <3>2. /\ s \in SubRecords /\ s.fin = r.fin /\ s.evicted = r.evicted /\ s.pending = r.pending
          /\ s.run = "defer" /\ s.st = r.st
      BY <2>1, <3>1 DEF SubRecords
    <3>3. QED BY <2>1, <2>2, <3>2
  <2>3. CASE r.st = "running" /\ (~r.ctx \/ err \/ r.perr)
    <3>1. s = [r EXCEPT !.st = "failed", !.run = "defer"]
      BY <1>3, <2>3
    <3>2. /\ s \in SubRecords /\ s.fin = r.fin /\ s.evicted = r.evicted /\ s.pending = r.pending
          /\ s.run = "defer" /\ s.st = "failed"
      BY <2>1, <3>1 DEF SubRecords, SubStates, Ended
    <3>3. QED BY <2>1, <3>2
  <2>4. CASE r.st = "running" /\ ~(~r.ctx \/ err \/ r.perr) /\ Completes(r, left)
    <3>1. s = [[r EXCEPT !.st = "completed", !.run = "defer"] EXCEPT !.limitTold = r.pending > 0 /\ ~left]
      BY <1>3, <2>4
    <3>2. PICK b \in BOOLEAN : b = (r.pending > 0 /\ ~left)
      OBVIOUS
    <3>3. s = [[r EXCEPT !.st = "completed", !.run = "defer"] EXCEPT !.limitTold = b]
      BY <3>1, <3>2
    <3>4. /\ s \in SubRecords /\ s.fin = r.fin /\ s.evicted = r.evicted /\ s.pending = r.pending
          /\ s.run = "defer" /\ s.st = "completed" /\ s.limitTold = b
      BY <2>1, <3>3 DEF SubRecords, SubStates, Ended
    <3>5. r.pending = 0 \/ b
      <4>1. CASE r.pending > 0 /\ ~left
        BY <3>2, <4>1
      <4>2. CASE ~(r.pending > 0 /\ ~left)
        BY <2>1, <2>4, <4>2 DEF Completes
      <4>3. QED BY <4>1, <4>2
    <3>6. QED BY <2>1, <3>4, <3>5
  <2>5. CASE r.st = "running" /\ ~(~r.ctx \/ err \/ r.perr) /\ ~Completes(r, left)
    BY <1>3, <2>1, <2>5 DEF SubRecords
  <2>6. QED BY <2>1, <2>2, <2>3, <2>4, <2>5
<1>6. sub' \in [Sessions -> SubRecords] /\ sub'[i] = s /\ \A j \in Sessions : j # i => sub'[j] = sub[j]
    BY <1>1, <1>4, <1>5
<1>7. Life(s, files[i], i, seqFile)
    BY <1>1, <1>2, <1>4, <1>5 DEF Life, Ended
<1>8. s.pending <= budget.messages /\ s.run # "done" /\ budget.messages >= budget.messages
    BY <1>1, <1>2, <1>5
<1>9. QED BY <1>1, <1>4, <1>6, <1>7, <1>8, OneSession

\* The deferred bookkeeping of a session: it ends with a finish time, and what
\* of its record reaches the disk is valid.
LEMMA DeferredKeeps ==
    ASSUME SubInv, NEW CONSTANT i \in Sessions, runDeferred(i)
    PROVE  SubInv'
<1>1. /\ sub[i] \in SubRecords /\ files[i] \in FileRecords /\ Life(sub[i], files[i], i, seqFile)
      /\ sub[i].pending <= budget.messages /\ sub[i].pending \in Nat /\ sub \in [Sessions -> SubRecords]
      /\ files \in [Sessions -> FileRecords] /\ budget \in SubBudgets /\ budget.messages \in Nat
      /\ budget.faults \in Nat /\ tick \in Nat
    BY SubFacts
<1>2. PICK r : r = sub[i]
    OBVIOUS
<1>3. PICK s : s = [r EXCEPT !.fin = tick + 1, !.ctx = FALSE, !.run = "evict"]
    OBVIOUS
<1>4. PICK failed : failed = [s EXCEPT !.st = IF s.st = "completed" THEN "failed" ELSE s.st, !.perr = TRUE]
    OBVIOUS
<1>5. r \in SubRecords /\ r.run = "defer" /\ r.st \in Ended /\ r.fin = 0 /\ r.pending \in Nat /\ files[i].st # "none"
    BY <1>1, <1>2 DEF Life, runDeferred
<1>6. /\ s \in SubRecords /\ s.st = r.st /\ s.fin = tick + 1 /\ s.run = "evict" /\ s.pending = r.pending
      /\ s.limitTold = r.limitTold
  <2>1. tick + 1 \in Nat
    BY <1>1
  <2>2. QED BY <1>3, <1>5, <2>1 DEF SubRecords
<1>7. /\ failed \in SubRecords /\ failed.st \in Ended /\ failed.st # "completed" /\ failed.fin = tick + 1
      /\ failed.run = "evict" /\ failed.pending = r.pending
  <2>1. PICK st : st = IF s.st = "completed" THEN "failed" ELSE s.st
    OBVIOUS
  <2>2. st \in Ended /\ st # "completed"
    BY <1>5, <1>6, <2>1 DEF Ended
  <2>3. failed = [s EXCEPT !.st = st, !.perr = TRUE]
    BY <1>4, <2>1
  <2>4. QED BY <1>6, <2>2, <2>3 DEF SubRecords, SubStates
<1>8. PICK f : f = SubRecord(s)
    OBVIOUS
<1>9. PICK g : g = SubRecord(failed)
    OBVIOUS
<1>10. /\ f \in FileRecords /\ f.st = s.st /\ f.fin = tick + 1
       /\ g \in FileRecords /\ g.st = failed.st /\ g.fin = tick + 1
    BY <1>6, <1>7, <1>8, <1>9 DEF SubRecord, SubRecords, FileRecords
<1>11. /\ sub' \in {[sub EXCEPT ![i] = s], [sub EXCEPT ![i] = failed]}
       /\ files' \in {files, [files EXCEPT ![i] = f], [files EXCEPT ![i] = g]}
       /\ UNCHANGED budget \/ SubFault \/ budget' = [budget EXCEPT !.faults = @ + 2]
       /\ tick' = tick + 1 /\ UNCHANGED <<mgr, seqFile, subNext, everUsed>>
  <2>1. /\ tick' = tick + 1 /\ UNCHANGED <<mgr, seqFile, subNext, everUsed>>
        /\ IF s.perr
           THEN \/ Saved(i, g, TRUE) /\ sub' = [sub EXCEPT ![i] = failed]
                \/ Saved(i, g, FALSE) /\ sub' = [sub EXCEPT ![i] = failed]
           ELSE \/ Saved(i, f, TRUE) /\ sub' = [sub EXCEPT ![i] = s]
                \/ /\ SubFault /\ files' = [files EXCEPT ![i] = g]
                   /\ sub' = [sub EXCEPT ![i] = failed]
                \/ /\ budget' = [budget EXCEPT !.faults = @ + 2]
                   /\ \E rec \in {files[i], f, g} : files' = [files EXCEPT ![i] = rec]
                   /\ sub' = [sub EXCEPT ![i] = failed]
    BY <1>2, <1>3, <1>4, <1>8, <1>9 DEF runDeferred
  <2>2. [files EXCEPT ![i] = files[i]] = files
    BY <1>1
  <2>3. QED BY <2>1, <2>2 DEF Saved
<1>12. /\ sub' \in [Sessions -> SubRecords] /\ sub'[i] \in {s, failed}
       /\ \A j \in Sessions : j # i => sub'[j] = sub[j]
    BY <1>1, <1>6, <1>7, <1>11
<1>13. /\ files' \in [Sessions -> FileRecords] /\ files'[i] \in {files[i], f, g}
       /\ \A j \in Sessions : j # i => files'[j] = files[j]
    BY <1>1, <1>10, <1>11
<1>14. Life(sub'[i], files'[i], i, seqFile)
  <2>1. tick + 1 > 0 /\ tick + 1 \in Nat
    BY <1>1
  <2>2. /\ sub'[i].run = "evict" /\ sub'[i].st \in Ended /\ sub'[i].fin > 0
        /\ sub'[i].st = "completed" => sub'[i].pending = 0 \/ sub'[i].limitTold
    BY <1>1, <1>2, <1>5, <1>6, <1>7, <1>12, <2>1 DEF Life
  <2>3. ValidRecord(files'[i])
    <3>1. ValidRecord(files[i])
      BY <1>1 DEF Life
    <3>2. ValidRecord(f) /\ ValidRecord(g)
      BY <1>5, <1>6, <1>7, <1>10, <2>1 DEF ValidRecord
    <3>3. QED BY <1>13, <3>1, <3>2
  <2>4. i <= seqFile
    BY <1>1, <1>5 DEF Life
  <2>5. QED BY <2>2, <2>3, <2>4 DEF Life, Ended
<1>15. /\ budget' \in SubBudgets /\ budget'.messages = budget.messages
       /\ budget'.faults = 0 => budget.faults = 0
  <2>1. CASE UNCHANGED budget
    BY <1>1, <2>1
  <2>2. CASE SubFault
    BY <1>1, <2>2, FaultCounted
  <2>3. CASE budget' = [budget EXCEPT !.faults = @ + 2]
    BY <1>1, <2>3 DEF SubBudgets
  <2>4. QED BY <1>11, <2>1, <2>2, <2>3
<1>16. /\ sub'[i].pending <= budget'.messages /\ budget'.messages >= budget.messages
       /\ sub'[i].run # "done" /\ tick' \in Nat
    BY <1>1, <1>2, <1>6, <1>7, <1>11, <1>12, <1>15
<1>17. QED BY <1>11, <1>12, <1>13, <1>14, <1>15, <1>16, OneSession

LEMMA WriteKeeps ==
    ASSUME SubInv, NEW CONSTANT i \in Sessions, SubWrite(i)
    PROVE  SubInv'
<1>1. /\ sub[i] \in SubRecords /\ files[i] \in FileRecords /\ Life(sub[i], files[i], i, seqFile)
      /\ sub[i].pending <= budget.messages /\ sub[i].pending \in Nat /\ sub \in [Sessions -> SubRecords]
      /\ files \in [Sessions -> FileRecords] /\ budget \in SubBudgets /\ budget.messages \in Nat
      /\ budget.faults \in Nat /\ tick \in Nat
    BY SubFacts
<1>2. /\ sub[i].st = "running" /\ budget.messages < MaxMessages
      /\ sub' = [sub EXCEPT ![i].pending = @ + 1] /\ budget' = [budget EXCEPT !.messages = @ + 1]
      /\ UNCHANGED <<mgr, files, seqFile, subNext, tick, everUsed>>
    BY DEF SubWrite
<1>3. PICK s : s = [sub[i] EXCEPT !.pending = sub[i].pending + 1]
    OBVIOUS
<1>4. /\ s \in SubRecords /\ s.st = sub[i].st /\ s.run = sub[i].run /\ s.fin = sub[i].fin
      /\ s.pending = sub[i].pending + 1 /\ s.evicted = sub[i].evicted
  <2>1. sub[i].pending + 1 \in Nat
    BY <1>1
  <2>2. QED BY <1>1, <1>3, <2>1 DEF SubRecords
<1>5. sub' \in [Sessions -> SubRecords] /\ sub'[i] = s /\ \A j \in Sessions : j # i => sub'[j] = sub[j]
    BY <1>1, <1>2, <1>3, <1>4
<1>6. Life(s, files[i], i, seqFile) /\ s.run # "done"
    BY <1>1, <1>2, <1>4 DEF Life, Ended
<1>7. /\ budget' \in SubBudgets /\ budget'.messages = budget.messages + 1 /\ budget'.faults = budget.faults
  <2>1. budget.messages + 1 \in 0..MaxMessages
    BY <1>1, <1>2, RetentionAssumption
  <2>2. QED BY <1>1, <1>2, <2>1 DEF SubBudgets
<1>8. s.pending <= budget'.messages /\ budget'.messages >= budget.messages
    BY <1>1, <1>4, <1>7
<1>9. QED BY <1>1, <1>2, <1>5, <1>6, <1>7, <1>8, OneSession

LEMMA KillKeeps ==
    ASSUME SubInv, NEW CONSTANT i \in Sessions, SubKill(i)
    PROVE  SubInv'
<1>1. /\ sub[i] \in SubRecords /\ files[i] \in FileRecords /\ Life(sub[i], files[i], i, seqFile)
      /\ sub[i].pending <= budget.messages /\ sub \in [Sessions -> SubRecords]
      /\ files \in [Sessions -> FileRecords] /\ budget \in SubBudgets /\ budget.messages \in Nat /\ tick \in Nat
    BY SubFacts
<1>2. /\ sub[i].st = "running"
      /\ sub' = [sub EXCEPT ![i].st = "killed", ![i].ctx = FALSE]
      /\ UNCHANGED <<mgr, files, seqFile, subNext, tick, everUsed, budget>>
    BY DEF SubKill
<1>3. PICK s : s = [sub[i] EXCEPT !.st = "killed", !.ctx = FALSE]
    OBVIOUS
<1>4. /\ s \in SubRecords /\ s.st = "killed" /\ s.run = sub[i].run /\ s.fin = sub[i].fin
      /\ s.pending = sub[i].pending /\ s.evicted = sub[i].evicted
    BY <1>1, <1>3 DEF SubRecords, SubStates, Ended
<1>5. sub' \in [Sessions -> SubRecords] /\ sub'[i] = s /\ \A j \in Sessions : j # i => sub'[j] = sub[j]
    BY <1>1, <1>2, <1>3, <1>4
<1>6. Life(s, files[i], i, seqFile) /\ s.run # "done"
    BY <1>1, <1>2, <1>4 DEF Life, Ended
<1>7. s.pending <= budget.messages /\ budget.messages >= budget.messages
    BY <1>1, <1>4
<1>8. QED BY <1>1, <1>2, <1>5, <1>6, <1>7, OneSession

\* The contexts end; Close marks what was running.
LEMMA CancelKeeps == SubInv /\ (RootCancelled \/ SubClose) => SubInv'
<1> SUFFICES ASSUME SubInv, RootCancelled \/ SubClose PROVE SubInv'
    OBVIOUS
<1>1. SubTyped /\ SubLives /\ SubReserved /\ SubRetained
    BY DEF SubInv
<1>2. /\ mgr = "up" /\ mgr' \in {"up", "closing"}
      /\ UNCHANGED <<files, seqFile, subNext, tick, everUsed, budget>>
      /\ \/ sub' = [i \in Sessions |-> [sub[i] EXCEPT !.ctx = FALSE]]
         \/ sub' = [i \in Sessions |-> [sub[i] EXCEPT !.ctx = FALSE,
                                          !.st = IF @ = "running" THEN "interrupted" ELSE @]]
    BY DEF RootCancelled, SubClose
<1>3. ASSUME NEW i \in Sessions
      PROVE  /\ sub'[i] \in SubRecords /\ sub'[i].run = sub[i].run /\ sub'[i].fin = sub[i].fin
             /\ sub'[i].pending = sub[i].pending /\ sub'[i].evicted = sub[i].evicted
             /\ sub'[i].limitTold = sub[i].limitTold
             /\ sub'[i].st \in {sub[i].st, IF sub[i].st = "running" THEN "interrupted" ELSE sub[i].st}
  <2>1. PICK r \in SubRecords : r = sub[i]
    BY <1>1 DEF SubTyped
  <2>2. PICK st \in SubStates : st = IF r.st = "running" THEN "interrupted" ELSE r.st
    BY DEF SubRecords, SubStates, Ended
  <2>3. sub'[i] = [r EXCEPT !.ctx = FALSE] \/ sub'[i] = [r EXCEPT !.ctx = FALSE, !.st = st]
    BY <1>2, <2>1, <2>2
  <2>4. QED BY <2>1, <2>2, <2>3 DEF SubRecords
<1>4. sub' \in [Sessions -> SubRecords]
  <2>1. \E T \in {sub'} : T = [i \in Sessions |-> sub'[i]]
    BY <1>2
  <2>2. QED BY <1>3, <2>1
<1>5. ASSUME NEW i \in Sessions
      PROVE  Life(sub'[i], files'[i], i, seqFile) /\ sub'[i].pending <= budget'.messages
  <2>1. Life(sub[i], files[i], i, seqFile) /\ sub[i].pending <= budget.messages
    BY <1>1 DEF SubLives
  <2>2. QED BY <1>2, <1>3, <2>1 DEF Life, Ended
<1>6. DoneSet(sub)' \subseteq DoneSet(sub) /\ DoneLogs(sub)' \subseteq DoneLogs(sub)
  <2>1. ASSUME NEW i \in Sessions, Finished(sub'[i]), sub'[i].run = "done" PROVE Finished(sub[i]) /\ sub[i].run = "done"
    <3>1. sub[i].st \in Ended
      BY <1>1, <1>3, <2>1 DEF SubLives, Life
    <3>2. QED BY <1>3, <2>1, <3>1 DEF Finished
  <2>2. \A i \in Sessions : ~sub'[i].evicted => ~sub[i].evicted
    BY <1>3
  <2>3. QED BY <2>1, <2>2 DEF DoneSet, DoneLogs
<1>7. SubRetained'
    BY <1>1, <1>2, <1>6, RetainedKept
<1>8. QED
  <2>1. budget' \in SubBudgets /\ subNext' \in 0..Cardinality(Sessions) /\ tick' \in Nat /\ files' \in [Sessions -> FileRecords]
    BY <1>1, <1>2 DEF SubTyped
  <2>2. mgr' # "down" => seqFile <= subNext'
    BY <1>1, <1>2 DEF SubReserved
  <2>3. QED BY <1>2, <1>4, <1>5, <1>7, <2>1, <2>2, WholeTable

LEMMA NoSessionLives ==
    /\ NoSession \in SubRecords /\ NoFile \in FileRecords
    /\ NoSession.run = "none" /\ ~Finished(NoSession) /\ NoSession.pending = 0
    /\ \A i, n : Life(NoSession, NoFile, i, n)
<1>1. 0 \in Nat
    OBVIOUS
<1>2. NoSession \in SubRecords /\ NoFile \in FileRecords
    BY <1>1 DEF NoSession, NoFile, SubRecords, FileRecords, SubStates
<1>3. NoSession.run = "none" /\ NoSession.st = "none" /\ NoSession.fin = 0 /\ NoSession.pending = 0 /\ NoFile.st = "none"
    BY DEF NoSession, NoFile
<1>4. ~Finished(NoSession)
    BY <1>3 DEF Finished, Ended
<1>5. \A i, n : Life(NoSession, NoFile, i, n)
    BY <1>3 DEF Life, ValidRecord
<1>6. QED BY <1>2, <1>3, <1>4, <1>5

\* The process ends, by itself or not: the table is forgotten, the files stay.
LEMMA EndKeeps == SubInv /\ (SubClosed \/ SubCrash) => SubInv'
<1> SUFFICES ASSUME SubInv, SubClosed \/ SubCrash PROVE SubInv'
    OBVIOUS
<1>1. SubTyped /\ SubLives /\ SubReserved /\ SubRetained
    BY DEF SubInv
<1>2. /\ mgr' = "down" /\ sub' = [i \in Sessions |-> NoSession]
      /\ UNCHANGED <<files, seqFile, subNext, tick, everUsed, budget>>
    BY DEF SubClosed, SubCrash
<1>3. sub' \in [Sessions -> SubRecords] /\ \A i \in Sessions : sub'[i] = NoSession
    BY <1>2, NoSessionLives
<1>4. ASSUME NEW i \in Sessions
      PROVE  Life(sub'[i], files'[i], i, seqFile) /\ sub'[i].pending <= budget'.messages
  <2>1. Life(sub[i], files[i], i, seqFile) /\ Life(NoSession, NoFile, i, seqFile) /\ NoSession.run = "none"
    BY <1>1, NoSessionLives DEF SubLives
  <2>2. Life(NoSession, files[i], i, seqFile)
    BY <2>1 DEF Life
  <2>3. 0 <= budget.messages
    BY <1>1 DEF SubTyped, SubBudgets
  <2>4. QED BY <1>2, <1>3, <2>2, <2>3, NoSessionLives
<1>5. DoneSet(sub)' \subseteq DoneSet(sub) /\ DoneLogs(sub)' \subseteq DoneLogs(sub)
    BY <1>3, NoSessionLives DEF DoneSet, DoneLogs
<1>6. SubRetained'
    BY <1>1, <1>2, <1>5, RetainedKept
<1>7. budget' \in SubBudgets /\ subNext' \in 0..Cardinality(Sessions) /\ tick' \in Nat /\ files' \in [Sessions -> FileRecords]
    BY <1>1, <1>2 DEF SubTyped
<1>8. QED BY <1>2, <1>3, <1>4, <1>6, <1>7, WholeTable

\* Start, if the number of the new session could not be reserved.
LEMMA StartFailsKeeps == SubInv /\ SubStartFails => SubInv'
<1> SUFFICES ASSUME SubInv, SubStartFails PROVE SubInv'
    OBVIOUS
<1>1. SubTyped /\ SubLives /\ SubReserved /\ SubRetained
    BY DEF SubInv
<1>2. /\ mgr = "up" /\ subNext + 1 \in Sessions /\ subNext' = subNext + 1 /\ SubFault
      /\ seqFile' \in {seqFile, subNext'} /\ UNCHANGED <<mgr, sub, files, tick, everUsed>>
    BY DEF SubStartFails, allocateIDLocked
<1>3. /\ seqFile \in Nat /\ subNext \in Nat /\ seqFile <= subNext /\ subNext' \in 0..Cardinality(Sessions)
      /\ seqFile' \in 0..Cardinality(Sessions) /\ seqFile <= seqFile' /\ seqFile' <= subNext' /\ seqFile' \in Nat
  <2>1. seqFile \in 0..Cardinality(Sessions) /\ subNext \in 0..Cardinality(Sessions) /\ seqFile <= subNext
    BY <1>1, <1>2 DEF SubTyped, SubReserved
  <2>2. subNext' \in 0..Cardinality(Sessions)
    BY <1>2, SessionNumbers
  <2>3. QED BY <1>2, <2>1, <2>2, SessionNumbers
<1>4. budget' \in SubBudgets /\ budget'.messages = budget.messages /\ budget'.faults # 0
    BY <1>1, <1>2, FaultCounted DEF SubTyped
<1>5. SubTyped'
    BY <1>1, <1>2, <1>3, <1>4 DEF SubTyped
<1>6. SubLives'
  <2>1. SUFFICES ASSUME NEW i \in Sessions
                 PROVE  Life(sub[i], files[i], i, seqFile') /\ sub[i].pending <= budget'.messages
    BY <1>2 DEF SubLives
  <2>2. Life(sub[i], files[i], i, seqFile) /\ sub[i].pending <= budget.messages
    BY <1>1 DEF SubLives
  <2>3. i <= seqFile => i <= seqFile'
    BY <1>3, SessionNumbers
  <2>4. QED BY <1>4, <2>2, <2>3 DEF Life
<1>7. SubReserved'
  <2>1. \A a \in DOMAIN everUsed : everUsed[a] <= seqFile'
    <3>1. SUFFICES ASSUME NEW a \in DOMAIN everUsed PROVE everUsed[a] <= seqFile'
      OBVIOUS
    <3>2. everUsed[a] \in Sessions /\ everUsed[a] <= seqFile
      BY <1>1 DEF SubTyped, SubReserved
    <3>3. QED BY <1>3, <3>2, SessionNumbers
  <2>2. QED BY <1>1, <1>2, <1>3, <2>1 DEF SubReserved, IdsAreNeverReused
<1>8. SubRetained'
    BY <1>4 DEF SubRetained
<1>9. QED BY <1>5, <1>6, <1>7, <1>8 DEF SubInv

\* Start: the number of the new session is above every number used before.
LEMMA StartKeeps == SubInv /\ SubStart => SubInv'
<1> SUFFICES ASSUME SubInv, SubStart PROVE SubInv'
    OBVIOUS
<1>1. SubTyped /\ SubLives /\ SubReserved /\ SubRetained
    BY DEF SubInv
<1>2. PICK i : i = subNext + 1
    OBVIOUS
<1>3. PICK s : s = [NoSession EXCEPT !.st = "running", !.run = "engine"]
    OBVIOUS
<1>4. PICK f : f = [st |-> "running", fin |-> 0]
    OBVIOUS
<1>5. /\ mgr = "up" /\ i \in Sessions /\ everUsed' = everUsed \o <<i>> /\ subNext' = i /\ seqFile' = i
      /\ UNCHANGED <<mgr, tick>>
      /\ \/ files' = [files EXCEPT ![i] = f] /\ sub' = [sub EXCEPT ![i] = s] /\ UNCHANGED budget
         \/ SubFault /\ files' \in {files, [files EXCEPT ![i] = f]} /\ UNCHANGED sub
    BY <1>2, <1>3, <1>4 DEF SubStart, allocateIDLocked
<1>6. /\ seqFile \in Nat /\ subNext \in Nat /\ seqFile < i /\ i \in Nat /\ i \in 0..Cardinality(Sessions)
      /\ everUsed \in Seq(Sessions)
  <2>1. seqFile \in 0..Cardinality(Sessions) /\ subNext \in 0..Cardinality(Sessions) /\ seqFile <= subNext
        /\ everUsed \in Seq(Sessions)
    BY <1>1, <1>5 DEF SubTyped, SubReserved
  <2>2. QED BY <1>2, <1>5, <2>1, SessionNumbers
<1>7. /\ s \in SubRecords /\ s.st = "running" /\ s.run = "engine" /\ s.fin = 0 /\ s.pending = 0 /\ ~s.evicted
      /\ f \in FileRecords /\ f.st = "running" /\ f.fin = 0
  <2>1. 0 \in Nat
    OBVIOUS
  <2>2. QED BY <1>3, <1>4, <2>1 DEF NoSession, SubRecords, FileRecords, SubStates
<1>8. /\ sub \in [Sessions -> SubRecords] /\ files \in [Sessions -> FileRecords] /\ budget \in SubBudgets
    BY <1>1 DEF SubTyped
<1>9. /\ sub' \in [Sessions -> SubRecords] /\ files' \in [Sessions -> FileRecords] /\ budget' \in SubBudgets
      /\ budget'.messages = budget.messages /\ (budget'.faults = 0 => budget.faults = 0)
      /\ \A j \in Sessions : j # i => sub'[j] = sub[j] /\ files'[j] = files[j]
      /\ \/ sub'[i] = s /\ files'[i] = f
         \/ sub'[i] = sub[i] /\ files'[i] \in {files[i], f}
  <2>1. CASE files' = [files EXCEPT ![i] = f] /\ sub' = [sub EXCEPT ![i] = s] /\ UNCHANGED budget
    BY <1>5, <1>7, <1>8, <2>1
  <2>2. CASE SubFault /\ files' \in {files, [files EXCEPT ![i] = f]} /\ UNCHANGED sub
    <3>1. budget' \in SubBudgets /\ budget'.messages = budget.messages /\ budget'.faults # 0
      BY <1>8, <2>2, FaultCounted
    <3>2. QED BY <1>5, <1>7, <1>8, <2>2, <3>1
  <2>3. QED BY <1>5, <2>1, <2>2
<1>10. /\ everUsed' \in Seq(Sessions) /\ DOMAIN everUsed' = 1..(Len(everUsed) + 1) /\ DOMAIN everUsed = 1..Len(everUsed)
       /\ Len(everUsed) \in Nat
       /\ \A a \in 1..Len(everUsed) : everUsed'[a] = everUsed[a]
       /\ everUsed'[Len(everUsed) + 1] = i
  <2>1. everUsed' = Append(everUsed, i)
    BY <1>5, <1>6
  <2>2. QED BY <1>5, <1>6, <2>1
<1>11. SubTyped'
    BY <1>1, <1>5, <1>6, <1>9, <1>10 DEF SubTyped
<1>12. SubLives'
  <2>1. SUFFICES ASSUME NEW j \in Sessions
                 PROVE  Life(sub'[j], files'[j], j, seqFile') /\ sub'[j].pending <= budget'.messages
    BY DEF SubLives
  <2>2. Life(sub[j], files[j], j, seqFile) /\ sub[j].pending <= budget.messages /\ 0 <= budget.messages
    BY <1>1 DEF SubLives, SubTyped, SubBudgets
  <2>3. j <= seqFile => j <= seqFile'
    BY <1>5, <1>6, SessionNumbers
  <2>4. CASE j # i
    BY <1>9, <2>2, <2>3, <2>4 DEF Life
  <2>5. CASE j = i
    <3>1. i <= seqFile'
      BY <1>5, <1>6
    <3>2. CASE sub'[i] = s /\ files'[i] = f
      BY <1>7, <1>9, <2>2, <2>5, <3>1, <3>2 DEF Life, ValidRecord, Ended
    <3>3. CASE sub'[i] = sub[i] /\ files'[i] \in {files[i], f}
      BY <1>7, <1>9, <2>2, <2>5, <3>1, <3>3 DEF Life, ValidRecord
    <3>4. QED BY <1>9, <2>5, <3>2, <3>3
  <2>6. QED BY <2>4, <2>5
<1>13. SubReserved'
  <2>1. ASSUME NEW a \in 1..Len(everUsed) PROVE everUsed[a] < i /\ everUsed[a] \in Nat
    <3>1. everUsed[a] \in Sessions /\ everUsed[a] <= seqFile
      BY <1>1, <1>10 DEF SubTyped, SubReserved
    <3>2. QED BY <1>6, <3>1, SessionNumbers
  <2>2. ASSUME NEW a \in 1..(Len(everUsed) + 1)
        PROVE  everUsed'[a] <= i
    <3>1. CASE a \in 1..Len(everUsed)
      <4>1. everUsed'[a] = everUsed[a]
        BY <1>10, <3>1
      <4>2. everUsed[a] < i /\ everUsed[a] \in Nat
        BY <2>1, <3>1
      <4>3. QED BY <1>6, <4>1, <4>2
    <3>2. CASE a = Len(everUsed) + 1
      <4>1. everUsed'[a] = i
        BY <1>10, <3>2
      <4>2. i <= i
        BY <1>6
      <4>3. QED BY <4>1, <4>2
    <3>3. QED BY <1>10, <2>2, <3>1, <3>2
  <2>3. \A a, b \in 1..(Len(everUsed) + 1) : everUsed'[a] = everUsed'[b] => a = b
    <3>1. SUFFICES ASSUME NEW a \in 1..(Len(everUsed) + 1), NEW b \in 1..(Len(everUsed) + 1),
                          everUsed'[a] = everUsed'[b]
                   PROVE  a = b
      OBVIOUS
    <3>2. CASE a \in 1..Len(everUsed) /\ b \in 1..Len(everUsed)
      BY <1>1, <1>10, <3>1, <3>2 DEF SubReserved, IdsAreNeverReused
    <3>3. CASE a = Len(everUsed) + 1 \/ b = Len(everUsed) + 1
      BY <1>6, <1>10, <2>1, <3>1, <3>3
    <3>4. QED BY <1>10, <3>2, <3>3
  <2>4. mgr' # "down" => seqFile' <= subNext'
    BY <1>5, <1>6
  <2>5. QED BY <1>5, <1>10, <2>2, <2>3, <2>4 DEF SubReserved, IdsAreNeverReused
<1>14. SubRetained'
  <2>1. DoneSet(sub)' \subseteq DoneSet(sub) /\ DoneLogs(sub)' \subseteq DoneLogs(sub)
    BY <1>7, <1>9 DEF DoneSet, DoneLogs
  <2>2. QED BY <1>1, <1>9, <2>1, RetainedKept
<1>15. QED BY <1>11, <1>12, <1>13, <1>14 DEF SubInv

\* What eviction leaves of a table: sessions that are not finished are untouched.
LEMMA EvictedLives ==
    ASSUME NEW t \in [Sessions -> SubRecords], NEW g \in [Sessions -> FileRecords], NEW n,
           NEW D, NEW R, \A j \in Sessions : j \in D \cup R => Finished(t[j]),
           \A j \in Sessions : Life(t[j], g[j], j, n)
    PROVE  /\ Evicted(t, D, R) \in [Sessions -> SubRecords]
           /\ FilesWithout(g, R) \in [Sessions -> FileRecords]
           /\ \A j \in Sessions : /\ Life(Evicted(t, D, R)[j], FilesWithout(g, R)[j], j, n)
                                  /\ Evicted(t, D, R)[j].pending \in {t[j].pending, 0}
<1>1. ASSUME NEW j \in Sessions
      PROVE  /\ Evicted(t, D, R)[j] \in SubRecords /\ FilesWithout(g, R)[j] \in FileRecords
             /\ Life(Evicted(t, D, R)[j], FilesWithout(g, R)[j], j, n)
             /\ Evicted(t, D, R)[j].pending \in {t[j].pending, 0}
  <2>1. t[j] \in SubRecords /\ g[j] \in FileRecords /\ Life(t[j], g[j], j, n)
    OBVIOUS
  <2>2. CASE j \in R
    <3>1. Evicted(t, D, R)[j] = NoSession /\ FilesWithout(g, R)[j] = NoFile
      BY <2>2 DEF Evicted, FilesWithout
    <3>2. QED BY <3>1, NoSessionLives
  <2>3. CASE j \notin R /\ j \in D
    <3>1. Evicted(t, D, R)[j] = [t[j] EXCEPT !.evicted = TRUE] /\ FilesWithout(g, R)[j] = g[j]
      BY <2>3 DEF Evicted, FilesWithout
    <3>2. PICK r : r = [t[j] EXCEPT !.evicted = TRUE]
      OBVIOUS
    <3>3. /\ r \in SubRecords /\ r.st = t[j].st /\ r.run = t[j].run /\ r.fin = t[j].fin
          /\ r.pending = t[j].pending /\ r.limitTold = t[j].limitTold
      BY <2>1, <3>2 DEF SubRecords
    <3>4. t[j].fin > 0
      BY <2>3 DEF Finished
    <3>5. t[j].run \notin {"engine", "defer"}
      BY <2>1, <3>4 DEF Life
    <3>6. Life(r, g[j], j, n)
      BY <2>1, <3>3, <3>5 DEF Life
    <3>7. QED BY <2>1, <3>1, <3>2, <3>3, <3>6
  <2>4. CASE j \notin R /\ j \notin D
    <3>1. Evicted(t, D, R)[j] = t[j] /\ FilesWithout(g, R)[j] = g[j]
      BY <2>4 DEF Evicted, FilesWithout
    <3>2. QED BY <2>1, <3>1
  <2>5. QED BY <2>2, <2>3, <2>4
<1>2. /\ Evicted(t, D, R) = [j \in Sessions |-> Evicted(t, D, R)[j]]
      /\ FilesWithout(g, R) = [j \in Sessions |-> FilesWithout(g, R)[j]]
    BY DEF Evicted, FilesWithout
<1>3. QED
  <2>1. PICK U : U = Evicted(t, D, R)
    OBVIOUS
  <2>2. PICK W : W = FilesWithout(g, R)
    OBVIOUS
  <2>3. U \in [Sessions -> SubRecords] /\ W \in [Sessions -> FileRecords]
    BY <1>1, <1>2, <2>1, <2>2
  <2>4. QED BY <1>1, <2>1, <2>2, <2>3

\* An eviction without a failed removal leaves no more than the limits.
LEMMA EvictedRetained ==
    ASSUME NEW t \in [Sessions -> SubRecords]
    PROVE  /\ Cardinality(DoneSet(Evicted(t, Drops(t), Removes(t)))) <= MaxRecords
           /\ Cardinality(DoneLogs(Evicted(t, Drops(t), Removes(t)))) <= MaxLogs
<1> DEFINE U == Evicted(t, Drops(t), Removes(t))
           K(M) == {i \in Sessions : Finished(t[i]) /\ Newer(t, i) < M}
<1>1. ASSUME NEW i \in Sessions
      PROVE  Newer(t, i) \in Nat
  <2>1. PICK A : A = {j \in Sessions : Finished(t[j]) /\
                        (t[j].fin > t[i].fin \/ (t[j].fin = t[i].fin /\ j > i))}
    OBVIOUS
  <2>2. A \in SUBSET Sessions /\ Newer(t, i) = Cardinality(A)
    BY <2>1 DEF Newer
  <2>3. QED BY <2>2, SessionNumbers, FS_Subset, FS_CardinalityType
<1>2. MaxLogs \in Nat /\ MaxRecords \in Nat
    BY RetentionAssumption
<1>3. ASSUME NEW i \in Sessions, Finished(U[i])
      PROVE  /\ i \notin Removes(t) /\ Finished(t[i])
             /\ ~U[i].evicted => i \notin Drops(t)
  <2>1. i \notin Removes(t)
    BY <1>3, NoSessionLives DEF Evicted
  <2>2. U[i] = IF i \in Drops(t) THEN [t[i] EXCEPT !.evicted = TRUE] ELSE t[i]
    BY <2>1 DEF Evicted
  <2>3. t[i] \in SubRecords
    OBVIOUS
  <2>4. U[i].st = t[i].st /\ U[i].fin = t[i].fin /\ (i \in Drops(t) => U[i].evicted)
    BY <2>2, <2>3 DEF SubRecords
  <2>5. QED BY <1>3, <2>1, <2>4 DEF Finished
<1> HIDE DEF U
<1>4. DoneSet(U) \in SUBSET K(MaxRecords)
  <2>1. ASSUME NEW i \in DoneSet(U) PROVE i \in K(MaxRecords)
    <3>1. i \in Sessions /\ Finished(U[i])
      BY DEF DoneSet
    <3>2. Finished(t[i]) /\ ~(Newer(t, i) >= MaxRecords)
      BY <1>3, <3>1 DEF Removes
    <3>3. QED BY <1>1, <1>2, <3>1, <3>2
  <2>2. QED BY <2>1
<1>5. DoneLogs(U) \in SUBSET K(MaxLogs)
  <2>1. ASSUME NEW i \in DoneLogs(U) PROVE i \in K(MaxLogs)
    <3>1. i \in Sessions /\ Finished(U[i]) /\ ~U[i].evicted
      BY DEF DoneLogs
    <3>2. Finished(t[i]) /\ ~(Newer(t, i) >= MaxLogs)
      BY <1>3, <3>1 DEF Drops
    <3>3. QED BY <1>1, <1>2, <3>1, <3>2
  <2>2. QED BY <2>1
<1>6. /\ IsFiniteSet(K(MaxRecords)) /\ Cardinality(K(MaxRecords)) <= MaxRecords
      /\ IsFiniteSet(K(MaxLogs)) /\ Cardinality(K(MaxLogs)) <= MaxLogs
    BY <1>2, RankBound
<1> HIDE DEF K
<1>7. /\ Cardinality(DoneSet(U)) \in Nat /\ Cardinality(DoneSet(U)) <= Cardinality(K(MaxRecords))
      /\ Cardinality(K(MaxRecords)) \in Nat
    BY <1>4, <1>6, FS_Subset, FS_CardinalityType
<1>8. /\ Cardinality(DoneLogs(U)) \in Nat /\ Cardinality(DoneLogs(U)) <= Cardinality(K(MaxLogs))
      /\ Cardinality(K(MaxLogs)) \in Nat
    BY <1>5, <1>6, FS_Subset, FS_CardinalityType
<1>9. QED BY <1>2, <1>6, <1>7, <1>8 DEF U

\* The last step of a session's goroutine: retention is applied, then done is closed.
LEMMA EvictKeeps ==
    ASSUME SubInv, NEW CONSTANT i \in Sessions, evictFinishedSessions(i)
    PROVE  SubInv'
<1>1. SubTyped /\ SubLives /\ SubReserved /\ SubRetained
    BY DEF SubInv
<1>2. PICK t : t = [sub EXCEPT ![i].run = "done"]
    OBVIOUS
<1>3. /\ sub[i].run = "evict" /\ UNCHANGED <<mgr, seqFile, subNext, tick, everUsed>>
      /\ \/ /\ sub' = Evicted(t, Drops(t), Removes(t)) /\ files' = FilesWithout(files, Removes(t))
            /\ UNCHANGED budget
         \/ /\ SubFault
            /\ \E D, R \in SUBSET Removes(t) : sub' = Evicted(t, D, R) /\ files' = FilesWithout(files, R)
  <2>1. /\ sub[i].run = "evict" /\ UNCHANGED <<mgr, seqFile, subNext, tick, everUsed>>
        /\ \/ /\ sub' = Evicted(t, Drops(t), Removes(t)) /\ files' = FilesWithout(files, Removes(t))
              /\ UNCHANGED budget
           \/ /\ SubFault
              /\ \E c \in Removes(t) :
                   /\ sub' = Evicted(t, {c}, {j \in Removes(t) : Newer(t, j) > Newer(t, c)})
                   /\ files' = FilesWithout(files, {j \in Removes(t) : Newer(t, j) > Newer(t, c)})
    BY <1>2 DEF evictFinishedSessions
  <2>2. \A c \in Removes(t) : /\ {c} \in SUBSET Removes(t)
                              /\ {j \in Removes(t) : Newer(t, j) > Newer(t, c)} \in SUBSET Removes(t)
    OBVIOUS
  <2>3. QED BY <2>1, <2>2
<1>4. /\ t \in [Sessions -> SubRecords]
      /\ \A j \in Sessions : /\ Life(t[j], files[j], j, seqFile)
                             /\ t[j].pending = sub[j].pending
  <2>1. PICK r : r = [sub[i] EXCEPT !.run = "done"]
    OBVIOUS
  <2>2. sub[i] \in SubRecords /\ Life(sub[i], files[i], i, seqFile) /\ sub \in [Sessions -> SubRecords]
    BY <1>1 DEF SubTyped, SubLives
  <2>3. /\ r \in SubRecords /\ r.run = "done" /\ r.st = sub[i].st /\ r.fin = sub[i].fin
        /\ r.pending = sub[i].pending /\ r.limitTold = sub[i].limitTold
    BY <2>1, <2>2 DEF SubRecords
  <2>4. /\ t \in [Sessions -> SubRecords] /\ t[i] = r
        /\ \A j \in Sessions : j # i => t[j] = sub[j]
    BY <1>2, <2>1, <2>2, <2>3
  <2>5. Life(r, files[i], i, seqFile)
    BY <1>3, <2>2, <2>3 DEF Life
  <2>6. QED BY <1>1, <2>3, <2>4, <2>5 DEF SubLives
<1>5. files \in [Sessions -> FileRecords] /\ budget \in SubBudgets
    BY <1>1 DEF SubTyped
<1>6. \A j \in Sessions : j \in Drops(t) \cup Removes(t) => Finished(t[j])
    BY DEF Drops, Removes
<1>7. ASSUME NEW D, NEW R, D \cup R \subseteq Drops(t) \cup Removes(t),
             sub' = Evicted(t, D, R), files' = FilesWithout(files, R),
             budget' \in SubBudgets, budget'.messages = budget.messages
      PROVE  /\ sub' \in [Sessions -> SubRecords] /\ files' \in [Sessions -> FileRecords]
             /\ \A j \in Sessions : /\ Life(sub'[j], files'[j], j, seqFile)
                                    /\ sub'[j].pending <= budget'.messages
  <2>1. \A j \in Sessions : j \in D \cup R => Finished(t[j])
    BY <1>6, <1>7
  <2>2. /\ sub' \in [Sessions -> SubRecords] /\ files' \in [Sessions -> FileRecords]
        /\ \A j \in Sessions : /\ Life(sub'[j], files'[j], j, seqFile)
                               /\ sub'[j].pending \in {t[j].pending, 0}
    BY <1>4, <1>5, <1>7, <2>1, EvictedLives
  <2>3. ASSUME NEW j \in Sessions PROVE sub'[j].pending <= budget'.messages
    <3>1. t[j].pending <= budget.messages /\ 0 <= budget.messages
      BY <1>1, <1>4 DEF SubLives, SubTyped, SubBudgets
    <3>2. QED BY <1>7, <2>2, <3>1
  <2>4. QED BY <2>2, <2>3
<1>8. /\ mgr' \in {"down", "up", "closing"} /\ tick' \in Nat /\ subNext' \in 0..Cardinality(Sessions)
      /\ mgr' # "down" => seqFile <= subNext'
    BY <1>1, <1>3 DEF SubTyped, SubReserved
<1>9. CASE /\ sub' = Evicted(t, Drops(t), Removes(t)) /\ files' = FilesWithout(files, Removes(t))
           /\ UNCHANGED budget
  <2>1. /\ sub' \in [Sessions -> SubRecords] /\ files' \in [Sessions -> FileRecords]
        /\ \A j \in Sessions : /\ Life(sub'[j], files'[j], j, seqFile)
                               /\ sub'[j].pending <= budget'.messages
    BY <1>5, <1>7, <1>9
  <2>2. SubRetained'
    <3>1. Cardinality(DoneSet(sub)') <= MaxRecords /\ Cardinality(DoneLogs(sub)') <= MaxLogs
      <4>1. /\ Cardinality(DoneSet(Evicted(t, Drops(t), Removes(t)))) <= MaxRecords
            /\ Cardinality(DoneLogs(Evicted(t, Drops(t), Removes(t)))) <= MaxLogs
        BY <1>4, EvictedRetained
      <4>2. /\ DoneSet(sub)' = DoneSet(Evicted(t, Drops(t), Removes(t)))
            /\ DoneLogs(sub)' = DoneLogs(Evicted(t, Drops(t), Removes(t)))
        BY <1>9 DEF DoneSet, DoneLogs
      <4>3. QED BY <4>1, <4>2
    <3>2. QED BY <3>1 DEF SubRetained
  <2>3. QED BY <1>3, <1>5, <1>8, <1>9, <2>1, <2>2, WholeTable
<1>10. CASE /\ SubFault
            /\ \E D, R \in SUBSET Removes(t) : sub' = Evicted(t, D, R) /\ files' = FilesWithout(files, R)
  <2>1. PICK D, R \in SUBSET Removes(t) : sub' = Evicted(t, D, R) /\ files' = FilesWithout(files, R)
    BY <1>10
  <2>2. budget' \in SubBudgets /\ budget'.messages = budget.messages /\ budget'.faults # 0
    BY <1>5, <1>10, FaultCounted
  <2>3. D \cup R \subseteq Drops(t) \cup Removes(t)
    BY <2>1
  <2>4. /\ sub' \in [Sessions -> SubRecords] /\ files' \in [Sessions -> FileRecords]
        /\ \A j \in Sessions : /\ Life(sub'[j], files'[j], j, seqFile)
                               /\ sub'[j].pending <= budget'.messages
    BY <1>7, <2>1, <2>2, <2>3
  <2>5. SubRetained'
    BY <2>2 DEF SubRetained
  <2>6. QED BY <1>3, <1>8, <2>2, <2>4, <2>5, WholeTable
<1>11. QED BY <1>3, <1>9, <1>10

\* Restore: what was left running is interrupted, durably, before the table is used.
LEMMA RestoreKeeps == SubInv /\ SubRestore => SubInv'
<1> SUFFICES ASSUME SubInv, SubRestore PROVE SubInv'
    OBVIOUS
<1>1. SubTyped /\ SubLives /\ SubReserved /\ SubRetained
    BY DEF SubInv
<1>2. PICK lost : lost = {i \in Sessions : files[i].st = "running"}
    OBVIOUS
<1>3. PICK rc : rc = [i \in Sessions |-> IF i \in lost THEN [st |-> "interrupted", fin |-> tick + 1] ELSE files[i]]
    OBVIOUS
<1>4. PICK table : table = [i \in Sessions |-> IF files[i].st = "none" THEN NoSession
                              ELSE [NoSession EXCEPT !.st = rc[i].st, !.fin = rc[i].fin,
                                                     !.run = "done", !.ctx = FALSE]]
    OBVIOUS
<1>5. /\ mgr = "down" /\ tick' = tick + 1 /\ UNCHANGED <<seqFile, everUsed>>
      /\ \/ /\ mgr' = "up" /\ subNext' = seqFile
            /\ sub' = Evicted(table, Drops(table), Removes(table))
            /\ files' = FilesWithout(rc, Removes(table))
            /\ budget' = [budget EXCEPT !.boots = @ + 1]
         \/ /\ \E done \in SUBSET lost : files' = [i \in Sessions |-> IF i \in done THEN rc[i] ELSE files[i]]
            /\ budget' = [budget EXCEPT !.boots = @ + 1, !.faults = @ + 1]
            /\ UNCHANGED <<mgr, sub, subNext>>
  <2> DEFINE rec(i) == IF i \in {k \in Sessions : files[k].st = "running"}
                       THEN [st |-> "interrupted", fin |-> tick + 1] ELSE files[i]
             tab == [i \in Sessions |-> IF files[i].st = "none" THEN NoSession
                        ELSE [NoSession EXCEPT !.st = rec(i).st, !.fin = rec(i).fin,
                                               !.run = "done", !.ctx = FALSE]]
  <2>1. /\ mgr = "down" /\ tick' = tick + 1 /\ UNCHANGED <<seqFile, everUsed>>
        /\ \/ /\ mgr' = "up" /\ subNext' = seqFile
              /\ sub' = Evicted(tab, Drops(tab), Removes(tab))
              /\ files' = FilesWithout([i \in Sessions |-> rec(i)], Removes(tab))
              /\ budget' = [budget EXCEPT !.boots = @ + 1]
           \/ /\ \E done \in SUBSET {k \in Sessions : files[k].st = "running"} :
                   files' = [i \in Sessions |-> IF i \in done THEN rec(i) ELSE files[i]]
              /\ budget' = [budget EXCEPT !.boots = @ + 1, !.faults = @ + 1]
              /\ UNCHANGED <<mgr, sub, subNext>>
    BY DEF SubRestore, RestoredSequence
  <2>2. \A i \in Sessions : rec(i) = rc[i]
    BY <1>2, <1>3
  <2>3. rc = [i \in Sessions |-> rec(i)]
    BY <1>2, <1>3
  <2>4. table = tab
    BY <1>4, <2>2
  <2>5. ASSUME NEW done \in SUBSET lost
        PROVE  [i \in Sessions |-> IF i \in done THEN rec(i) ELSE files[i]] =
               [i \in Sessions |-> IF i \in done THEN rc[i] ELSE files[i]]
    BY <2>2
  <2> HIDE DEF rec, tab
  <2>6. QED BY <1>2, <2>1, <2>3, <2>4, <2>5
<1>6. /\ tick \in Nat /\ tick + 1 \in Nat /\ tick + 1 > 0 /\ budget \in SubBudgets
      /\ files \in [Sessions -> FileRecords] /\ sub \in [Sessions -> SubRecords]
      /\ seqFile \in 0..Cardinality(Sessions) /\ subNext \in 0..Cardinality(Sessions)
  <2>1. tick \in Nat
    BY <1>1 DEF SubTyped
  <2>2. QED BY <1>1, <2>1 DEF SubTyped
<1>7. ASSUME NEW CONSTANT i \in Sessions
      PROVE  /\ rc[i] \in FileRecords /\ ValidRecord(rc[i])
             /\ rc[i].st = "none" <=> files[i].st = "none"
             /\ rc[i].st # "none" => rc[i].st \in Ended /\ rc[i].fin > 0 /\ i <= seqFile
  <2>1. files[i] \in FileRecords /\ ValidRecord(files[i]) /\ (files[i].st # "none" => i <= seqFile)
    BY <1>1, <1>6 DEF SubLives, Life
  <2>2. CASE files[i].st = "running"
    <3>1. PICK r : r = [st |-> "interrupted", fin |-> tick + 1]
      OBVIOUS
    <3>2. r \in FileRecords /\ r.st = "interrupted" /\ r.fin = tick + 1
      BY <1>6, <3>1 DEF FileRecords, SubStates, Ended
    <3>3. rc[i] = r
      BY <1>2, <1>3, <2>2, <3>1
    <3>4. QED BY <1>6, <2>1, <2>2, <3>2, <3>3 DEF ValidRecord, Ended
  <2>3. CASE files[i].st # "running"
    <3>1. rc[i] = files[i]
      BY <1>2, <1>3, <2>3
    <3>2. QED BY <2>1, <2>3, <3>1 DEF ValidRecord, Ended
  <2>4. QED BY <2>2, <2>3
<1>8. rc \in [Sessions -> FileRecords]
    BY <1>3, <1>7
<1>9. budget.boots + 1 \in Nat /\ budget.faults + 1 \in Nat /\ budget.faults + 1 # 0 /\ 0 <= budget.messages
    BY <1>6 DEF SubBudgets
<1>10. CASE /\ mgr' = "up" /\ subNext' = seqFile
            /\ sub' = Evicted(table, Drops(table), Removes(table))
            /\ files' = FilesWithout(rc, Removes(table))
            /\ budget' = [budget EXCEPT !.boots = @ + 1]
  <2>1. ASSUME NEW i \in Sessions
        PROVE  table[i] \in SubRecords /\ Life(table[i], rc[i], i, seqFile) /\ table[i].pending = 0
    <3>1. CASE files[i].st = "none"
      <4>1. table[i] = NoSession
        BY <1>4, <3>1
      <4>2. rc[i].st = "none" /\ ValidRecord(rc[i])
        BY <1>7, <3>1
      <4>3. QED BY <4>1, <4>2, NoSessionLives DEF Life, NoSession
    <3>2. CASE files[i].st # "none"
      <4>1. PICK s : s = [NoSession EXCEPT !.st = rc[i].st, !.fin = rc[i].fin, !.run = "done", !.ctx = FALSE]
        OBVIOUS
      <4>2. /\ rc[i].st \in Ended /\ rc[i].st \in SubStates /\ rc[i].fin \in Nat /\ rc[i].fin > 0
            /\ ValidRecord(rc[i]) /\ i <= seqFile
        BY <1>7, <3>2 DEF FileRecords
      <4>3. /\ s \in SubRecords /\ s.st = rc[i].st /\ s.fin = rc[i].fin /\ s.run = "done" /\ s.pending = 0
        BY <4>1, <4>2 DEF NoSession, SubRecords
      <4>4. Life(s, rc[i], i, seqFile)
        BY <4>2, <4>3 DEF Life
      <4>5. QED BY <1>4, <3>2, <4>1, <4>3, <4>4
    <3>3. QED BY <3>1, <3>2
  <2>2. table \in [Sessions -> SubRecords]
    BY <1>4, <2>1
  <2>3. \A j \in Sessions : j \in Drops(table) \cup Removes(table) => Finished(table[j])
    BY DEF Drops, Removes
  <2>4. /\ sub' \in [Sessions -> SubRecords] /\ files' \in [Sessions -> FileRecords]
        /\ \A j \in Sessions : /\ Life(sub'[j], files'[j], j, seqFile)
                               /\ sub'[j].pending \in {table[j].pending, 0}
    <3>1. \A j \in Sessions : Life(table[j], rc[j], j, seqFile)
      BY <2>1
    <3>2. QED BY <1>8, <1>10, <2>2, <2>3, <3>1, EvictedLives
  <2>5. budget' \in SubBudgets /\ budget'.messages = budget.messages
    BY <1>6, <1>9, <1>10 DEF SubBudgets
  <2>6. \A j \in Sessions : sub'[j].pending <= budget'.messages
    BY <1>9, <2>1, <2>4, <2>5
  <2>7. SubRetained'
    <3>1. /\ Cardinality(DoneSet(Evicted(table, Drops(table), Removes(table)))) <= MaxRecords
          /\ Cardinality(DoneLogs(Evicted(table, Drops(table), Removes(table)))) <= MaxLogs
      BY <2>2, EvictedRetained
    <3>2. /\ DoneSet(sub)' = DoneSet(Evicted(table, Drops(table), Removes(table)))
          /\ DoneLogs(sub)' = DoneLogs(Evicted(table, Drops(table), Removes(table)))
      BY <1>10 DEF DoneSet, DoneLogs
    <3>3. QED BY <3>1, <3>2 DEF SubRetained
  <2>8. /\ mgr' \in {"down", "up", "closing"} /\ tick' \in Nat /\ subNext' \in 0..Cardinality(Sessions)
        /\ (mgr' # "down" => seqFile <= subNext') /\ UNCHANGED <<seqFile, everUsed>>
    BY <1>5, <1>6, <1>10
  <2>9. QED BY <2>4, <2>5, <2>6, <2>7, <2>8, WholeTable
<1>11. CASE /\ \E done \in SUBSET lost : files' = [i \in Sessions |-> IF i \in done THEN rc[i] ELSE files[i]]
            /\ budget' = [budget EXCEPT !.boots = @ + 1, !.faults = @ + 1]
            /\ UNCHANGED <<mgr, sub, subNext>>
  <2>1. PICK done \in SUBSET lost : files' = [i \in Sessions |-> IF i \in done THEN rc[i] ELSE files[i]]
    BY <1>11
  <2>2. ASSUME NEW i \in Sessions PROVE files'[i] \in {files[i], rc[i]}
    BY <2>1
  <2>3. files' \in [Sessions -> FileRecords]
    BY <1>6, <1>7, <2>1
  <2>4. budget' \in SubBudgets /\ budget'.messages = budget.messages /\ budget'.faults # 0
    BY <1>6, <1>9, <1>11 DEF SubBudgets
  <2>5. ASSUME NEW j \in Sessions
        PROVE  Life(sub'[j], files'[j], j, seqFile) /\ sub'[j].pending <= budget'.messages
    <3>1. Life(sub[j], files[j], j, seqFile) /\ sub[j].pending <= budget.messages /\ sub'[j] = sub[j]
      BY <1>1, <1>11 DEF SubLives
    <3>2. CASE files'[j] = files[j]
      BY <2>4, <3>1, <3>2
    <3>3. CASE files'[j] = rc[j]
      <4>1. Life(sub[j], rc[j], j, seqFile)
        BY <1>7, <3>1 DEF Life
      <4>2. QED BY <2>4, <3>1, <3>3, <4>1
    <3>4. QED BY <2>2, <3>2, <3>3
  <2>6. SubRetained'
    BY <2>4 DEF SubRetained
  <2>7. /\ mgr' = "down" /\ mgr' \in {"down", "up", "closing"} /\ tick' \in Nat
        /\ subNext' \in 0..Cardinality(Sessions) /\ sub' \in [Sessions -> SubRecords]
        /\ UNCHANGED <<seqFile, everUsed>>
    BY <1>5, <1>6, <1>11
  <2>8. QED BY <2>3, <2>4, <2>5, <2>6, <2>7, WholeTable
<1>12. QED BY <1>5, <1>10, <1>11

-----------------------------------------------------------------------------
(* The theorems. *)

LEMMA InitSub == SubInit => SubInv
<1> SUFFICES ASSUME SubInit PROVE SubInv
    OBVIOUS
<1>1. /\ mgr = "down" /\ seqFile = 0 /\ subNext = 0 /\ tick = 0 /\ everUsed = <<>>
      /\ sub = [i \in Sessions |-> NoSession] /\ files = [i \in Sessions |-> NoFile]
      /\ budget = [faults |-> 0, boots |-> 0, messages |-> 0]
    BY DEF SubInit
<1>2. MaxMessages \in Nat /\ MaxRecords \in Nat /\ MaxLogs \in Nat
    BY RetentionAssumption
<1>3. budget \in SubBudgets /\ budget.messages = 0
  <2>1. 0 \in 0..MaxMessages /\ 0 \in Nat
    BY <1>2
  <2>2. QED BY <1>1, <2>1 DEF SubBudgets
<1>4. /\ sub \in [Sessions -> SubRecords] /\ files \in [Sessions -> FileRecords]
      /\ \A i \in Sessions : sub[i] = NoSession /\ files[i] = NoFile
    BY <1>1, NoSessionLives
<1>5. SubTyped
  <2>1. everUsed \in Seq(Sessions)
    <3>1. <<>> \in Seq(Sessions)
      OBVIOUS
    <3>2. QED BY <1>1, <3>1
  <2>2. 0 \in 0..Cardinality(Sessions)
    BY SessionNumbers
  <2>3. QED BY <1>1, <1>3, <1>4, <2>1, <2>2 DEF SubTyped
<1>6. SubLives
    BY <1>3, <1>4, NoSessionLives DEF SubLives
<1>7. SubReserved
    BY <1>1 DEF SubReserved, IdsAreNeverReused
<1>8. SubRetained
  <2>1. DoneSet(sub) = {} /\ DoneLogs(sub) = {}
    BY <1>4, NoSessionLives DEF DoneSet, DoneLogs
  <2>2. QED BY <1>2, <2>1, FS_EmptySet DEF SubRetained
<1>9. QED BY <1>5, <1>6, <1>7, <1>8 DEF SubInv

LEMMA SubStep == SubInv /\ [SubNext]_subVars => SubInv'
<1> SUFFICES ASSUME SubInv, [SubNext]_subVars PROVE SubInv'
    OBVIOUS
<1>1. CASE SubStart \/ SubStartFails
    BY <1>1, StartKeeps, StartFailsKeeps
<1>2. CASE RootCancelled \/ SubClose
    BY <1>2, CancelKeeps
<1>3. CASE SubClosed \/ SubCrash
    BY <1>3, EndKeeps
<1>4. CASE SubRestore
    BY <1>4, RestoreKeeps
<1>5. ASSUME NEW i \in Sessions,
             observer(i) \/ runDeferred(i) \/ evictFinishedSessions(i) \/ SubWrite(i) \/ SubKill(i)
      PROVE  SubInv'
    BY <1>5, ObserverKeeps, DeferredKeeps, EvictKeeps, WriteKeeps, KillKeeps
<1>6. ASSUME NEW i \in Sessions, NEW err \in BOOLEAN, NEW left \in BOOLEAN, EngineReturns(i, err, left)
      PROVE  SubInv'
    BY <1>6, EngineReturnsKeeps
<1>7. CASE UNCHANGED subVars
    BY <1>7 DEF subVars, SubInv, SubTyped, SubLives, SubReserved, SubRetained, IdsAreNeverReused, DoneSet, DoneLogs
<1>8. QED BY <1>1, <1>2, <1>3, <1>4, <1>5, <1>6, <1>7 DEF SubNext

\* Whatever the composition does, the sub-agents take their own steps or none.
LEMMA ToolsStep == [ToolsNext]_toolsVars => [SubNext]_subVars
<1>1. CASE OnlySub /\ SubNext
    BY <1>1
<1>2. CASE UNCHANGED subVars
    BY <1>2
<1>3. UNCHANGED toolsVars => UNCHANGED subVars
    BY DEF toolsVars
<1>4. QED BY <1>1, <1>2, <1>3
          DEF ToolsNext, OnlyAgent, OnlyExec, OnlyStart, OnlyPatch, OnlyCommit

\* The life of every session, its record on disk and the reserved number fit
\* together in every reachable state (Manager.Start, run, Kill, Write, Close and
\* Restore, with any crashes and failed writes among them).
THEOREM SubInvariant == ToolsSpec => []SubInv
<1>1. ToolsInit => SubInv
    BY InitSub DEF ToolsInit
<1>2. SubInv /\ [ToolsNext]_toolsVars => SubInv'
    BY ToolsStep, SubStep
<1>3. QED BY <1>1, <1>2, PTL DEF ToolsSpec

LEMMA SubSafe == SubInv => SubagentsSafe
<1> SUFFICES ASSUME SubInv PROVE SubagentsSafe
    OBVIOUS
<1>1. SubTyped /\ SubLives /\ SubReserved /\ SubRetained
    BY DEF SubInv
<1>2. ASSUME NEW i \in Sessions
      PROVE  /\ sub[i] \in SubRecords /\ Life(sub[i], files[i], i, seqFile)
             /\ sub[i].pending \in 0..MaxMessages
             /\ sub[i].st \in SubStates /\ sub[i].run \in {"none", "engine", "defer", "evict", "done"}
  <2>1. sub[i] \in SubRecords /\ Life(sub[i], files[i], i, seqFile)
    BY <1>1 DEF SubTyped, SubLives
  <2>2. sub[i].pending <= budget.messages /\ budget.messages \in 0..MaxMessages /\ sub[i].pending \in Nat
    BY <1>1, <2>1 DEF SubTyped, SubLives, SubBudgets, SubRecords
  <2>3. MaxMessages \in Nat
    BY RetentionAssumption
  <2>4. sub[i].pending \in 0..MaxMessages
    BY <2>2, <2>3
  <2>5. QED BY <2>1, <2>4 DEF SubRecords
<1>3. SubTypeOK
    BY <1>1, <1>2 DEF SubTypeOK, SubTyped, SubStates
<1>4. AlwaysRestorable
    BY <1>2 DEF AlwaysRestorable, Restorable, Life
<1>5. IdsAreNeverReused
    BY <1>1 DEF SubReserved
<1>6. LiveSessionsAreKept
  <2>1. ASSUME NEW i \in Sessions, sub[i].run \in {"engine", "defer"}
        PROVE  sub[i].st # "none" /\ ~sub[i].evicted /\ files[i].st # "none"
    BY <1>2, <2>1 DEF Life, Ended
  <2>2. QED BY <2>1 DEF LiveSessionsAreKept
<1>7. NoMessageIgnored
    BY <1>2 DEF NoMessageIgnored, Life
<1>8. RetentionHolds
  <2>1. SUFFICES ASSUME budget.faults = 0, \A i \in Sessions : sub[i].run \notin {"defer", "evict"}
                 PROVE  /\ Cardinality({i \in Sessions : Finished(sub[i])}) <= MaxRecords
                        /\ Cardinality({i \in Sessions : Finished(sub[i]) /\ ~sub[i].evicted}) <= MaxLogs
    BY DEF RetentionHolds
  <2>2. ASSUME NEW i \in Sessions, Finished(sub[i]) PROVE sub[i].run = "done"
    <3>1. sub[i].st \in Ended /\ sub[i].fin > 0
      BY <2>2 DEF Finished
    <3>2. QED BY <1>2, <2>1, <3>1 DEF Life
  <2>3. /\ {i \in Sessions : Finished(sub[i])} = DoneSet(sub)
        /\ {i \in Sessions : Finished(sub[i]) /\ ~sub[i].evicted} = DoneLogs(sub)
    BY <2>2 DEF DoneSet, DoneLogs
  <2>4. QED BY <1>1, <2>1, <2>3 DEF SubRetained
<1>9. QED BY <1>3, <1>4, <1>5, <1>6, <1>7, <1>8 DEF SubagentsSafe

\* What the sub-agent tools promise: a manager that restarts finds a directory
\* it can restore, no id names two sessions, a live session keeps its place and
\* its record, an accepted message is answered or reported, and retention is
\* kept whenever no removal failed.
THEOREM SubagentsSafeCorrect == ToolsSpec => []SubagentsSafe
BY SubInvariant, SubSafe, PTL

-----------------------------------------------------------------------------
(* What is done stays as it is. *)

\* A manager that is down has no table.
DownEmpty == mgr = "down" => \A i \in Sessions : sub[i].run = "none"

LEMMA DownEmptyKept == SubInv /\ DownEmpty /\ [SubNext]_subVars => DownEmpty'
<1> SUFFICES ASSUME SubInv, DownEmpty, [SubNext]_subVars, mgr' = "down"
             PROVE  \A i \in Sessions : sub'[i].run = "none"
    BY DEF DownEmpty
<1>1. \A i \in Sessions : sub[i].run = "none" => sub[i].st = "none"
    BY DEF SubInv, SubLives, Life
<1>2. CASE SubClosed \/ SubCrash
    BY <1>2, NoSessionLives DEF SubClosed, SubCrash
<1>3. CASE SubStart \/ SubStartFails \/ RootCancelled \/ SubClose
    BY <1>3 DEF SubStart, SubStartFails, RootCancelled, SubClose
<1>4. CASE SubRestore
  <2>1. sub' = sub /\ mgr = "down"
    BY <1>4 DEF SubRestore
  <2>2. QED BY <2>1 DEF DownEmpty
<1>5. ASSUME NEW i \in Sessions,
             observer(i) \/ runDeferred(i) \/ evictFinishedSessions(i) \/ SubWrite(i) \/ SubKill(i)
      PROVE  FALSE
  <2>1. mgr = "down"
    BY <1>5 DEF observer, runDeferred, evictFinishedSessions, SubWrite, SubKill
  <2>2. sub[i].run = "none" /\ sub[i].st = "none"
    BY <1>1, <2>1 DEF DownEmpty
  <2>3. QED BY <1>5, <2>2 DEF observer, runDeferred, evictFinishedSessions, SubWrite, SubKill
<1>6. ASSUME NEW i \in Sessions, NEW err \in BOOLEAN, NEW left \in BOOLEAN, EngineReturns(i, err, left)
      PROVE  FALSE
  <2>1. mgr = "down" /\ sub[i].run = "engine"
    BY <1>6 DEF EngineReturns
  <2>2. QED BY <2>1 DEF DownEmpty
<1>7. CASE UNCHANGED subVars
    BY <1>7 DEF subVars, DownEmpty
<1>8. QED BY <1>2, <1>3, <1>4, <1>5, <1>6, <1>7 DEF SubNext

\* What eviction leaves of a session it keeps is that session.
LEMMA EvictedKeeps ==
    ASSUME NEW t \in [Sessions -> SubRecords], NEW D, NEW R, NEW i \in Sessions,
           Evicted(t, D, R)[i].run = "done"
    PROVE  Evicted(t, D, R)[i].st = t[i].st /\ Evicted(t, D, R)[i].fin = t[i].fin
<1>1. i \notin R
    BY NoSessionLives DEF Evicted
<1>2. Evicted(t, D, R)[i] = IF i \in D THEN [t[i] EXCEPT !.evicted = TRUE] ELSE t[i]
    BY <1>1 DEF Evicted
<1>3. t[i] \in SubRecords
    OBVIOUS
<1>4. QED BY <1>2, <1>3 DEF SubRecords

LEMMA DoneStep == SubInv /\ DownEmpty /\ [SubNext]_subVars => DoneIsFinal
<1> SUFFICES ASSUME SubInv, DownEmpty, [SubNext]_subVars,
                    NEW CONSTANT k \in Sessions, sub[k].run = "done", sub'[k].run = "done"
             PROVE  sub'[k].st = sub[k].st /\ sub'[k].fin = sub[k].fin
    BY DEF DoneIsFinal
<1>1. /\ sub \in [Sessions -> SubRecords] /\ sub[k] \in SubRecords /\ sub[k].st \in Ended
      /\ mgr # "down"
    BY DEF SubInv, SubTyped, SubLives, Life, DownEmpty
<1>2. CASE SubStart
  <2>1. sub' = sub \/ sub' = [sub EXCEPT ![subNext + 1] = [NoSession EXCEPT !.st = "running", !.run = "engine"]]
    BY <1>2 DEF SubStart
  <2>2. PICK s : s = [NoSession EXCEPT !.st = "running", !.run = "engine"]
    OBVIOUS
  <2>3. s.run = "engine"
    BY <2>2 DEF NoSession
  <2>4. sub' = sub \/ sub' = [sub EXCEPT ![subNext + 1] = s]
    BY <2>1, <2>2
  <2>5. QED BY <1>1, <2>3, <2>4
<1>3. CASE SubStartFails
    BY <1>3 DEF SubStartFails
<1>4. CASE RootCancelled \/ SubClose
  <2>1. \/ sub' = [i \in Sessions |-> [sub[i] EXCEPT !.ctx = FALSE]]
        \/ sub' = [i \in Sessions |-> [sub[i] EXCEPT !.ctx = FALSE,
                                         !.st = IF @ = "running" THEN "interrupted" ELSE @]]
    BY <1>4 DEF RootCancelled, SubClose
  <2>2. PICK st : st = IF sub[k].st = "running" THEN "interrupted" ELSE sub[k].st
    OBVIOUS
  <2>3. st = sub[k].st
    BY <1>1, <2>2 DEF Ended
  <2>4. sub'[k] = [sub[k] EXCEPT !.ctx = FALSE] \/ sub'[k] = [sub[k] EXCEPT !.ctx = FALSE, !.st = st]
    BY <2>1, <2>2
  <2>5. QED BY <1>1, <2>3, <2>4 DEF SubRecords
<1>5. CASE SubClosed \/ SubCrash
    BY <1>5, NoSessionLives DEF SubClosed, SubCrash
<1>6. CASE SubRestore
    BY <1>1, <1>6 DEF SubRestore
<1>7. ASSUME NEW CONSTANT i \in Sessions, observer(i) \/ runDeferred(i) \/ SubKill(i)
      PROVE  \A j \in Sessions \ {i} : sub'[j] = sub[j]
    BY <1>1, <1>7 DEF observer, runDeferred, SubKill
<1>8. ASSUME NEW CONSTANT i \in Sessions, observer(i) \/ runDeferred(i) \/ SubKill(i)
      PROVE  i # k
    BY <1>1, <1>8 DEF observer, runDeferred, SubKill, Ended
<1>9. ASSUME NEW CONSTANT i \in Sessions, SubWrite(i)
      PROVE  sub'[k] = sub[k]
    BY <1>1, <1>9 DEF SubWrite, Ended
<1>10. ASSUME NEW CONSTANT i \in Sessions, NEW err \in BOOLEAN, NEW left \in BOOLEAN, EngineReturns(i, err, left)
       PROVE  sub'[k] = sub[k]
  <2>1. i # k /\ \E s : sub' = [sub EXCEPT ![i] = s]
    BY <1>10 DEF EngineReturns
  <2>2. QED BY <1>1, <2>1
<1>11. ASSUME NEW CONSTANT i \in Sessions, evictFinishedSessions(i)
       PROVE  sub'[k].st = sub[k].st /\ sub'[k].fin = sub[k].fin
  <2>1. PICK t : t = [sub EXCEPT ![i].run = "done"]
    OBVIOUS
  <2>2. sub[i].run = "evict" /\ \E D, R : sub' = Evicted(t, D, R)
    BY <1>11, <2>1 DEF evictFinishedSessions
  <2>3. PICK r : r = [sub[i] EXCEPT !.run = "done"]
    OBVIOUS
  <2>4. r \in SubRecords
    BY <1>1, <2>3 DEF SubRecords
  <2>5. t \in [Sessions -> SubRecords] /\ t[k] = sub[k]
    BY <1>1, <2>1, <2>2, <2>3, <2>4
  <2>6. PICK D, R : sub' = Evicted(t, D, R)
    BY <2>2
  <2>7. Evicted(t, D, R)[k].run = "done"
    BY <2>6
  <2>8. sub'[k].st = t[k].st /\ sub'[k].fin = t[k].fin
    BY <2>5, <2>6, <2>7, EvictedKeeps
  <2>9. QED BY <2>5, <2>8
<1>12. CASE UNCHANGED subVars
    BY <1>12 DEF subVars
<1>13. QED BY <1>2, <1>3, <1>4, <1>5, <1>6, <1>7, <1>8, <1>9, <1>10, <1>11, <1>12 DEF SubNext

\* Once done is closed the result of a session is final for everyone who waited
\* for it or reads it later (subagent.go: run closes done as its last step).
THEOREM DoneIsFinalCorrect == ToolsSpec => [][DoneIsFinal]_subVars
<1>1. ToolsInit => SubInv /\ DownEmpty
    BY InitSub, NoSessionLives DEF ToolsInit, SubInit, DownEmpty
<1>2. SubInv /\ DownEmpty /\ [ToolsNext]_toolsVars => SubInv' /\ DownEmpty'
    BY ToolsStep, SubStep, DownEmptyKept
<1>3. SubInv /\ DownEmpty /\ [ToolsNext]_toolsVars => [DoneIsFinal]_subVars
    BY ToolsStep, DoneStep
<1>4. QED BY <1>1, <1>2, <1>3, PTL DEF ToolsSpec
-----------------------------------------------------------------------------
(* The file operations.  CommitInv is inductive: a call that touches the    *)
(* memory files holds their lease until it ends, what it wants and what it  *)
(* would put back carry settled changes only, and while it writes, each     *)
(* memory file is the old one or the new one, by the order of the writes.   *)

FileTexts == [there : BOOLEAN, has : SUBSET FileCalls]
FileMaps == UNION {[S -> FileTexts] : S \in SUBSET AllPaths}
FileCallRecords ==
    [pc : {"idle", "plan", "commit", "rollback", "done", "failed", "lost"}, ops : Seq(FileOps), todo : Seq(FileOps),
     desired : FileMaps, snapshot : FileMaps, keys : SUBSET AllPaths, applied : Seq(AllPaths)]
FilesTyped ==
    /\ tree \in [AllPaths -> FileTexts] /\ fcall \in [FileCalls -> FileCallRecords]
    /\ lease \in FileCalls \cup {Free} /\ torn \in SUBSET FileCalls
    /\ faults \in [write : Nat, crash : Nat]

\* A call between its first read and its end.
Committing == {"plan", "commit", "rollback"}
Replaces(op, p) == p \in {op.path, op.to} /\ (op.kind \in {"write", "add", "delete"} \/ op.to # "")
FileCallOK(f) ==
    /\ DOMAIN f.desired \subseteq DOMAIN f.snapshot /\ DOMAIN f.snapshot \subseteq Touched(f.ops)
    /\ f.keys \subseteq DOMAIN f.desired
    /\ \A k \in DOMAIN f.applied : f.applied[k] \in DOMAIN f.desired \ f.keys
    /\ \A j, k \in DOMAIN f.applied : j # k => f.applied[j] # f.applied[k]
    /\ f.pc = "plan" => f.applied = <<>> /\ f.keys = {}
    /\ \A k \in DOMAIN f.todo : \E j \in DOMAIN f.ops : f.todo[k] = f.ops[j]
\* Missing files carry nothing.
WholeFile(t) == ~t.there => t.has = {}
\* Every change a text carries is the own one, or one of a call that is done or half done.
Settled(has) == \A d \in has \ torn : fcall[d].pc = "done"
PlannedFile(c, f, p) ==
    /\ WholeFile(f.desired[p]) /\ WholeFile(f.snapshot[p])
    /\ p \in MemoryPaths => Settled(f.desired[p].has \ {c}) /\ Settled(f.snapshot[p].has)
    /\ \/ f.desired[p].has \subseteq f.snapshot[p].has \cup {c} /\ f.snapshot[p].has \subseteq f.desired[p].has
       \/ \E k \in DOMAIN f.ops : Replaces(f.ops[k], p)
    /\ p \in MemoryPaths /\ p \in Range(f.applied) => tree[p] = f.desired[p]
    /\ p \in MemoryPaths /\ p \notin Range(f.applied) /\ f.pc # "rollback" => tree[p] = f.snapshot[p]
LeaseHeld ==
    \A c \in FileCalls : fcall[c].pc \in Committing /\ Touched(fcall[c].ops) \cap MemoryPaths # {} => lease = c
PlansHold == \A c \in FileCalls : fcall[c].pc \in Committing =>
    FileCallOK(fcall[c]) /\ \A p \in DOMAIN fcall[c].desired : PlannedFile(c, fcall[c], p)
TextsKnown == \A p \in MemoryPaths : \A d \in tree[p].has \ torn :
    fcall[d].pc = "done" \/ (fcall[d].pc \in {"commit", "rollback"} /\ p \in Range(fcall[d].applied))
WholeTree == \A p \in AllPaths : WholeFile(tree[p])
CommitInv == FilesTyped /\ LeaseHeld /\ PlansHold /\ TextsKnown /\ WholeTree

-----------------------------------------------------------------------------
LEMMA EmptyMap == <<>> \in FileMaps /\ DOMAIN <<>> = {} /\ <<>> \in Seq(AllPaths) /\ <<>> \in Seq(FileOps)
  <1>1. DOMAIN <<>> = {}
    OBVIOUS
  <1>2. <<>> \in [{} -> FileTexts]
    OBVIOUS
  <1> QED  BY <1>1, <1>2 DEF FileMaps

LEMMA AppendFacts ==
    ASSUME NEW S, NEW s \in Seq(S), NEW x \in S
    PROVE  /\ Append(s, x) \in Seq(S) /\ Len(s) \in Nat /\ DOMAIN s = 1..Len(s)
           /\ DOMAIN Append(s, x) = 1..(Len(s) + 1) /\ Append(s, x)[Len(s) + 1] = x
           /\ \A k \in 1..Len(s) : Append(s, x)[k] = s[k]
           /\ Range(Append(s, x)) = Range(s) \cup {x}
  <1>1. /\ Append(s, x) \in Seq(S) /\ Len(s) \in Nat /\ DOMAIN s = 1..Len(s)
        /\ DOMAIN Append(s, x) = 1..(Len(s) + 1) /\ Append(s, x)[Len(s) + 1] = x
        /\ \A k \in 1..Len(s) : Append(s, x)[k] = s[k]
    OBVIOUS
  <1>2. PICK t : t = Append(s, x)
    OBVIOUS
  <1>3. ASSUME NEW y  PROVE y \in Range(t) <=> y \in Range(s) \cup {x}
    <2>1. ASSUME y \in Range(t)  PROVE y \in Range(s) \cup {x}
      <3>1. PICK k \in 1..(Len(s) + 1) : y = t[k]
        BY <2>1, <1>1, <1>2 DEF Range
      <3> QED  BY <3>1, <1>1, <1>2 DEF Range
    <2>2. ASSUME y \in Range(s) \cup {x}  PROVE y \in Range(t)
      <3>1. CASE y \in Range(s)
        <4>1. PICK k \in 1..Len(s) : y = s[k]
          BY <3>1, <1>1 DEF Range
        <4>2. k \in DOMAIN t /\ y = t[k]
          BY <4>1, <1>1, <1>2
        <4> QED  BY <4>2 DEF Range
      <3>2. CASE y = x
        <4>1. Len(s) + 1 \in DOMAIN t /\ y = t[Len(s) + 1]
          BY <3>2, <1>1, <1>2
        <4> QED  BY <4>1 DEF Range
      <3> QED  BY <2>2, <3>1, <3>2
    <2> QED  BY <2>1, <2>2
  <1> QED  BY <1>1, <1>2, <1>3

LEMMA FrontFacts ==
    ASSUME NEW S, NEW s \in Seq(S), s # <<>>,
           \A j, k \in DOMAIN s : j # k => s[j] # s[k]
    PROVE  /\ Front(s) \in Seq(S) /\ Last(s) \in S /\ Len(s) \in Nat \ {0} /\ DOMAIN s = 1..Len(s)
           /\ DOMAIN Front(s) = 1..(Len(s) - 1) /\ Last(s) = s[Len(s)]
           /\ \A k \in 1..(Len(s) - 1) : Front(s)[k] = s[k]
           /\ Range(Front(s)) = Range(s) \ {Last(s)}
  <1>1. Len(s) \in Nat \ {0} /\ DOMAIN s = 1..Len(s) /\ Last(s) = s[Len(s)] /\ Last(s) \in S
    BY DEF Last
  <1>2. PICK t : t = SubSeq(s, 1, Len(s) - 1)
    OBVIOUS
  <1>3. t \in Seq(S) /\ DOMAIN t = 1..(Len(s) - 1) /\ \A k \in 1..(Len(s) - 1) : t[k] = s[k]
    BY <1>1, <1>2
  <1>4. ASSUME NEW y  PROVE y \in Range(t) <=> y \in Range(s) \ {s[Len(s)]}
    <2>1. ASSUME y \in Range(t)  PROVE y \in Range(s) \ {s[Len(s)]}
      <3>1. PICK k \in 1..(Len(s) - 1) : y = t[k]
        BY <2>1, <1>3 DEF Range
      <3>3. y = s[k]
        BY <3>1, <1>3
      <3>4. PICK n \in Nat \ {0} : n = Len(s)
        BY <1>1
      <3>5. k \in 1..n /\ n \in 1..n /\ k # n
        BY <3>4
      <3>2. k \in DOMAIN s /\ y = s[k] /\ Len(s) \in DOMAIN s /\ k # Len(s)
        BY <3>3, <3>4, <3>5, <1>1
      <3> QED  BY <3>2 DEF Range
    <2>2. ASSUME y \in Range(s) \ {s[Len(s)]}  PROVE y \in Range(t)
      <3>1. PICK k \in 1..Len(s) : y = s[k]
        BY <2>2, <1>1 DEF Range
      <3>2. k \in 1..(Len(s) - 1)
        BY <3>1, <2>2, <1>1
      <3>3. k \in DOMAIN t /\ y = t[k]
        BY <3>1, <3>2, <1>3
      <3> QED  BY <3>3 DEF Range
    <2> QED  BY <2>1, <2>2
  <1>5. Range(t) = Range(s) \ {s[Len(s)]}
    BY <1>4
  <1> QED  BY <1>1, <1>2, <1>3, <1>5 DEF Front

LEMMA InitCommit == CommitInit => CommitInv
  <1> SUFFICES ASSUME CommitInit  PROVE CommitInv
    OBVIOUS
  <1> USE EmptyMap
  <1>1. NoFileCall \in FileCallRecords
    BY DEF NoFileCall, FileCallRecords
  <1>2. FilesTyped
    BY <1>1, CommitAssumption DEF CommitInit, FilesTyped, FileTexts, Missing
  <1>3. LeaseHeld /\ PlansHold
    BY DEF CommitInit, LeaseHeld, PlansHold, NoFileCall, Committing
  <1>4. TextsKnown /\ WholeTree
    BY DEF CommitInit, TextsKnown, WholeTree, WholeFile, Missing, AllPaths
  <1> QED  BY <1>2, <1>3, <1>4 DEF CommitInv

LEMMA PlansNext ==
    ASSUME \A c \in FileCalls, f \in FileCallRecords : f = fcall'[c] /\ f.pc \in Committing =>
              FileCallOK(f) /\ \A p \in DOMAIN f.desired : PlannedFile(c, f, p)',
           fcall' \in [FileCalls -> FileCallRecords]
    PROVE  PlansHold'
  <1> SUFFICES ASSUME NEW CONSTANT c \in FileCalls, fcall'[c].pc \in Committing
               PROVE  (FileCallOK(fcall[c]) /\ \A p \in DOMAIN fcall[c].desired : PlannedFile(c, fcall[c], p))'
    BY DEF PlansHold
  <1>1. PICK f \in FileCallRecords : f = fcall'[c]
    OBVIOUS
  <1>2. FileCallOK(f) /\ \A p \in DOMAIN f.desired : PlannedFile(c, f, p)'
    BY <1>1
  <1> QED  BY <1>1, <1>2 DEF FileCallOK, PlannedFile

\* A step of call c leaves the plans of the others as they were: it writes memory only under the lease.
LEMMA OtherPlans ==
    ASSUME CommitInv, NEW CONSTANT c \in FileCalls, tree' \in [AllPaths -> FileTexts],
           fcall[c].pc = "done" => fcall'[c].pc = "done", torn \subseteq torn',
           \A e \in FileCalls \ {c} : fcall'[e] = fcall[e],
           \A p \in MemoryPaths : tree'[p] # tree[p] => lease = c,
           NEW CONSTANT d \in FileCalls \ {c}, NEW CONSTANT f, f = fcall[d], f.pc \in Committing
    PROVE  FileCallOK(f) /\ \A p \in DOMAIN f.desired : PlannedFile(d, f, p)'
  <1>1. FileCallOK(f) /\ (\A p \in DOMAIN f.desired : PlannedFile(d, f, p)) /\ f \in FileCallRecords
    BY DEF CommitInv, PlansHold, FilesTyped
  <1>3. ASSUME NEW CONSTANT p \in DOMAIN f.desired  PROVE PlannedFile(d, f, p)'
    <2>1. PlannedFile(d, f, p) /\ p \in AllPaths
      BY <1>1 DEF FileMaps, FileCallRecords
    <2>2. p \in MemoryPaths => tree'[p] = tree[p]
      <3>1. p \in Touched(f.ops)
        BY <1>1 DEF FileCallOK
      <3> QED  BY <3>1 DEF CommitInv, LeaseHeld
    <2>3. f.desired[p] \in FileTexts /\ f.snapshot[p] \in FileTexts
      BY <1>1 DEF FileMaps, FileCallRecords, FileCallOK
    <2>4. ASSUME NEW CONSTANT h \in SUBSET FileCalls, Settled(h)  PROVE Settled(h)'
      BY <2>4 DEF Settled
    <2>5. p \in MemoryPaths => Settled(f.desired[p].has \ {d})' /\ Settled(f.snapshot[p].has)'
      BY <2>1, <2>3, <2>4 DEF PlannedFile, FileTexts
    <2> QED  BY <2>1, <2>2, <2>5 DEF PlannedFile, Settled
  <1> QED  BY <1>1, <1>3

\* What a step of a call under way has to show: its own plan, and who the texts are of.
LEMMA CallStep ==
    ASSUME CommitInv, NEW CONSTANT c \in FileCalls, NEW CONSTANT f, f = fcall[c], f.pc \in Committing,
           NEW CONSTANT g \in FileCallRecords, fcall' = [fcall EXCEPT ![c] = g], g.ops = f.ops,
           lease' = IF g.pc \in Committing \/ lease # c THEN lease ELSE Free,
           torn' \in {torn, torn \cup {c}}, faults' \in [write : Nat, crash : Nat],
           tree' \in [AllPaths -> FileTexts],
           \A p \in AllPaths : tree'[p] # tree[p] => p \in DOMAIN f.desired /\ WholeFile(tree'[p]),
           g.pc \in Committing => FileCallOK(g) /\ \A p \in DOMAIN g.desired : PlannedFile(c, g, p)',
           TextsKnown'
    PROVE  CommitInv'
  <1>1. f \in FileCallRecords /\ FileCallOK(f) /\ fcall \in [FileCalls -> FileCallRecords]
    BY DEF CommitInv, PlansHold, FilesTyped
  <1>2. fcall' \in [FileCalls -> FileCallRecords] /\ fcall'[c] = g /\ \A e \in FileCalls \ {c} : fcall'[e] = fcall[e]
    BY <1>1
  <1>3. FilesTyped'
    BY <1>2 DEF CommitInv, FilesTyped
  <1>4. LeaseHeld'
    <2> SUFFICES ASSUME NEW CONSTANT d \in FileCalls, fcall'[d].pc \in Committing,
                        Touched(fcall'[d].ops) \cap MemoryPaths # {}
                 PROVE  lease' = d
      BY DEF LeaseHeld, Touched
    <2>1. CASE d = c
      BY <2>1, <1>2 DEF CommitInv, LeaseHeld
    <2>2. CASE d # c
      BY <2>2, <1>2 DEF CommitInv, LeaseHeld
    <2> QED  BY <2>1, <2>2
  <1>5. \A p \in MemoryPaths : tree'[p] # tree[p] => lease = c
    BY <1>1 DEF CommitInv, LeaseHeld, FileCallOK, AllPaths
  <1>6. fcall[c].pc # "done"
    BY DEF Committing
  <1>7. PlansHold'
    <2> SUFFICES ASSUME NEW CONSTANT d \in FileCalls, NEW CONSTANT h \in FileCallRecords, h = fcall'[d], h.pc \in Committing
                 PROVE  FileCallOK(h) /\ \A p \in DOMAIN h.desired : PlannedFile(d, h, p)'
      BY <1>2, PlansNext
    <2>1. CASE d = c
      BY <2>1, <1>2
    <2>2. CASE d # c
      <3>1. d \in FileCalls \ {c} /\ h = fcall[d]
        BY <2>2, <1>2
      <3>2. torn \subseteq torn'
        OBVIOUS
      <3> QED  BY <3>1, <3>2, <1>2, <1>5, <1>6, OtherPlans
    <2> QED  BY <2>1, <2>2
  <1>8. WholeTree'
    BY DEF CommitInv, WholeTree, WholeFile
  <1> QED  BY <1>3, <1>4, <1>7, <1>8 DEF CommitInv

LEMMA BeginKeeps ==
    ASSUME CommitInv, NEW CONSTANT c \in FileCalls, NEW CONSTANT ops \in Plans, Begin(c, ops)
    PROVE  CommitInv'
  <1> USE EmptyMap
  <1>0. ops \in Seq(FileOps)
    BY CommitAssumption
  <1>1. PICK g \in FileCallRecords :
           /\ g = [NoFileCall EXCEPT !.pc = "plan", !.ops = ops, !.todo = ops]
           /\ g.pc = "plan" /\ g.ops = ops /\ g.todo = ops /\ g.desired = <<>> /\ g.snapshot = <<>>
           /\ g.keys = {} /\ g.applied = <<>>
    <2>1. PICK n \in FileCallRecords : n = NoFileCall /\ n.desired = <<>> /\ n.snapshot = <<>> /\ n.keys = {} /\ n.applied = <<>>
      <3>1. NoFileCall \in FileCallRecords
        BY DEF NoFileCall, FileCallRecords
      <3>2. NoFileCall.desired = <<>> /\ NoFileCall.snapshot = <<>> /\ NoFileCall.keys = {} /\ NoFileCall.applied = <<>>
        BY DEF NoFileCall
      <3> QED  BY <3>1, <3>2
    <2>2. PICK g : g = [n EXCEPT !.pc = "plan", !.ops = ops, !.todo = ops]
      OBVIOUS
    <2>3. /\ g.pc = "plan" /\ g.ops = ops /\ g.todo = ops /\ g.desired = n.desired /\ g.snapshot = n.snapshot
          /\ g.keys = n.keys /\ g.applied = n.applied
      BY <2>2 DEF FileCallRecords
    <2>4. g \in FileCallRecords
      BY <2>2, <1>0 DEF FileCallRecords
    <2> QED  BY <2>1, <2>2, <2>3, <2>4
  <1>2. /\ fcall[c].pc = "idle" /\ lease = Free /\ tree' = tree /\ torn' = torn /\ faults' = faults
        /\ lease' = IF Touched(ops) \cap MemoryPaths # {} THEN c ELSE Free
        /\ fcall' = [fcall EXCEPT ![c] = g]
    BY <1>1 DEF Begin, AcquireFileMutation
  <1>3. fcall' \in [FileCalls -> FileCallRecords] /\ fcall'[c] = g /\ \A e \in FileCalls \ {c} : fcall'[e] = fcall[e]
    BY <1>2 DEF CommitInv, FilesTyped
  <1>4. FilesTyped'
    BY <1>2, <1>3 DEF CommitInv, FilesTyped
  <1>5. LeaseHeld'
    <2> SUFFICES ASSUME NEW CONSTANT d \in FileCalls, fcall'[d].pc \in Committing,
                        Touched(fcall'[d].ops) \cap MemoryPaths # {}
                 PROVE  lease' = d
      BY DEF LeaseHeld, Touched
    <2>1. CASE d = c
      BY <2>1, <1>1, <1>2, <1>3
    <2>2. CASE d # c
      BY <2>2, <1>2, <1>3, CommitAssumption DEF CommitInv, LeaseHeld
    <2> QED  BY <2>1, <2>2
  <1>6. PlansHold'
    <2> SUFFICES ASSUME NEW CONSTANT d \in FileCalls, NEW CONSTANT h \in FileCallRecords, h = fcall'[d], h.pc \in Committing
                 PROVE  FileCallOK(h) /\ \A p \in DOMAIN h.desired : PlannedFile(d, h, p)'
      BY <1>3, PlansNext
    <2>1. CASE d = c
      <3>1. FileCallOK(g)
        BY <1>1 DEF FileCallOK
      <3> QED  BY <3>1, <2>1, <1>1, <1>3
    <2>2. CASE d # c
      <3>1. d \in FileCalls \ {c} /\ h = fcall[d] /\ tree' \in [AllPaths -> FileTexts]
        BY <2>2, <1>2, <1>3 DEF CommitInv, FilesTyped
      <3>2. torn \subseteq torn' /\ fcall[c].pc # "done" /\ \A p \in MemoryPaths : tree'[p] = tree[p]
        BY <1>2
      <3> QED  BY <3>1, <3>2, <1>3, OtherPlans
    <2> QED  BY <2>1, <2>2
  <1>7. TextsKnown'
    BY <1>2, <1>3 DEF CommitInv, TextsKnown, FilesTyped, FileTexts, AllPaths
  <1>8. WholeTree'
    BY <1>2 DEF CommitInv, WholeTree
  <1> QED  BY <1>4, <1>5, <1>6, <1>7, <1>8 DEF CommitInv

\* The facts every step of a call under way starts from.
LEMMA CallFacts ==
    ASSUME CommitInv, NEW CONSTANT c \in FileCalls, fcall[c].pc \in Committing
    PROVE  \E f \in FileCallRecords :
              /\ f = fcall[c] /\ f.pc = fcall[c].pc /\ FileCallOK(f)
              /\ \A p \in DOMAIN f.desired : p \in AllPaths /\ f.desired[p] \in FileTexts /\ f.snapshot[p] \in FileTexts
              /\ \A p \in DOMAIN f.desired : PlannedFile(c, f, p)
  <1>1. PICK f \in FileCallRecords : f = fcall[c] /\ f.pc = fcall[c].pc
    BY DEF CommitInv, FilesTyped
  <1>2. FileCallOK(f) /\ \A p \in DOMAIN f.desired : PlannedFile(c, f, p)
    BY <1>1 DEF CommitInv, PlansHold
  <1>3. \A p \in DOMAIN f.desired : p \in AllPaths /\ f.desired[p] \in FileTexts /\ f.snapshot[p] \in FileTexts
    BY <1>2 DEF FileMaps, FileCallRecords, FileCallOK
  <1> QED  BY <1>1, <1>2, <1>3

LEMMA PlanEndsKeeps ==
    ASSUME CommitInv, NEW CONSTANT c \in FileCalls, PlanEnds(c)
    PROVE  CommitInv'
  <1>1. fcall[c].pc = "plan" /\ fcall[c].pc \in Committing /\ fcall \in [FileCalls -> FileCallRecords]
    BY DEF PlanEnds, Committing, CommitInv, FilesTyped
  <1>2. PICK f \in FileCallRecords :
              /\ f = fcall[c] /\ f.pc = fcall[c].pc /\ FileCallOK(f)
              /\ \A p \in DOMAIN f.desired : p \in AllPaths /\ f.desired[p] \in FileTexts /\ f.snapshot[p] \in FileTexts
              /\ \A p \in DOMAIN f.desired : PlannedFile(c, f, p)
    BY <1>1, CallFacts
  <1>3. PICK g : g = [f EXCEPT !.pc = "commit", !.keys = DOMAIN f.desired]
    OBVIOUS
  <1>4. g \in FileCallRecords
    BY <1>2, <1>3 DEF FileCallRecords
  <1>5. /\ g.pc = "commit" /\ g.ops = f.ops /\ g.todo = f.todo /\ g.desired = f.desired /\ g.snapshot = f.snapshot
        /\ g.keys = DOMAIN f.desired /\ g.applied = f.applied
    BY <1>3 DEF FileCallRecords
  <1>6. fcall' = [fcall EXCEPT ![c] = g] /\ tree' = tree /\ torn' = torn /\ lease' = lease /\ faults' = faults
    BY <1>2, <1>3 DEF PlanEnds
  <1>7. f.applied = <<>> /\ FileCallOK(g)
    BY <1>1, <1>2, <1>5, EmptyMap DEF FileCallOK
  <1>8. ASSUME NEW CONSTANT p \in DOMAIN g.desired  PROVE PlannedFile(c, g, p)'
    <2>1. PlannedFile(c, f, p)
      BY <1>2, <1>5
    <2> QED  BY <2>1, <1>1, <1>2, <1>5, <1>6, <1>7 DEF PlannedFile, Settled
  <1>9. TextsKnown'
    BY <1>1, <1>6 DEF CommitInv, TextsKnown, FilesTyped, FileTexts, AllPaths
  <1>10. lease' = (IF g.pc \in Committing \/ lease # c THEN lease ELSE Free) /\ torn' \in {torn, torn \cup {c}}
         /\ tree' \in [AllPaths -> FileTexts] /\ faults' \in [write : Nat, crash : Nat]
         /\ \A p \in AllPaths : tree'[p] # tree[p] => p \in DOMAIN f.desired /\ WholeFile(tree'[p])
    BY <1>5, <1>6 DEF CommitInv, FilesTyped, Committing
  <1> QED  BY <1>1, <1>2, <1>4, <1>5, <1>6, <1>7, <1>8, <1>9, <1>10, CallStep

\* A call that ends without a write.
LEMMA EndKeepsFiles ==
    ASSUME CommitInv, NEW CONSTANT c \in FileCalls, NEW CONSTANT pc \in {"done", "failed"},
           fcall[c].pc \in Committing, Ends(c, pc), tree' = tree, torn' \in {torn, torn \cup {c}},
           faults' \in [write : Nat, crash : Nat],
           pc = "failed" => fcall[c].applied = <<>> \/ c \in torn'
    PROVE  CommitInv'
  <1>1. fcall \in [FileCalls -> FileCallRecords]
    BY DEF CommitInv, FilesTyped
  <1>2. PICK f \in FileCallRecords :
              /\ f = fcall[c] /\ f.pc = fcall[c].pc /\ FileCallOK(f)
              /\ \A p \in DOMAIN f.desired : p \in AllPaths /\ f.desired[p] \in FileTexts /\ f.snapshot[p] \in FileTexts
              /\ \A p \in DOMAIN f.desired : PlannedFile(c, f, p)
    BY CallFacts
  <1>3. PICK g : g = [f EXCEPT !.pc = pc]
    OBVIOUS
  <1>4. g \in FileCallRecords
    BY <1>2, <1>3 DEF FileCallRecords
  <1>5. g.pc = pc /\ g.ops = f.ops /\ g.applied = f.applied
    BY <1>3 DEF FileCallRecords
  <1>6. fcall' = [fcall EXCEPT ![c] = g] /\ lease' = IF lease = c THEN Free ELSE lease
    BY <1>2, <1>3 DEF Ends
  <1>7. TextsKnown'
    <2> SUFFICES ASSUME NEW CONSTANT p \in MemoryPaths, NEW CONSTANT d \in tree[p].has \ torn, d \notin torn'
                 PROVE  \/ fcall'[d].pc = "done"
                        \/ fcall'[d].pc \in {"commit", "rollback"} /\ p \in Range(fcall'[d].applied)
      BY DEF TextsKnown, Range
    <2>1. d \in FileCalls
      BY DEF CommitInv, FilesTyped, FileTexts, AllPaths
    <2>2. \/ fcall[d].pc = "done"
          \/ fcall[d].pc \in {"commit", "rollback"} /\ p \in Range(fcall[d].applied)
      BY DEF CommitInv, TextsKnown
    <2>3. CASE d = c
      BY <2>2, <2>3, <1>1, <1>2, <1>5, <1>6, EmptyMap DEF Range, Committing
    <2>4. CASE d # c
      BY <2>1, <2>2, <2>4, <1>1, <1>6
    <2> QED  BY <2>3, <2>4
  <1>8. lease' = (IF g.pc \in Committing \/ lease # c THEN lease ELSE Free) /\ torn' \in {torn, torn \cup {c}}
         /\ tree' \in [AllPaths -> FileTexts] /\ faults' \in [write : Nat, crash : Nat]
         /\ \A p \in AllPaths : tree'[p] # tree[p] => p \in DOMAIN f.desired /\ WholeFile(tree'[p])
    BY <1>5, <1>6 DEF CommitInv, FilesTyped, Committing
  <1>9. g.pc \notin Committing
    BY <1>5 DEF Committing
  <1> QED  BY <1>2, <1>4, <1>5, <1>6, <1>7, <1>8, <1>9, CallStep

LEMMA WriteFileKeeps ==
    ASSUME CommitInv, NEW CONSTANT c \in FileCalls, fcall[c].pc = "commit", NEW CONSTANT q \in fcall[c].keys,
           tree' = [tree EXCEPT ![q] = fcall[c].desired[q]],
           fcall' = [fcall EXCEPT ![c].keys = @ \ {q}, ![c].applied = Append(@, q)],
           lease' = lease, torn' = torn, faults' \in [write : Nat, crash : Nat]
    PROVE  CommitInv'
  <1>1. fcall \in [FileCalls -> FileCallRecords] /\ fcall[c].pc \in Committing /\ tree \in [AllPaths -> FileTexts]
    BY DEF CommitInv, FilesTyped, Committing
  <1>2. PICK f \in FileCallRecords :
              /\ f = fcall[c] /\ f.pc = fcall[c].pc /\ FileCallOK(f)
              /\ \A p \in DOMAIN f.desired : p \in AllPaths /\ f.desired[p] \in FileTexts /\ f.snapshot[p] \in FileTexts
              /\ \A p \in DOMAIN f.desired : PlannedFile(c, f, p)
    BY <1>1, CallFacts
  <1>4. q \in f.keys /\ q \in DOMAIN f.desired /\ q \in AllPaths /\ q \notin Range(f.applied)
    BY <1>2 DEF FileCallOK, Range
  <1>16. f.applied \in Seq(AllPaths) /\ f.keys \in SUBSET AllPaths
    BY <1>2 DEF FileCallRecords
  <1>17. /\ Append(f.applied, q) \in Seq(AllPaths) /\ Len(f.applied) \in Nat /\ DOMAIN f.applied = 1..Len(f.applied)
         /\ DOMAIN Append(f.applied, q) = 1..(Len(f.applied) + 1) /\ Append(f.applied, q)[Len(f.applied) + 1] = q
         /\ \A k \in 1..Len(f.applied) : Append(f.applied, q)[k] = f.applied[k]
         /\ Range(Append(f.applied, q)) = Range(f.applied) \cup {q}
    BY <1>4, <1>16, AppendFacts
  <1>15. PICK ks \in SUBSET AllPaths, ap \in Seq(AllPaths) : ks = f.keys \ {q} /\ ap = Append(f.applied, q)
    BY <1>16, <1>17
  <1>3. PICK g : g = [f EXCEPT !.keys = ks, !.applied = ap]
    OBVIOUS
  <1>5. g \in FileCallRecords
    BY <1>2, <1>3, <1>15 DEF FileCallRecords
  <1>6. /\ g.pc = "commit" /\ g.ops = f.ops /\ g.todo = f.todo /\ g.desired = f.desired /\ g.snapshot = f.snapshot
        /\ g.keys = f.keys \ {q} /\ g.applied = Append(f.applied, q)
    BY <1>2, <1>3, <1>15 DEF FileCallRecords
  <1>7. /\ Len(f.applied) \in Nat /\ DOMAIN f.applied = 1..Len(f.applied)
        /\ DOMAIN g.applied = 1..(Len(f.applied) + 1) /\ g.applied[Len(f.applied) + 1] = q
        /\ \A k \in 1..Len(f.applied) : g.applied[k] = f.applied[k]
    BY <1>6, <1>17
  <1>8. Range(g.applied) = Range(f.applied) \cup {q}
    BY <1>6, <1>17
  <1>9. FileCallOK(g)
    BY <1>2, <1>4, <1>6, <1>7 DEF FileCallOK, Range
  <1>10. fcall' = [fcall EXCEPT ![c] = g] /\ fcall'[c] = g /\ \A e \in FileCalls \ {c} : fcall'[e] = fcall[e]
    BY <1>1, <1>2, <1>3, <1>15
  <1>11. tree' = [tree EXCEPT ![q] = f.desired[q]] /\ tree' \in [AllPaths -> FileTexts]
    BY <1>1, <1>2, <1>4
  <1>12. ASSUME NEW CONSTANT p \in DOMAIN g.desired  PROVE PlannedFile(c, g, p)'
    <2>1. PlannedFile(c, f, p) /\ p \in AllPaths
      BY <1>2, <1>6
    <2>5. ASSUME NEW CONSTANT h \in SUBSET FileCalls, Settled(h)  PROVE Settled(h)'
      BY <2>5, <1>10 DEF Settled
    <2>2. p \in MemoryPaths => Settled(f.desired[p].has \ {c})' /\ Settled(f.snapshot[p].has)'
      BY <2>1, <2>5, <1>2, <1>6 DEF PlannedFile, FileTexts
    <2>3. p \in MemoryPaths /\ p \in Range(g.applied) => tree'[p] = f.desired[p]
      BY <2>1, <1>1, <1>8, <1>11 DEF PlannedFile
    <2>4. p \in MemoryPaths /\ p \notin Range(g.applied) => tree'[p] = f.snapshot[p]
      BY <2>1, <1>1, <1>2, <1>8, <1>11 DEF PlannedFile
    <2> QED  BY <2>1, <2>2, <2>3, <2>4, <1>6 DEF PlannedFile, Settled
  <1>13. TextsKnown'
    <2> SUFFICES ASSUME NEW CONSTANT p \in MemoryPaths, NEW CONSTANT d \in tree'[p].has \ torn'
                 PROVE  \/ fcall'[d].pc = "done"
                        \/ fcall'[d].pc \in {"commit", "rollback"} /\ p \in Range(fcall'[d].applied)
      BY DEF TextsKnown, Range
    <2>1. d \in FileCalls
      BY <1>11 DEF FileTexts, AllPaths
    <2>2. CASE p = q
      <3>1. d \in f.desired[q].has /\ Settled(f.desired[q].has \ {c})
        BY <2>2, <1>1, <1>2, <1>4, <1>11 DEF PlannedFile
      <3> QED  BY <3>1, <2>1, <2>2, <1>6, <1>8, <1>10 DEF Settled
    <2>3. CASE p # q
      <3>1. \/ fcall[d].pc = "done"
            \/ fcall[d].pc \in {"commit", "rollback"} /\ p \in Range(fcall[d].applied)
        BY <2>3, <1>1, <1>11 DEF CommitInv, TextsKnown, AllPaths
      <3> QED  BY <3>1, <2>1, <1>2, <1>6, <1>8, <1>10
    <2> QED  BY <2>2, <2>3
  <1>14. lease' = (IF g.pc \in Committing \/ lease # c THEN lease ELSE Free) /\ torn' \in {torn, torn \cup {c}}
         /\ \A p \in AllPaths : tree'[p] # tree[p] => p \in DOMAIN f.desired /\ WholeFile(tree'[p])
    BY <1>1, <1>2, <1>4, <1>6, <1>11 DEF Committing, PlannedFile
  <1>30. CommitInv /\ c \in FileCalls /\ faults' \in [write : Nat, crash : Nat]
    OBVIOUS
  <1> QED  BY ONLY <1>30, <1>1, <1>2, <1>5, <1>6, <1>9, <1>10, <1>11, <1>12, <1>13, <1>14, CallStep

\* A write that fails: the call turns to its rollback.
LEMMA FaultyWriteKeeps ==
    ASSUME CommitInv, NEW CONSTANT c \in FileCalls, fcall[c].pc = "commit",
           fcall' = [fcall EXCEPT ![c].pc = "rollback"], tree' = tree,
           lease' = lease, torn' = torn, faults' \in [write : Nat, crash : Nat]
    PROVE  CommitInv'
  <1>1. fcall \in [FileCalls -> FileCallRecords] /\ fcall[c].pc \in Committing /\ tree \in [AllPaths -> FileTexts]
    BY DEF CommitInv, FilesTyped, Committing
  <1>2. PICK f \in FileCallRecords :
              /\ f = fcall[c] /\ f.pc = fcall[c].pc /\ FileCallOK(f)
              /\ \A p \in DOMAIN f.desired : p \in AllPaths /\ f.desired[p] \in FileTexts /\ f.snapshot[p] \in FileTexts
              /\ \A p \in DOMAIN f.desired : PlannedFile(c, f, p)
    BY <1>1, CallFacts
  <1>3. PICK g : g = [f EXCEPT !.pc = "rollback"]
    OBVIOUS
  <1>4. g \in FileCallRecords
    BY <1>2, <1>3 DEF FileCallRecords
  <1>5. /\ g.pc = "rollback" /\ g.ops = f.ops /\ g.todo = f.todo /\ g.desired = f.desired /\ g.snapshot = f.snapshot
        /\ g.keys = f.keys /\ g.applied = f.applied
    BY <1>3 DEF FileCallRecords
  <1>6. fcall' = [fcall EXCEPT ![c] = g] /\ fcall'[c] = g /\ \A e \in FileCalls \ {c} : fcall'[e] = fcall[e]
    BY <1>1, <1>2, <1>3
  <1>7. FileCallOK(g)
    BY <1>2, <1>5 DEF FileCallOK
  <1>8. ASSUME NEW CONSTANT p \in DOMAIN g.desired  PROVE PlannedFile(c, g, p)'
    <2>1. PlannedFile(c, f, p)
      BY <1>2, <1>5
    <2> QED  BY <2>1, <1>2, <1>5, <1>6 DEF PlannedFile, Settled
  <1>9. TextsKnown'
    BY <1>1, <1>2, <1>5, <1>6 DEF CommitInv, TextsKnown, FileTexts, AllPaths
  <1>10. lease' = (IF g.pc \in Committing \/ lease # c THEN lease ELSE Free) /\ torn' \in {torn, torn \cup {c}}
         /\ tree' \in [AllPaths -> FileTexts]
         /\ \A p \in AllPaths : tree'[p] # tree[p] => p \in DOMAIN f.desired /\ WholeFile(tree'[p])
    BY <1>1, <1>5 DEF Committing
  <1>30. CommitInv /\ c \in FileCalls /\ faults' \in [write : Nat, crash : Nat]
    OBVIOUS
  <1> QED  BY ONLY <1>30, <1>1, <1>2, <1>4, <1>5, <1>6, <1>7, <1>8, <1>9, <1>10, CallStep

LEMMA UndoKeeps ==
    ASSUME CommitInv, NEW CONSTANT c \in FileCalls, fcall[c].pc = "rollback", fcall[c].applied # <<>>,
           NEW CONSTANT q, q = Last(fcall[c].applied), NEW CONSTANT ok \in BOOLEAN,
           tree' = IF ok THEN [tree EXCEPT ![q] = fcall[c].snapshot[q]] ELSE tree,
           torn' = IF ok THEN torn ELSE torn \cup {c},
           fcall' = [fcall EXCEPT ![c].applied = Front(@)],
           lease' = lease, faults' \in [write : Nat, crash : Nat]
    PROVE  CommitInv'
  <1>1. fcall \in [FileCalls -> FileCallRecords] /\ fcall[c].pc \in Committing /\ tree \in [AllPaths -> FileTexts]
    BY DEF CommitInv, FilesTyped, Committing
  <1>2. PICK f \in FileCallRecords :
              /\ f = fcall[c] /\ f.pc = fcall[c].pc /\ FileCallOK(f)
              /\ \A p \in DOMAIN f.desired : p \in AllPaths /\ f.desired[p] \in FileTexts /\ f.snapshot[p] \in FileTexts
              /\ \A p \in DOMAIN f.desired : PlannedFile(c, f, p)
    BY <1>1, CallFacts
  <1>3. f.applied \in Seq(AllPaths) /\ f.applied # <<>> /\ q = Last(f.applied)
        /\ \A j, k \in DOMAIN f.applied : j # k => f.applied[j] # f.applied[k]
    BY <1>2 DEF FileCallRecords, FileCallOK
  <1>4. PICK ap \in Seq(AllPaths) :
           /\ ap = Front(f.applied) /\ Len(f.applied) \in Nat \ {0} /\ DOMAIN f.applied = 1..Len(f.applied)
           /\ q = f.applied[Len(f.applied)] /\ q \in AllPaths
           /\ DOMAIN ap = 1..(Len(f.applied) - 1) /\ (\A k \in 1..(Len(f.applied) - 1) : ap[k] = f.applied[k])
           /\ Range(ap) = Range(f.applied) \ {q}
    <2>1. PICK s \in Seq(AllPaths) : s = f.applied
      BY <1>3
    <2>2. s # <<>> /\ q = Last(s) /\ \A j, k \in DOMAIN s : j # k => s[j] # s[k]
      BY <2>1, <1>3
    <2>3. /\ Front(s) \in Seq(AllPaths) /\ Last(s) \in AllPaths /\ Len(s) \in Nat \ {0} /\ DOMAIN s = 1..Len(s)
          /\ DOMAIN Front(s) = 1..(Len(s) - 1) /\ Last(s) = s[Len(s)]
          /\ \A k \in 1..(Len(s) - 1) : Front(s)[k] = s[k]
          /\ Range(Front(s)) = Range(s) \ {Last(s)}
      BY ONLY <2>2, s \in Seq(AllPaths), FrontFacts
    <2> QED  BY ONLY <2>1, <2>2, <2>3
  <1>5. q \in DOMAIN f.desired /\ q \in Range(f.applied)
    <2>1. Len(f.applied) \in DOMAIN f.applied
      BY <1>4
    <2> QED  BY <2>1, <1>2, <1>4 DEF FileCallOK, Range
  <1>6. PICK g : g = [f EXCEPT !.applied = ap]
    OBVIOUS
  <1>7. g \in FileCallRecords
    BY <1>2, <1>4, <1>6 DEF FileCallRecords
  <1>8. /\ g.pc = "rollback" /\ g.ops = f.ops /\ g.todo = f.todo /\ g.desired = f.desired /\ g.snapshot = f.snapshot
        /\ g.keys = f.keys /\ g.applied = ap
    BY <1>2, <1>6 DEF FileCallRecords
  <1>9. FileCallOK(g)
    <2>1. \A k \in DOMAIN ap : k \in DOMAIN f.applied /\ ap[k] = f.applied[k]
      BY <1>4
    <2> QED  BY <2>1, <1>2, <1>8 DEF FileCallOK
  <1>10. fcall' = [fcall EXCEPT ![c] = g] /\ fcall'[c] = g /\ \A e \in FileCalls \ {c} : fcall'[e] = fcall[e]
    BY <1>1, <1>2, <1>4, <1>6
  <1>11. tree' = (IF ok THEN [tree EXCEPT ![q] = f.snapshot[q]] ELSE tree) /\ tree' \in [AllPaths -> FileTexts]
    BY <1>1, <1>2, <1>5
  <1>12. ASSUME NEW CONSTANT p \in DOMAIN g.desired  PROVE PlannedFile(c, g, p)'
    <2>1. PlannedFile(c, f, p) /\ p \in AllPaths
      BY <1>2, <1>8
    <2>2. ASSUME NEW CONSTANT h \in SUBSET FileCalls, Settled(h)  PROVE Settled(h)'
      BY <2>2, <1>10 DEF Settled
    <2>3. p \in MemoryPaths => Settled(f.desired[p].has \ {c})' /\ Settled(f.snapshot[p].has)'
      BY <2>1, <2>2, <1>2, <1>8 DEF PlannedFile, FileTexts
    <2>4. p \in MemoryPaths /\ p \in Range(g.applied) => tree'[p] = f.desired[p]
      BY <2>1, <1>1, <1>4, <1>8, <1>11 DEF PlannedFile
    <2> QED  BY <2>1, <2>3, <2>4, <1>8 DEF PlannedFile, Settled
  <1>13. TextsKnown'
    <2> SUFFICES ASSUME NEW CONSTANT p \in MemoryPaths, NEW CONSTANT d \in tree'[p].has \ torn'
                 PROVE  \/ fcall'[d].pc = "done"
                        \/ fcall'[d].pc \in {"commit", "rollback"} /\ p \in Range(fcall'[d].applied)
      BY DEF TextsKnown, Range
    <2>1. d \in FileCalls /\ d \notin torn /\ p \in AllPaths
      BY <1>11 DEF FileTexts, AllPaths
    <2>2. CASE p = q /\ ok
      <3>1. d \in f.snapshot[q].has /\ Settled(f.snapshot[q].has)
        BY <2>2, <1>1, <1>2, <1>5, <1>11 DEF PlannedFile
      <3>2. fcall[d].pc = "done"
        BY <3>1, <2>1 DEF Settled
      <3> QED  BY <3>2, <2>1, <1>10
    <2>3. CASE ~(p = q /\ ok)
      <3>1. \/ fcall[d].pc = "done"
            \/ fcall[d].pc \in {"commit", "rollback"} /\ p \in Range(fcall[d].applied)
        BY <2>1, <2>3, <1>1, <1>11 DEF CommitInv, TextsKnown
      <3>2. CASE d = c
        <4>1. ok /\ p # q
          BY <3>2, <2>3
        <4> QED  BY <3>1, <3>2, <4>1, <1>2, <1>4, <1>8, <1>10
      <3>3. CASE d # c
        BY <3>1, <3>3, <2>1, <1>10
      <3> QED  BY <3>2, <3>3
    <2> QED  BY <2>2, <2>3
  <1>14. lease' = (IF g.pc \in Committing \/ lease # c THEN lease ELSE Free) /\ torn' \in {torn, torn \cup {c}}
         /\ \A p \in AllPaths : tree'[p] # tree[p] => p \in DOMAIN f.desired /\ WholeFile(tree'[p])
    BY <1>1, <1>2, <1>5, <1>8, <1>11 DEF Committing, PlannedFile
  <1>30. CommitInv /\ c \in FileCalls /\ faults' \in [write : Nat, crash : Nat]
    OBVIOUS
  <1> QED  BY ONLY <1>30, <1>1, <1>2, <1>7, <1>8, <1>9, <1>10, <1>11, <1>12, <1>13, <1>14, CallStep

LEMMA CrashKeepsFiles == CommitInv /\ CrashFiles => CommitInv'
  <1> SUFFICES ASSUME CommitInv, CrashFiles  PROVE CommitInv'
    OBVIOUS
  <1>1. \A c \in FileCalls : fcall'[c] \in FileCallRecords /\ fcall'[c].pc \notin Committing
                             /\ (fcall[c].pc = "done" => fcall'[c].pc = "done")
    <2> SUFFICES ASSUME NEW CONSTANT c \in FileCalls
                 PROVE  fcall'[c] \in FileCallRecords /\ fcall'[c].pc \notin Committing
                        /\ (fcall[c].pc = "done" => fcall'[c].pc = "done")
      OBVIOUS
    <2>1. PICK f \in FileCallRecords : f = fcall[c]
      BY DEF CommitInv, FilesTyped
    <2>2. PICK g : g = [f EXCEPT !.pc = "lost"]
      OBVIOUS
    <2>3. g \in FileCallRecords /\ g.pc = "lost"
      BY <2>2 DEF FileCallRecords
    <2>4. fcall'[c] = IF f.pc \in {"idle", "done", "failed"} THEN f ELSE g
      BY <2>1, <2>2 DEF CrashFiles
    <2> QED  BY <2>1, <2>3, <2>4 DEF Committing
  <1>2. /\ lease' = Free /\ torn' = torn \cup {c \in FileCalls : fcall[c].pc \in {"commit", "rollback"}}
        /\ tree' = [p \in AllPaths |-> ensureSeedFile(p)]
        /\ fcall' \in [FileCalls -> FileCallRecords] /\ faults' \in [write : Nat, crash : Nat]
    BY <1>1 DEF CrashFiles, CommitInv, FilesTyped
  <1>3. \A p \in AllPaths : tree'[p] \in FileTexts /\ (tree'[p] = tree[p] \/ tree'[p].has = {}) /\ WholeFile(tree'[p])
    BY <1>2 DEF ensureSeedFile, CommitInv, FilesTyped, FileTexts, WholeTree, WholeFile
  <1>4. FilesTyped'
    BY <1>2, <1>3 DEF CommitInv, FilesTyped
  <1>5. LeaseHeld' /\ PlansHold'
    BY <1>1 DEF LeaseHeld, PlansHold
  <1>6. TextsKnown'
    BY <1>1, <1>2, <1>3 DEF CommitInv, TextsKnown, FilesTyped, FileTexts, AllPaths
  <1>7. WholeTree'
    BY <1>3 DEF WholeTree, WholeFile
  <1> QED  BY <1>4, <1>5, <1>6, <1>7 DEF CommitInv

LEMMA TouchedOne ==
    ASSUME NEW CONSTANT op \in FileOps
    PROVE  Touched(<<op>>) = {op.path} \cup ({op.to} \ {""}) /\ Touched(<<op>>) \subseteq AllPaths
  <1>1. PICK s : s = <<op>>
    OBVIOUS
  <1>2. DOMAIN s = {1} /\ s[1] = op
    BY <1>1
  <1>3. Touched(s) = {op.path} \cup ({op.to} \ {""})
    BY <1>2 DEF Touched
  <1> QED  BY <1>1, <1>3 DEF FileOps

LEMMA MergedMap ==
    ASSUME NEW CONSTANT v \in FileMaps, NEW CONSTANT w \in FileMaps
    PROVE  /\ Overlay(v, w) \in FileMaps /\ DOMAIN Overlay(v, w) = DOMAIN v \cup DOMAIN w
           /\ \A p \in DOMAIN v : Overlay(v, w)[p] = v[p]
           /\ \A p \in DOMAIN w \ DOMAIN v : Overlay(v, w)[p] = w[p]
  <1>1. PICK u : u = Overlay(v, w)
    OBVIOUS
  <1>3. DOMAIN v \cup DOMAIN w \in SUBSET AllPaths /\ u \in [DOMAIN v \cup DOMAIN w -> FileTexts]
    BY <1>1 DEF FileMaps, Overlay
  <1>4. u \in FileMaps
    BY <1>3 DEF FileMaps
  <1>5. /\ DOMAIN u = DOMAIN v \cup DOMAIN w /\ (\A p \in DOMAIN v : u[p] = v[p])
        /\ \A p \in DOMAIN w \ DOMAIN v : u[p] = w[p]
    BY <1>1 DEF Overlay
  <1> QED  BY <1>1, <1>4, <1>5

\* What an operation wants: a change of the file, or a replacement of it.
LEMMA WantedFacts ==
    ASSUME FilesTyped, WholeTree, NEW CONSTANT c \in FileCalls, NEW CONSTANT op \in FileOps, ~Refuses(c, op),
           \A m \in MemoryPaths \cap Touched(<<op>>) : Settled(tree[m].has)
    PROVE  \E w \in FileMaps :
              /\ w = Wanted(c, op) /\ DOMAIN w \subseteq Touched(<<op>>) /\ op.path \in DOMAIN w
              /\ \A p \in DOMAIN w :
                    /\ WholeFile(w[p]) /\ (p \in MemoryPaths => Settled(w[p].has \ {c}))
                    /\ \/ w[p].has \subseteq tree[p].has \cup {c} /\ tree[p].has \subseteq w[p].has
                       \/ Replaces(op, p)
  <1>1. op.path \in AllPaths /\ op.to \in AllPaths \cup {""} /\ op.kind \in {"add", "write", "delete", "update"}
    BY DEF FileOps
  <1>2. Touched(<<op>>) = {op.path} \cup ({op.to} \ {""}) /\ Touched(<<op>>) \subseteq AllPaths
    BY TouchedOne
  <1>3. tree[op.path] \in FileTexts
    BY <1>1 DEF FilesTyped
  <1>4. PICK a \in FileTexts, b \in FileTexts, e \in FileTexts :
           /\ a = WrittenText(c) /\ b = Missing /\ e = EditedText(c, op.path)
           /\ a.has = {c} /\ a.there /\ b.has = {} /\ e.there /\ e.has = tree[op.path].has \cup {c}
    <2>1. tree[op.path].has \cup {c} \in SUBSET FileCalls /\ {c} \in SUBSET FileCalls
      BY <1>3 DEF FileTexts
    <2>2. WrittenText(c) \in FileTexts /\ Missing \in FileTexts /\ EditedText(c, op.path) \in FileTexts
      BY <2>1 DEF WrittenText, Missing, EditedText, FileTexts
    <2>3. /\ WrittenText(c).has = {c} /\ WrittenText(c).there /\ Missing.has = {}
          /\ EditedText(c, op.path).there /\ EditedText(c, op.path).has = tree[op.path].has \cup {c}
      BY DEF WrittenText, Missing, EditedText
    <2> QED  BY <2>2, <2>3
  <1>5. WholeFile(a) /\ WholeFile(b) /\ WholeFile(e) /\ Settled(a.has \ {c}) /\ Settled(b.has \ {c})
    BY <1>4 DEF WholeFile, Settled
  <1>6. op.path \in MemoryPaths => Settled(e.has \ {c})
    BY <1>2, <1>4 DEF Settled
  <1>7. PICK D : D = IF op.kind = "update" THEN Touched(<<op>>) ELSE {op.path}
    OBVIOUS
  <1>11. PICK w : w = Wanted(c, op)
    OBVIOUS
  <1>12. w = [p \in D |-> CASE op.kind \in {"add", "write"} -> WrittenText(c)
                            [] op.kind = "delete" \/ (op.kind = "update" /\ op.to \notin {"", p}) -> Missing
                            [] OTHER -> EditedText(c, op.path)]
    BY <1>7, <1>11 DEF Wanted
  <1>13. D \in SUBSET AllPaths /\ D \subseteq Touched(<<op>>) /\ DOMAIN w = D /\ op.path \in D
    BY <1>1, <1>2, <1>7, <1>12
  <1>14. ASSUME NEW p \in D
         PROVE  w[p] = IF op.kind \in {"add", "write"} THEN a
                       ELSE IF op.kind = "delete" \/ op.to \notin {"", p} THEN b ELSE e
    <2>1. w[p] = CASE op.kind \in {"add", "write"} -> WrittenText(c)
                   [] op.kind = "delete" \/ (op.kind = "update" /\ op.to \notin {"", p}) -> Missing
                   [] OTHER -> EditedText(c, op.path)
      BY <1>12
    <2>2. CASE op.kind \in {"add", "write"}
      BY <2>1, <2>2, <1>4
    <2>3. CASE op.kind \notin {"add", "write"} /\ (op.kind = "delete" \/ op.to \notin {"", p})
      BY <2>1, <2>3, <1>1, <1>4
    <2>4. CASE op.kind \notin {"add", "write"} /\ ~(op.kind = "delete" \/ op.to \notin {"", p})
      BY <2>1, <2>4, <1>1, <1>4
    <2> QED  BY <2>2, <2>3, <2>4
  <1>8. w \in [D -> FileTexts]
    BY <1>12, <1>13, <1>14
  <1>9. w \in FileMaps
    BY <1>8, <1>13 DEF FileMaps
  <1>10. ASSUME NEW CONSTANT p \in D
         PROVE  /\ WholeFile(w[p]) /\ (p \in MemoryPaths => Settled(w[p].has \ {c}))
                /\ \/ w[p].has \subseteq tree[p].has \cup {c} /\ tree[p].has \subseteq w[p].has
                   \/ Replaces(op, p)
    <2>1. p \in {op.path, op.to} /\ w[p] = IF op.kind \in {"add", "write"} THEN a
                                           ELSE IF op.kind = "delete" \/ op.to \notin {"", p} THEN b ELSE e
      BY <1>2, <1>13, <1>14
    <2>2. CASE op.kind \in {"add", "write"}
      BY <2>1, <2>2, <1>5 DEF Replaces
    <2>3. CASE op.kind = "delete"
      BY <2>1, <2>3, <1>5 DEF Replaces
    <2>4. CASE op.kind = "update" /\ op.to = ""
      <3>1. p = op.path /\ w[p] = e
        BY <1>2, <1>7, <2>1, <2>4
      <3> QED  BY <3>1, <1>4, <1>5, <1>6
    <2>5. CASE op.kind = "update" /\ op.to # ""
      <3>1. Replaces(op, p) /\ w[p] = IF op.to # p THEN b ELSE e
        BY <2>1, <2>5 DEF Replaces
      <3>2. op.to \in MemoryPaths => op.path \in MemoryPaths
        BY <2>5 DEF Refuses, RootOf
      <3> QED  BY <3>1, <3>2, <1>5, <1>6
    <2> QED  BY <1>1, <2>2, <2>3, <2>4, <2>5
  <1> QED  BY <1>9, <1>10, <1>11, <1>13

\* Under its lease, a call that plans reads only texts of calls that are done.
LEMMA ReadsSettled ==
    ASSUME CommitInv, NEW CONSTANT c \in FileCalls, fcall[c].pc = "plan",
           NEW CONSTANT m \in MemoryPaths \cap Touched(fcall[c].ops)
    PROVE  Settled(tree[m].has)
  <1> SUFFICES ASSUME NEW CONSTANT d \in tree[m].has \ torn  PROVE fcall[d].pc = "done"
    BY DEF Settled
  <1>1. d \in FileCalls /\ lease = c
    BY DEF CommitInv, FilesTyped, FileTexts, AllPaths, LeaseHeld, Committing
  <1>2. CASE fcall[d].pc \in {"commit", "rollback"} /\ m \in Range(fcall[d].applied)
    <2>1. fcall[d].pc \in Committing
      BY <1>2 DEF Committing
    <2>2. FileCallOK(fcall[d])
      BY <2>1, <1>1 DEF CommitInv, PlansHold
    <2>3. m \in Touched(fcall[d].ops)
      BY <2>2, <1>2 DEF FileCallOK, Range
    <2>4. lease = d
      BY <2>1, <2>3, <1>1 DEF CommitInv, LeaseHeld
    <2> QED  BY <2>4, <1>1, <1>2
  <1> QED  BY <1>2 DEF CommitInv, TextsKnown

LEMMA PlanOpKeeps ==
    ASSUME CommitInv, NEW CONSTANT c \in FileCalls, NEW CONSTANT op, op = Head(fcall[c].todo),
           fcall[c].pc = "plan", fcall[c].todo # <<>>, ~Refuses(c, op),
           fcall' = [fcall EXCEPT ![c].todo = Tail(@), ![c].desired = Overlay(Wanted(c, op), @),
                                  ![c].snapshot = Overlay([p \in Touched(<<op>>) |-> tree[p]], @)],
           UNCHANGED <<tree, lease, torn, faults>>
    PROVE  CommitInv'
  <1>1. fcall \in [FileCalls -> FileCallRecords] /\ fcall[c].pc \in Committing /\ tree \in [AllPaths -> FileTexts]
    BY DEF CommitInv, FilesTyped, Committing
  <1>2. PICK f \in FileCallRecords :
              /\ f = fcall[c] /\ f.pc = fcall[c].pc /\ FileCallOK(f)
              /\ \A p \in DOMAIN f.desired : p \in AllPaths /\ f.desired[p] \in FileTexts /\ f.snapshot[p] \in FileTexts
              /\ \A p \in DOMAIN f.desired : PlannedFile(c, f, p)
    BY <1>1, CallFacts
  <1>3. f.ops \in Seq(FileOps) /\ f.todo \in Seq(FileOps) /\ f.desired \in FileMaps /\ f.snapshot \in FileMaps
    BY <1>2 DEF FileCallRecords
  <1>4. PICK rest \in Seq(FileOps) :
           /\ rest = Tail(f.todo) /\ op \in FileOps /\ op = f.todo[1] /\ 1 \in DOMAIN f.todo
           /\ \A k \in DOMAIN rest : k + 1 \in DOMAIN f.todo /\ rest[k] = f.todo[k + 1]
    <2>1. PICK s \in Seq(FileOps) : s = f.todo /\ s # <<>> /\ op = Head(s)
      BY <1>2, <1>3
    <2>2. /\ Tail(s) \in Seq(FileOps) /\ op \in FileOps /\ op = s[1] /\ 1 \in DOMAIN s
          /\ \A k \in DOMAIN Tail(s) : k + 1 \in DOMAIN s /\ Tail(s)[k] = s[k + 1]
      BY ONLY <2>1
    <2> QED  BY ONLY <2>1, <2>2
  <1>5. PICK i \in DOMAIN f.ops : op = f.ops[i]
    BY <1>2, <1>4 DEF FileCallOK
  <1>6. Touched(<<op>>) = {op.path} \cup ({op.to} \ {""}) /\ Touched(<<op>>) \subseteq AllPaths
        /\ Touched(<<op>>) \subseteq Touched(f.ops)
    <2>1. Touched(<<op>>) = {op.path} \cup ({op.to} \ {""}) /\ Touched(<<op>>) \subseteq AllPaths
      BY <1>4, TouchedOne
    <2> QED  BY <2>1, <1>5 DEF Touched
  <1>7. \A m \in MemoryPaths \cap Touched(<<op>>) : Settled(tree[m].has)
    BY <1>2, <1>6, ReadsSettled
  <1>8. PICK w \in FileMaps :
              /\ w = Wanted(c, op) /\ DOMAIN w \subseteq Touched(<<op>>) /\ op.path \in DOMAIN w
              /\ \A p \in DOMAIN w :
                    /\ WholeFile(w[p]) /\ (p \in MemoryPaths => Settled(w[p].has \ {c}))
                    /\ \/ w[p].has \subseteq tree[p].has \cup {c} /\ tree[p].has \subseteq w[p].has
                       \/ Replaces(op, p)
    BY <1>4, <1>7, WantedFacts DEF CommitInv
  <1>9. PICK r \in FileMaps : r = [p \in Touched(<<op>>) |-> tree[p]] /\ DOMAIN r = Touched(<<op>>)
                              /\ \A p \in Touched(<<op>>) : r[p] = tree[p]
    <2>1. [p \in Touched(<<op>>) |-> tree[p]] \in [Touched(<<op>>) -> FileTexts]
      BY <1>1, <1>6
    <2>2. PICK S \in SUBSET AllPaths : S = Touched(<<op>>)
      BY <1>6
    <2>3. PICK r : r = [p \in S |-> tree[p]]
      OBVIOUS
    <2>4. r \in FileMaps
      BY ONLY <2>1, <2>2, <2>3 DEF FileMaps
    <2> QED  BY <2>2, <2>3, <2>4
  <1>10. PICK want \in FileMaps : /\ want = Overlay(w, f.desired) /\ DOMAIN want = DOMAIN w \cup DOMAIN f.desired
                                  /\ \A p \in DOMAIN w : want[p] = w[p]
                                  /\ \A p \in DOMAIN f.desired \ DOMAIN w : want[p] = f.desired[p]
    <2>1. PICK v \in FileMaps, d \in FileMaps : v = w /\ d = f.desired
      BY <1>3
    <2>2. /\ Overlay(v, d) \in FileMaps /\ DOMAIN Overlay(v, d) = DOMAIN v \cup DOMAIN d
          /\ \A p \in DOMAIN v : Overlay(v, d)[p] = v[p]
          /\ \A p \in DOMAIN d \ DOMAIN v : Overlay(v, d)[p] = d[p]
      BY ONLY MergedMap, v \in FileMaps, d \in FileMaps
    <2> QED  BY ONLY <2>1, <2>2
  <1>11. PICK snap \in FileMaps : /\ snap = Overlay(r, f.snapshot) /\ DOMAIN snap = DOMAIN r \cup DOMAIN f.snapshot
                                  /\ \A p \in DOMAIN r : snap[p] = r[p]
                                  /\ \A p \in DOMAIN f.snapshot \ DOMAIN r : snap[p] = f.snapshot[p]
    <2>1. PICK v \in FileMaps, d \in FileMaps : v = r /\ d = f.snapshot
      BY <1>3
    <2>2. /\ Overlay(v, d) \in FileMaps /\ DOMAIN Overlay(v, d) = DOMAIN v \cup DOMAIN d
          /\ \A p \in DOMAIN v : Overlay(v, d)[p] = v[p]
          /\ \A p \in DOMAIN d \ DOMAIN v : Overlay(v, d)[p] = d[p]
      BY ONLY MergedMap, v \in FileMaps, d \in FileMaps
    <2> QED  BY ONLY <2>1, <2>2
  <1>12. PICK g : g = [f EXCEPT !.todo = rest, !.desired = want, !.snapshot = snap]
    OBVIOUS
  <1>13. g \in FileCallRecords
    BY <1>2, <1>12 DEF FileCallRecords
  <1>14. /\ g.pc = "plan" /\ g.ops = f.ops /\ g.todo = rest /\ g.desired = want /\ g.snapshot = snap
         /\ g.keys = f.keys /\ g.applied = f.applied
    BY <1>2, <1>12 DEF FileCallRecords
  <1>15. f.applied = <<>> /\ f.keys = {} /\ FileCallOK(g)
    <2>1. f.applied = <<>> /\ f.keys = {}
      BY <1>2 DEF FileCallOK
    <2>2. DOMAIN want \subseteq DOMAIN snap /\ DOMAIN snap \subseteq Touched(g.ops)
      BY <1>2, <1>6, <1>8, <1>9, <1>10, <1>11, <1>14 DEF FileCallOK
    <2>3. \A k \in DOMAIN rest : \E j \in DOMAIN f.ops : rest[k] = f.ops[j]
      BY <1>2, <1>4 DEF FileCallOK
    <2> QED  BY <2>1, <2>2, <2>3, <1>14, EmptyMap DEF FileCallOK
  <1>16. fcall' = [fcall EXCEPT ![c] = g]
    BY <1>1, <1>2, <1>4, <1>8, <1>9, <1>10, <1>11, <1>12
  <1>17. fcall'[c] = g /\ (\A e \in FileCalls \ {c} : fcall'[e] = fcall[e])
    BY <1>1, <1>16
  <1>18. ASSUME NEW CONSTANT p \in DOMAIN g.desired  PROVE PlannedFile(c, g, p)'
    <2>1. ASSUME NEW CONSTANT h \in SUBSET FileCalls, Settled(h)  PROVE Settled(h)'
      BY <2>1, <1>1, <1>2, <1>17 DEF Settled
    <2>2. CASE p \in DOMAIN w
      <3>1. want[p] = w[p] /\ snap[p] = tree[p] /\ p \in AllPaths /\ w[p] \in FileTexts /\ tree[p] \in FileTexts
        <4>1. p \in Touched(<<op>>) /\ p \in DOMAIN r /\ p \in AllPaths
          BY <2>2, <1>6, <1>8, <1>9
        <4>2. w[p] \in FileTexts
          BY ONLY <2>2, w \in FileMaps DEF FileMaps
        <4> QED  BY <2>2, <4>1, <4>2, <1>1, <1>9, <1>10, <1>11
      <3>2. p \in MemoryPaths => Settled(w[p].has \ {c})' /\ Settled(tree[p].has)'
        BY <2>1, <2>2, <3>1, <1>7, <1>8 DEF FileTexts
      <3>3. WholeFile(w[p]) /\ WholeFile(tree[p])
        BY <2>2, <3>1, <1>8 DEF CommitInv, WholeTree
      <3>4. \/ w[p].has \subseteq tree[p].has \cup {c} /\ tree[p].has \subseteq w[p].has
            \/ \E k \in DOMAIN g.ops : Replaces(g.ops[k], p)
        BY <2>2, <1>5, <1>8, <1>14
      <3>5. tree' = tree /\ p \notin Range(g.applied)
        BY <1>14, <1>15, EmptyMap DEF Range
      <3> QED  BY <3>1, <3>2, <3>3, <3>4, <3>5, <1>14 DEF PlannedFile, Settled
    <2>3. CASE p \in DOMAIN f.desired \ DOMAIN w
      <3>1. p \in AllPaths /\ p \in DOMAIN f.snapshot /\ want[p] = f.desired[p] /\ PlannedFile(c, f, p)
            /\ f.desired[p] \in FileTexts /\ f.snapshot[p] \in FileTexts /\ tree[p] \in FileTexts
        BY <2>3, <1>1, <1>2, <1>10 DEF FileCallOK
      <3>2. PICK s \in FileTexts : s = snap[p] /\ s = IF p \in Touched(<<op>>) THEN tree[p] ELSE f.snapshot[p]
        BY <3>1, <1>9, <1>11
      <3>3. p \in MemoryPaths => s = f.snapshot[p] /\ tree[p] = s
        BY <3>1, <3>2, <1>2, <1>15, EmptyMap DEF PlannedFile, Range
      <3>4. p \in MemoryPaths => Settled(f.desired[p].has \ {c})' /\ Settled(s.has)'
        BY <2>1, <3>1, <3>2, <3>3 DEF FileTexts, PlannedFile
      <3>5. WholeFile(f.desired[p]) /\ WholeFile(s)
        BY <3>1, <3>2 DEF PlannedFile, CommitInv, WholeTree
      <3>6. p \in Touched(<<op>>) => \E k \in DOMAIN g.ops : Replaces(g.ops[k], p)
        <4> SUFFICES ASSUME p \in Touched(<<op>>)  PROVE Replaces(op, p)
          BY <1>5, <1>14
        <4>1. p = op.to /\ op.to # ""
          BY <2>3, <1>6, <1>8
        <4> QED  BY <4>1 DEF Replaces
      <3>7. \/ f.desired[p].has \subseteq s.has \cup {c} /\ s.has \subseteq f.desired[p].has
            \/ \E k \in DOMAIN g.ops : Replaces(g.ops[k], p)
        BY <3>1, <3>2, <3>6, <1>14 DEF PlannedFile
      <3>8. tree' = tree /\ p \notin Range(g.applied)
        BY <1>14, <1>15, EmptyMap DEF Range
      <3> QED  BY <3>1, <3>2, <3>3, <3>4, <3>5, <3>7, <3>8, <1>14 DEF PlannedFile, Settled
    <2> QED  BY <2>2, <2>3, <1>10, <1>14
  <1>19. TextsKnown'
    BY <1>1, <1>2, <1>17 DEF CommitInv, TextsKnown, FileTexts, AllPaths
  <1>20. lease' = (IF g.pc \in Committing \/ lease # c THEN lease ELSE Free) /\ torn' \in {torn, torn \cup {c}}
         /\ tree' \in [AllPaths -> FileTexts] /\ faults' \in [write : Nat, crash : Nat]
         /\ \A p \in AllPaths : tree'[p] # tree[p] => p \in DOMAIN f.desired /\ WholeFile(tree'[p])
    BY <1>1, <1>14 DEF CommitInv, FilesTyped, Committing
  <1>30. CommitInv /\ c \in FileCalls
    OBVIOUS
  <1> QED  BY ONLY <1>30, <1>1, <1>2, <1>13, <1>14, <1>15, <1>16, <1>18, <1>19, <1>20, CallStep

LEMMA CommitStep == CommitInv /\ [CommitNext]_fcVars => CommitInv'
  <1> SUFFICES ASSUME CommitInv, [CommitNext]_fcVars  PROVE CommitInv'
    OBVIOUS
  <1>1. ASSUME NEW CONSTANT c \in FileCalls, NEW CONSTANT ops \in Plans, Begin(c, ops)  PROVE CommitInv'
    BY <1>1, BeginKeeps
  <1>2. ASSUME NEW CONSTANT c \in FileCalls, PlanOp(c)  PROVE CommitInv'
    <2>1. PICK op : op = Head(fcall[c].todo)
      OBVIOUS
    <2>2. fcall[c].pc = "plan" /\ fcall[c].todo # <<>> /\ UNCHANGED <<tree, loaded, torn, faults>>
          /\ fcall[c].pc \in Committing
      BY <1>2 DEF PlanOp, Committing
    <2>3. CASE Refuses(c, op)
      <3>1. Ends(c, "failed")
        BY <1>2, <2>1, <2>3 DEF PlanOp
      <3>2. fcall[c].applied = <<>> /\ faults \in [write : Nat, crash : Nat]
        BY <2>2 DEF CommitInv, PlansHold, FileCallOK, FilesTyped
      <3> QED  BY <2>2, <3>1, <3>2, EndKeepsFiles
    <2>4. CASE ~Refuses(c, op)
      <3>1. /\ fcall' = [fcall EXCEPT ![c].todo = Tail(@), ![c].desired = Overlay(Wanted(c, op), @),
                                      ![c].snapshot = Overlay([p \in Touched(<<op>>) |-> tree[p]], @)]
            /\ UNCHANGED lease
        BY <1>2, <2>1, <2>4 DEF PlanOp
      <3> QED  BY <2>1, <2>2, <2>4, <3>1, PlanOpKeeps
    <2> QED  BY <2>3, <2>4
  <1>3. ASSUME NEW CONSTANT c \in FileCalls, PlanEnds(c)  PROVE CommitInv'
    BY <1>3, PlanEndsKeeps
  <1>4. ASSUME NEW CONSTANT c \in FileCalls, commitDesiredStates(c)  PROVE CommitInv'
    <2>1. fcall[c].pc = "commit" /\ fcall[c].pc \in Committing
      BY <1>4 DEF commitDesiredStates, Committing
    <2>2. CASE fcall[c].keys = {} /\ Ends(c, "done") /\ UNCHANGED <<tree, torn, faults>>
      <3>1. faults' \in [write : Nat, crash : Nat]
        BY <2>2 DEF CommitInv, FilesTyped
      <3> QED  BY <2>1, <2>2, <3>1, EndKeepsFiles
    <2>4. CASE Fault(FALSE) /\ Ends(c, "failed") /\ torn' = LeftTorn(c) /\ UNCHANGED tree
      <3>1. faults' \in [write : Nat, crash : Nat]
        BY <2>4 DEF Fault, CommitInv, FilesTyped
      <3>2. torn' \in {torn, torn \cup {c}} /\ (fcall[c].applied = <<>> \/ c \in torn')
        BY <2>4 DEF LeftTorn
      <3> QED  BY <2>1, <2>4, <3>1, <3>2, EndKeepsFiles
    <2>3. ASSUME NEW CONSTANT p \in fcall[c].keys, NEW CONSTANT ok \in BOOLEAN,
                 Fault(ok), writeAtomic(p, fcall[c].desired[p], ok), UNCHANGED <<lease, torn>>,
                 fcall' = IF ok THEN [fcall EXCEPT ![c].keys = @ \ {p}, ![c].applied = Append(@, p)]
                          ELSE [fcall EXCEPT ![c].pc = "rollback"]
          PROVE  CommitInv'
      <3>1. faults' \in [write : Nat, crash : Nat]
        BY <2>3 DEF Fault, CommitInv, FilesTyped
      <3>2. CASE ok
        <4>1. tree' = [tree EXCEPT ![p] = fcall[c].desired[p]]
              /\ fcall' = [fcall EXCEPT ![c].keys = @ \ {p}, ![c].applied = Append(@, p)]
          BY <2>3, <3>2 DEF writeAtomic
        <4> QED  BY <2>1, <2>3, <3>1, <4>1, WriteFileKeeps
      <3>3. CASE ~ok
        <4>1. tree' = tree /\ fcall' = [fcall EXCEPT ![c].pc = "rollback"]
          BY <2>3, <3>3 DEF writeAtomic
        <4> QED  BY <2>1, <2>3, <3>1, <4>1, FaultyWriteKeeps
      <3> QED  BY <3>2, <3>3
    <2> QED  BY <1>4, <2>2, <2>3, <2>4 DEF commitDesiredStates
  <1>5. ASSUME NEW CONSTANT c \in FileCalls, rollbackDesiredStates(c)  PROVE CommitInv'
    <2>1. fcall[c].pc = "rollback" /\ fcall[c].pc \in Committing
      BY <1>5 DEF rollbackDesiredStates, Committing
    <2>2. CASE fcall[c].applied = <<>>
      <3>1. Ends(c, "failed") /\ tree' = tree /\ torn' = torn /\ faults' \in [write : Nat, crash : Nat]
        BY <1>5, <2>2 DEF rollbackDesiredStates, CommitInv, FilesTyped
      <3> QED  BY <2>1, <2>2, <3>1, EndKeepsFiles
    <2>3. CASE fcall[c].applied # <<>>
      <3>1. PICK q : q = Last(fcall[c].applied)
        OBVIOUS
      <3>2. PICK ok \in BOOLEAN :
               /\ Fault(ok) /\ writeAtomic(q, Undone(c, q), ok) /\ UNCHANGED lease
               /\ torn' = IF ok THEN torn ELSE torn \cup {c}
               /\ fcall' = [fcall EXCEPT ![c].applied = Front(@)]
        BY <1>5, <2>3, <3>1 DEF rollbackDesiredStates
      <3>3. faults' \in [write : Nat, crash : Nat]
        BY <3>2 DEF Fault, CommitInv, FilesTyped
      <3>4. tree' = IF ok THEN [tree EXCEPT ![q] = fcall[c].snapshot[q]] ELSE tree
        BY <3>2 DEF writeAtomic, Undone
      <3> QED  BY <2>1, <2>3, <3>1, <3>2, <3>3, <3>4, UndoKeeps
    <2> QED  BY <2>2, <2>3
  <1>6. CASE LoadCoreMemory \/ UNCHANGED fcVars
    <2>1. UNCHANGED <<tree, fcall, lease, torn, faults>>
      BY <1>6 DEF LoadCoreMemory, fcVars
    <2> QED  BY <2>1 DEF CommitInv, FilesTyped, LeaseHeld, PlansHold, PlannedFile, Settled, TextsKnown, WholeTree
  <1>7. CASE CrashFiles
    BY <1>7, CrashKeepsFiles
  <1> QED  BY <1>1, <1>2, <1>3, <1>4, <1>5, <1>6, <1>7 DEF CommitNext

LEMMA NotTorn == CommitInv /\ [CommitNext]_fcVars => CoreMemoryIsNotTorn
  <1> SUFFICES ASSUME CommitInv, [CommitNext]_fcVars, loaded' # loaded, NEW CONSTANT c \in FileCalls,
                      fcall[c].pc \in {"commit", "rollback"}
               PROVE  Range(fcall[c].applied) \cap CorePaths = {}
    BY DEF CoreMemoryIsNotTorn
  <1>1. \A d \in FileCalls, ops \in Plans : Begin(d, ops) => loaded' = loaded
    BY DEF Begin
  <1>2. \A d \in FileCalls : PlanOp(d) \/ PlanEnds(d) \/ commitDesiredStates(d) \/ rollbackDesiredStates(d) => loaded' = loaded
    BY DEF PlanOp, PlanEnds, commitDesiredStates, rollbackDesiredStates
  <1>3. LoadCoreMemory
    BY <1>1, <1>2 DEF CommitNext, CrashFiles, fcVars
  <1>4. lease = Free /\ lease # c
    BY <1>3, CommitAssumption DEF LoadCoreMemory
  <1>5. FileCallOK(fcall[c]) /\ Touched(fcall[c].ops) \cap MemoryPaths = {}
    BY <1>4 DEF CommitInv, PlansHold, LeaseHeld, Committing
  <1>6. PICK f : f = fcall[c]
    OBVIOUS
  <1>7. Range(f.applied) \subseteq Touched(f.ops)
    BY <1>5, <1>6 DEF FileCallOK, Range
  <1>8. CorePaths \subseteq MemoryPaths
    BY CommitAssumption
  <1> QED  BY <1>5, <1>6, <1>7, <1>8

LEMMA AuthoredKept == CommitInv /\ [CommitNext]_fcVars => StartKeepsAuthored
  <1> SUFFICES ASSUME CommitInv, [CommitNext]_fcVars, faults'.crash # faults.crash
               PROVE  \A p \in AllPaths : tree[p].there => tree'[p] = tree[p]
    BY DEF StartKeepsAuthored
  <1>1. faults \in [write : Nat, crash : Nat]
    BY DEF CommitInv, FilesTyped
  <1>2. \A ok \in BOOLEAN : Fault(ok) => faults'.crash = faults.crash
    BY <1>1 DEF Fault
  <1>3. \A c \in FileCalls, ops \in Plans : ~Begin(c, ops) /\ ~PlanOp(c) /\ ~PlanEnds(c)
    BY DEF Begin, PlanOp, PlanEnds
  <1>4. \A c \in FileCalls : ~commitDesiredStates(c) /\ ~rollbackDesiredStates(c)
    BY <1>2 DEF commitDesiredStates, rollbackDesiredStates
  <1>5. CrashFiles
    BY <1>3, <1>4, CommitAssumption DEF CommitNext, LoadCoreMemory, fcVars, PlanOp, PlanEnds
  <1> QED  BY <1>5 DEF CrashFiles, ensureSeedFile

LEMMA EditsKept == CommitInv /\ [CommitNext]_fcVars => MemoryEditsAreKept
  <1> SUFFICES ASSUME CommitInv, [CommitNext]_fcVars, NEW CONSTANT p \in MemoryPaths, NEW CONSTANT c \in tree[p].has,
                      fcall[c].pc = "done", c \notin tree'[p].has
               PROVE  \E d \in FileCalls : \E k \in DOMAIN fcall[d].ops : Replaces(fcall[d].ops[k], p)
    BY DEF MemoryEditsAreKept, Replaces
  <1>1. tree'[p] # tree[p] /\ p \in AllPaths /\ tree \in [AllPaths -> FileTexts] /\ c \in FileCalls
    BY DEF AllPaths, CommitInv, FilesTyped, FileTexts
  <1>2. ASSUME NEW CONSTANT d \in FileCalls, commitDesiredStates(d)
        PROVE  \E k \in DOMAIN fcall[d].ops : Replaces(fcall[d].ops[k], p)
    <2>1. fcall[d].pc = "commit" /\ fcall[d].pc \in Committing
      BY <1>2 DEF commitDesiredStates, Committing
    <2>2. PICK f \in FileCallRecords :
              /\ f = fcall[d] /\ f.pc = fcall[d].pc /\ FileCallOK(f)
              /\ \A x \in DOMAIN f.desired : x \in AllPaths /\ f.desired[x] \in FileTexts /\ f.snapshot[x] \in FileTexts
              /\ \A x \in DOMAIN f.desired : PlannedFile(d, f, x)
      BY <2>1, CallFacts
    <2>3. PICK q \in f.keys, ok \in BOOLEAN : writeAtomic(q, f.desired[q], ok)
      BY <1>1, <1>2, <2>2 DEF commitDesiredStates
    <2>4. p = q /\ tree'[p] = f.desired[p]
      BY <1>1, <2>3 DEF writeAtomic
    <2>5. p \in f.keys /\ p \in DOMAIN f.desired /\ p \notin Range(f.applied) /\ f.pc # "rollback"
      BY <2>1, <2>2, <2>3, <2>4 DEF FileCallOK, Range
    <2>6. tree[p] = f.snapshot[p]
      BY <2>2, <2>5 DEF PlannedFile
    <2> QED  BY <2>2, <2>4, <2>5, <2>6 DEF PlannedFile
  <1>3. ASSUME NEW CONSTANT d \in FileCalls, rollbackDesiredStates(d)
        PROVE  \E k \in DOMAIN fcall[d].ops : Replaces(fcall[d].ops[k], p)
    <2>1. fcall[d].pc = "rollback" /\ fcall[d].pc \in Committing /\ fcall[d].applied # <<>>
      BY <1>1, <1>3 DEF rollbackDesiredStates, Committing
    <2>2. PICK f \in FileCallRecords :
              /\ f = fcall[d] /\ f.pc = fcall[d].pc /\ FileCallOK(f)
              /\ \A x \in DOMAIN f.desired : x \in AllPaths /\ f.desired[x] \in FileTexts /\ f.snapshot[x] \in FileTexts
              /\ \A x \in DOMAIN f.desired : PlannedFile(d, f, x)
      BY <2>1, CallFacts
    <2>3. PICK q : q = Last(f.applied)
      OBVIOUS
    <2>4. PICK ok \in BOOLEAN : writeAtomic(q, f.snapshot[q], ok)
      BY <1>3, <2>1, <2>2, <2>3 DEF rollbackDesiredStates, Undone
    <2>5. p = q /\ tree'[p] = f.snapshot[p]
      BY <1>1, <2>4 DEF writeAtomic
    <2>6. q \in Range(f.applied)
      <3>1. PICK s \in Seq(AllPaths) : s = f.applied
        BY <2>2 DEF FileCallRecords
      <3>2. Len(s) \in DOMAIN s /\ q = s[Len(s)]
        BY <2>1, <2>2, <2>3, <3>1 DEF Last
      <3> QED  BY <3>1, <3>2 DEF Range
    <2>7. p \in DOMAIN f.desired /\ tree[p] = f.desired[p]
      <3>1. p \in DOMAIN f.desired
        BY <2>2, <2>5, <2>6 DEF FileCallOK, Range
      <3> QED  BY <3>1, <2>2, <2>5, <2>6 DEF PlannedFile
    <2>8. c # d
      BY <2>1
    <2> QED  BY <2>2, <2>5, <2>7, <2>8 DEF PlannedFile
  <1>4. ~CrashFiles
    BY <1>1 DEF CrashFiles, ensureSeedFile, CommitInv, WholeTree, WholeFile
  <1>5. \A d \in FileCalls, ops \in Plans : ~Begin(d, ops)
    BY <1>1 DEF Begin
  <1>6. \A d \in FileCalls : ~PlanOp(d) /\ ~PlanEnds(d)
    BY <1>1 DEF PlanOp, PlanEnds
  <1> QED  BY <1>1, <1>2, <1>3, <1>4, <1>5, <1>6 DEF CommitNext, LoadCoreMemory, fcVars

LEMMA NothingLeft == CommitInv => FailedPatchLeavesNothing
  BY DEF CommitInv, TextsKnown, FailedPatchLeavesNothing, FilesTyped, FileTexts, AllPaths

LEMMA ToolsCommitStep == [ToolsNext]_toolsVars => [CommitNext]_fcVars
  <1>1. CASE OnlyCommit /\ CommitNext
    BY <1>1
  <1>2. CASE UNCHANGED fcVars
    BY <1>2
  <1>3. UNCHANGED toolsVars => UNCHANGED fcVars
    BY DEF toolsVars
  <1> QED  BY <1>1, <1>2, <1>3 DEF ToolsNext, OnlyAgent, OnlyExec, OnlyStart, OnlyPatch, OnlySub

\* In every reachable state the files, the calls under way and the lease of the memory files fit together
\* (buildPatchPlan, commitDesiredStates, rollbackDesiredStates, AcquireFileMutation, ensureSeedFile).
THEOREM CommitInvariant == ToolsSpec => []CommitInv
  <1>1. ToolsInit => CommitInv
    BY InitCommit DEF ToolsInit
  <1>2. CommitInv /\ [ToolsNext]_toolsVars => CommitInv'
    BY ToolsCommitStep, CommitStep
  <1> QED  BY <1>1, <1>2, PTL DEF ToolsSpec

\* A patch that failed left no trace in the memory files, whatever was written before the fault, unless its rollback
\* failed too, the process ended under it, or a root did not open once a file was written: commitDesiredStates then
\* returns without a rollback.
THEOREM FailedPatchLeavesNothingCorrect == ToolsSpec => []FailedPatchLeavesNothing
  BY CommitInvariant, NothingLeft, PTL

\* What no step of the tools does: change the outcome of a finished sub-agent, read core memory from the middle of a
\* patch, undo an edit that was reported done, or seed over an authored file.
THEOREM ToolStepsCorrect == ToolsSpec => ToolSteps
  <1>1. ToolsInit => SubInv /\ DownEmpty /\ CommitInv
    BY InitSub, NoSessionLives, InitCommit DEF ToolsInit, SubInit, DownEmpty
  <1>2. SubInv /\ DownEmpty /\ CommitInv /\ [ToolsNext]_toolsVars => SubInv' /\ DownEmpty' /\ CommitInv'
    BY ToolsStep, SubStep, DownEmptyKept, ToolsCommitStep, CommitStep
  <1>3. SubInv /\ DownEmpty /\ CommitInv /\ [ToolsNext]_toolsVars
        => [DoneIsFinal /\ CoreMemoryIsNotTorn /\ MemoryEditsAreKept /\ StartKeepsAuthored]_toolsVars
    BY ToolsStep, DoneStep, ToolsCommitStep, NotTorn, EditsKept, AuthoredKept
  <1> QED  BY <1>1, <1>2, <1>3, PTL DEF ToolsSpec, ToolSteps
-----------------------------------------------------------------------------
(* The patch parser and the access policy (PatchText) *)

LineKinds == {"blank", "end", "hunk", "put", "cut", "keep", "eof", "other", "add", "delete", "update", "move"}
ParserOps == [kind : LineKinds, path : PatchPaths, to : PatchPaths \cup {""}, body : Seq(LineKinds)]
\* The files a parser's operations name; those a line names.
NamedIn(ops) == {p \in PatchPaths \ {""} : \E k \in DOMAIN ops : p \in {ops[k].path, ops[k].to}}
NamedBy(t) == IF t.k \in {"add", "delete", "update", "move"} THEN {t.path} ELSE {}

LEMMA ElementIn == ASSUME NEW S, NEW s \in Seq(S), NEW k \in DOMAIN s  PROVE s[k] \in S
  OBVIOUS

LEMMA TokenFacts ==
    ASSUME NEW t \in Tokens
    PROVE  t.k \in LineKinds /\ (t.k \in {"add", "delete", "update", "move"} => t.path \in PatchPaths)
  <1>1. CASE t \in [k : {"blank", "end", "hunk", "put", "cut", "keep", "eof", "other"}, path : {""}]
    BY <1>1 DEF LineKinds
  <1>2. CASE t \in [k : {"add", "delete", "update", "move"}, path : PatchPaths]
    BY <1>2 DEF LineKinds
  <1> QED  BY <1>1, <1>2 DEF Tokens

\* One more operation, or a change of the last one.
LEMMA OpAppended ==
    ASSUME NEW ops \in Seq(ParserOps), NEW t \in Tokens, t.k \in {"add", "delete", "update"}
    PROVE  Append(ops, OpOf(t)) \in Seq(ParserOps) /\ NamedIn(Append(ops, OpOf(t))) \subseteq NamedIn(ops) \cup NamedBy(t)
  <1>1. PICK o \in ParserOps : o = OpOf(t) /\ o.path = t.path /\ o.to = ""
    <2>0. t.k \in LineKinds /\ t.path \in PatchPaths /\ <<>> \in Seq(LineKinds)
      BY TokenFacts
    <2>1. OpOf(t) \in ParserOps
      BY <2>0 DEF OpOf, ParserOps
    <2>2. OpOf(t).path = t.path /\ OpOf(t).to = ""
      BY DEF OpOf
    <2> QED  BY <2>1, <2>2
  <1>2. PICK u : u = Append(ops, o)
    OBVIOUS
  <1>3. u \in Seq(ParserOps) /\ \A k \in DOMAIN u : u[k] = o \/ (k \in DOMAIN ops /\ u[k] = ops[k])
    <2>1. u \in Seq(ParserOps) /\ DOMAIN u = 1..(Len(ops) + 1) /\ DOMAIN ops = 1..Len(ops) /\ Len(ops) \in Nat
      BY <1>2
    <2>2. u[Len(ops) + 1] = o /\ \A k \in 1..Len(ops) : u[k] = ops[k]
      BY <1>2
    <2> QED  BY <2>1, <2>2
  <1>4. ASSUME NEW p \in NamedIn(u)  PROVE p \in NamedIn(ops) \cup NamedBy(t)
    <2>1. PICK k \in DOMAIN u : p \in {u[k].path, u[k].to}
      BY <1>4 DEF NamedIn
    <2>2. p \in PatchPaths \ {""}
      BY <1>4 DEF NamedIn
    <2>3. CASE u[k] = o
      BY <2>1, <2>2, <2>3, <1>1 DEF NamedBy
    <2>4. CASE k \in DOMAIN ops /\ u[k] = ops[k]
      BY <2>1, <2>2, <2>4 DEF NamedIn
    <2> QED  BY <2>3, <2>4, <1>3
  <1> QED  BY <1>1, <1>2, <1>3, <1>4

LEMMA LastChanged ==
    ASSUME NEW ops \in Seq(ParserOps), NEW o \in ParserOps, NEW n, NEW t,
           n \in DOMAIN ops => o.path = ops[n].path /\ (o.to = ops[n].to \/ (t.k = "move" /\ o.to = t.path))
    PROVE  [ops EXCEPT ![n] = o] \in Seq(ParserOps) /\ NamedIn([ops EXCEPT ![n] = o]) \subseteq NamedIn(ops) \cup NamedBy(t)
  <1>1. PICK u : u = [ops EXCEPT ![n] = o]
    OBVIOUS
  <1>2. u \in Seq(ParserOps) /\ DOMAIN u = DOMAIN ops /\ \A k \in DOMAIN u : u[k] = IF k = n THEN o ELSE ops[k]
    <2>1. ops \in [1..Len(ops) -> ParserOps] /\ Len(ops) \in Nat
      OBVIOUS
    <2>2. u \in [1..Len(ops) -> ParserOps] /\ \A k \in 1..Len(ops) : u[k] = IF k = n THEN o ELSE ops[k]
      BY <1>1, <2>1
    <2>3. u \in Seq(ParserOps)
      BY <2>1, <2>2
    <2> QED  BY <2>1, <2>2, <2>3
  <1>4. ASSUME NEW p \in NamedIn(u)  PROVE p \in NamedIn(ops) \cup NamedBy(t)
    <2>1. PICK k \in DOMAIN u : p \in {u[k].path, u[k].to}
      BY <1>4 DEF NamedIn
    <2>2. p \in PatchPaths \ {""}
      BY <1>4 DEF NamedIn
    <2>3. CASE k = n
      BY <2>1, <2>2, <2>3, <1>2 DEF NamedBy, NamedIn
    <2>4. CASE k # n
      BY <2>1, <2>2, <2>4, <1>2 DEF NamedIn
    <2> QED  BY <2>3, <2>4
  <1> QED  BY <1>1, <1>2, <1>4

Parsers == [mode : {"top", "add", "updatehead", "update", "hunk", "ended", "error"}, ops : Seq(ParserOps)]
\* What a line makes of a parser: it names no file but the line's.
Parsed(s, t, r) == r \in Parsers /\ NamedIn(r.ops) \subseteq NamedIn(s.ops) \cup NamedBy(t)

LEMMA ModeSet ==
    ASSUME NEW s \in Parsers, NEW m \in {"top", "add", "updatehead", "update", "hunk", "ended", "error"}
    PROVE  [s EXCEPT !.mode = m] \in Parsers /\ [s EXCEPT !.mode = m].ops = s.ops /\ [s EXCEPT !.mode = m].mode = m
  BY DEF Parsers

LEMMA FailParsed == ASSUME NEW s \in Parsers, NEW t \in Tokens  PROVE Parsed(s, t, Fail(s))
  <1>1. Fail(s) \in Parsers /\ Fail(s).ops = s.ops
    BY ModeSet DEF Fail
  <1> QED  BY <1>1 DEF Parsed

LEMMA BodyParsed ==
    ASSUME NEW s \in Parsers, NEW t \in Tokens  PROVE Parsed(s, t, InLast(s, t)) /\ InLast(s, t).mode = s.mode
  <1>1. PICK n : n = Len(s.ops)
    OBVIOUS
  <1>2. s.ops \in Seq(ParserOps) /\ t.k \in LineKinds
    BY TokenFacts DEF Parsers
  <1>3. CASE n \in DOMAIN s.ops
    <2>1. PICK o \in ParserOps : o = s.ops[n]
      BY <1>2, <1>3
    <2>6. o.body \in Seq(LineKinds)
      BY ONLY o \in ParserOps, Zenon DEF ParserOps
    <2>9. PICK body, kind : body = o.body /\ kind = t.k
      OBVIOUS
    <2>10. body \in Seq(LineKinds) /\ kind \in LineKinds
      BY <1>2, <2>6, <2>9
    <2>11. Append(body, kind) \in Seq(LineKinds)
      BY ONLY <2>10
    <2>2. PICK b \in Seq(LineKinds) : b = Append(o.body, t.k)
      BY <2>9, <2>11
    <2>7. PICK q : q = [o EXCEPT !.body = b]
      OBVIOUS
    <2>8. q \in ParserOps
      BY <2>7 DEF ParserOps
    <2>3. q \in ParserOps /\ q = [o EXCEPT !.body = b] /\ q.path = o.path /\ q.to = o.to
      BY <2>7, <2>8 DEF ParserOps
    <2>4. PICK u \in Seq(ParserOps) : u = [s.ops EXCEPT ![n] = q] /\ NamedIn(u) \subseteq NamedIn(s.ops) \cup NamedBy(t)
      BY <1>2, <2>1, <2>3, LastChanged
    <2>5. InLast(s, t) = [s EXCEPT !.ops = u]
      BY <1>1, <2>1, <2>2, <2>3, <2>4 DEF InLast
    <2> QED  BY <2>4, <2>5 DEF Parsed, Parsers
  <1>4. CASE n \notin DOMAIN s.ops
    <2>1. InLast(s, t) \in Parsers /\ InLast(s, t).mode = s.mode /\ InLast(s, t).ops = s.ops
      BY <1>1, <1>2, <1>4 DEF InLast, Parsers
    <2> QED  BY <2>1 DEF Parsed
  <1> QED  BY <1>3, <1>4

LEMMA TopParsed == ASSUME NEW s \in Parsers, NEW t \in Tokens  PROVE Parsed(s, t, parseTop(s, t))
  <1>1. s.ops \in Seq(ParserOps) /\ Parsed(s, t, s) /\ Parsed(s, t, Fail(s))
    BY FailParsed DEF Parsers, Parsed
  <1>2. CASE t.k \in {"add", "update", "delete"}
    <2>1. PICK u \in Seq(ParserOps) : u = Append(s.ops, OpOf(t)) /\ NamedIn(u) \subseteq NamedIn(s.ops) \cup NamedBy(t)
      BY <1>1, <1>2, OpAppended
    <2>2. parseTop(s, t) = [mode |-> "add", ops |-> u] \/ parseTop(s, t) = [mode |-> "updatehead", ops |-> u]
          \/ parseTop(s, t) = [s EXCEPT !.ops = u]
      BY <1>2, <2>1 DEF parseTop
    <2>3. [s EXCEPT !.ops = u] \in Parsers /\ [s EXCEPT !.ops = u].ops = u
      BY <2>1 DEF Parsers
    <2>4. PICK a, b : a = [mode |-> "add", ops |-> u] /\ b = [mode |-> "updatehead", ops |-> u]
      OBVIOUS
    <2>5. a \in Parsers /\ b \in Parsers /\ a.ops = u /\ b.ops = u
      BY <2>4 DEF Parsers
    <2> QED  BY <2>1, <2>2, <2>3, <2>4, <2>5 DEF Parsed
  <1>3. CASE t.k \notin {"add", "update", "delete"}
    <2>1. parseTop(s, t) \in {s, Fail(s), [s EXCEPT !.mode = "ended"]}
      BY <1>3 DEF parseTop
    <2>2. [s EXCEPT !.mode = "ended"] \in Parsers /\ [s EXCEPT !.mode = "ended"].ops = s.ops
      BY ModeSet
    <2>3. Parsed(s, t, [s EXCEPT !.mode = "ended"])
      BY <2>2 DEF Parsed
    <2> QED  BY <1>1, <2>1, <2>3
  <1> QED  BY <1>2, <1>3

LEMMA AddParsed == ASSUME NEW s \in Parsers, NEW t \in Tokens  PROVE Parsed(s, t, parseAddFile(s, t))
  <1>0. [s EXCEPT !.mode = "top"] \in Parsers /\ [s EXCEPT !.mode = "top"].ops = s.ops
    BY ModeSet
  <1>1. PICK r \in Parsers : r = [s EXCEPT !.mode = "top"] /\ r.ops = s.ops
    BY <1>0
  <1>2. Parsed(s, t, parseTop(r, t))
    BY <1>1, TopParsed DEF Parsed
  <1>3. parseAddFile(s, t) \in {Fail(s), parseTop(r, t), InLast(s, t)}
    BY <1>1 DEF parseAddFile, FileMarks
  <1> QED  BY <1>2, <1>3, FailParsed, BodyParsed

LEMMA UpdateParsed == ASSUME NEW s \in Parsers, NEW t \in Tokens  PROVE Parsed(s, t, parseUpdateFile(s, t))
  <1>0. [s EXCEPT !.mode = "top"] \in Parsers /\ [s EXCEPT !.mode = "top"].ops = s.ops
    BY ModeSet
  <1>1. PICK r \in Parsers : r = [s EXCEPT !.mode = "top"] /\ r.ops = s.ops
    BY <1>0
  <1>2. Parsed(s, t, parseTop(r, t))
    BY <1>1, TopParsed DEF Parsed
  <1>3. PICK v : v = [s EXCEPT !.mode = "update"]
    OBVIOUS
  <1>4. Parsed(s, t, v)
    BY <1>3, ModeSet DEF Parsed
  <1>5. PICK x : x = InLast(s, t)
    OBVIOUS
  <1>6. x \in Parsers /\ Parsed(s, t, x)
    BY <1>5, BodyParsed DEF Parsed
  <1>7. PICK y : y = [x EXCEPT !.mode = "hunk"]
    OBVIOUS
  <1>8. Parsed(s, t, y)
    BY <1>6, <1>7, ModeSet DEF Parsed
  <1>9. CASE t.k = "move" /\ s.mode = "updatehead"
    <2>1. PICK n : n = Len(s.ops)
      OBVIOUS
    <2>2. s.ops \in Seq(ParserOps) /\ t.path \in PatchPaths
      BY <1>9, TokenFacts DEF Parsers
    <2>3. PICK u \in Seq(ParserOps) : u = [s.ops EXCEPT ![n].to = t.path] /\ NamedIn(u) \subseteq NamedIn(s.ops) \cup NamedBy(t)
      <3>1. CASE n \in DOMAIN s.ops
        <4>1. PICK o \in ParserOps : o = s.ops[n]
          BY <2>2, <3>1
        <4>2. PICK q : q = [o EXCEPT !.to = t.path]
          OBVIOUS
        <4>3. q \in ParserOps
          BY <2>2, <4>2 DEF ParserOps
        <4>4. q.path = o.path /\ q.to = t.path
          BY <4>2 DEF ParserOps
        <4>5. /\ [s.ops EXCEPT ![n] = q] \in Seq(ParserOps)
              /\ NamedIn([s.ops EXCEPT ![n] = q]) \subseteq NamedIn(s.ops) \cup NamedBy(t)
          BY <1>9, <2>2, <4>1, <4>3, <4>4, LastChanged
        <4> QED  BY <4>1, <4>2, <4>5
      <3>2. CASE n \notin DOMAIN s.ops
        <4>1. [s.ops EXCEPT ![n].to = t.path] = s.ops
          BY <2>2, <3>2
        <4> QED  BY <2>2, <4>1
      <3> QED  BY <3>1, <3>2
    <2>4. PICK w : w = [s EXCEPT !.mode = "update", !.ops = u]
      OBVIOUS
    <2>5. w \in Parsers /\ w.ops = u
      BY <2>4 DEF Parsers
    <2>6. parseUpdateFile(s, t) = w
      BY <1>9, <2>1, <2>3, <2>4 DEF parseUpdateFile, FileMarks
    <2> QED  BY <2>3, <2>5, <2>6 DEF Parsed
  <1>10. CASE ~(t.k = "move" /\ s.mode = "updatehead")
    <2>1. parseUpdateFile(s, t) \in {Fail(s), parseTop(r, t), y, v}
      BY <1>1, <1>3, <1>5, <1>7, <1>10 DEF parseUpdateFile, FileMarks
    <2> QED  BY <2>1, <1>2, <1>4, <1>8, FailParsed
  <1> QED  BY <1>9, <1>10

LEMMA LineParsed == ASSUME NEW s \in Parsers, NEW t \in Tokens, s.mode # "error"  PROVE Parsed(s, t, parseLine(s, t))
  <1>0. [s EXCEPT !.mode = "update"] \in Parsers /\ [s EXCEPT !.mode = "update"].ops = s.ops
    BY ModeSet
  <1>1. PICK v \in Parsers : v = [s EXCEPT !.mode = "update"] /\ v.ops = s.ops
    BY <1>0
  <1>2. Parsed(s, t, parseUpdateFile(v, t))
    BY <1>1, UpdateParsed DEF Parsed
  <1>3. parseHunk(s, t) \in {InLast(s, t), Fail(s), parseUpdateFile(v, t)}
    BY <1>1 DEF parseHunk, FileMarks
  <1>4. Parsed(s, t, parseHunk(s, t)) /\ Parsed(s, t, s)
    BY <1>2, <1>3, FailParsed, BodyParsed DEF Parsed
  <1>5. s.mode \in {"top", "add", "updatehead", "update", "hunk", "ended"}
    BY DEF Parsers
  <1>6. parseLine(s, t) \in {parseTop(s, t), parseAddFile(s, t), parseUpdateFile(s, t), parseHunk(s, t), s, Fail(s)}
    BY <1>5 DEF parseLine
  <1> QED  BY <1>4, <1>6, TopParsed, AddParsed, UpdateParsed, FailParsed

\* Every file the parser's operations name is one the policy's scan of the same lines finds.
PatchInv ==
    /\ patch \in Seq(Tokens) /\ parser \in Parsers
    /\ NamedIn(parser.ops) \subseteq pathsFromPatchEnvelope(patch)

LEMMA InitPatch == PatchTextInit => PatchInv
  <1> SUFFICES ASSUME PatchTextInit  PROVE PatchInv
    OBVIOUS
  <1>1. ParserAtStart \in Parsers /\ ParserAtStart.ops = <<>>
    BY DEF ParserAtStart, Parsers
  <1>0. [ParserAtStart EXCEPT !.mode = "error"] \in Parsers /\ [ParserAtStart EXCEPT !.mode = "error"].ops = <<>>
    BY <1>1, ModeSet
  <1>2. PICK e \in Parsers : e = [ParserAtStart EXCEPT !.mode = "error"] /\ e.ops = <<>>
    BY <1>0
  <1>3. patch = <<>> /\ parser \in {ParserAtStart, e}
    BY <1>2 DEF PatchTextInit, ParseInit
  <1>4. NamedIn(<<>>) = {}
    BY DEF NamedIn
  <1>7. patch \in Seq(Tokens)
    BY <1>3
  <1>10. parser \in Parsers
    BY ONLY e \in Parsers, <1>1, <1>3
  <1>11. parser.ops = <<>>
    BY <1>1, <1>2, <1>3
  <1>5. parser \in Parsers /\ parser.ops = <<>> /\ patch \in Seq(Tokens)
    BY <1>7, <1>10, <1>11
  <1>6. NamedIn(parser.ops) = {}
    BY <1>4, <1>5
  <1> QED  BY <1>5, <1>6 DEF PatchInv

LEMMA PatchStep == PatchInv /\ [PatchTextNext]_ptVars => PatchInv'
  <1> SUFFICES ASSUME PatchInv, [PatchTextNext]_ptVars  PROVE PatchInv'
    OBVIOUS
  <1>1. CASE ParseNext
    <2>1. PICK t \in Tokens : patch' = Append(patch, t) /\ parser' = parseLine(parser, t) /\ parser.mode # "error"
      BY <1>1 DEF ParseNext
    <2>2. Parsed(parser, t, parser')
      BY <2>1, LineParsed DEF PatchInv
    <2>3. PICK u : u = Append(patch, t)
      OBVIOUS
    <2>4. u \in Seq(Tokens) /\ (\A k \in DOMAIN patch : k \in DOMAIN u /\ u[k] = patch[k])
          /\ Len(patch) + 1 \in DOMAIN u /\ u[Len(patch) + 1] = t
      BY <2>3 DEF PatchInv
    <2>5. pathsFromPatchEnvelope(patch) \cup NamedBy(t) \subseteq pathsFromPatchEnvelope(u)
      <3>1. Range(patch) \subseteq Range(u) /\ t \in Range(u)
        BY <2>4 DEF Range
      <3> QED  BY <3>1 DEF pathsFromPatchEnvelope, NamedBy
    <2> QED  BY <2>1, <2>2, <2>3, <2>4, <2>5 DEF PatchInv, Parsed
  <1>2. CASE UNCHANGED parseVars
    BY <1>2 DEF PatchInv, parseVars
  <1> QED  BY <1>1, <1>2 DEF PatchTextNext, applyHunk, applyEnds, ReadPage, ptVars, parseVars

LEMMA PolicySees == PatchInv => PolicySeesEveryPath
  <1> SUFFICES ASSUME PatchInv, NEW op \in Range(parser.ops), NEW p \in {op.path, op.to} \ {""}
               PROVE  p \in pathsFromPatchEnvelope(patch)
    BY DEF PolicySeesEveryPath
  <1>1. PICK k \in DOMAIN parser.ops : op = parser.ops[k]
    BY DEF Range
  <1>5. parser.ops \in Seq(ParserOps)
    BY DEF PatchInv, Parsers
  <1>6. PICK ops : ops = parser.ops
    OBVIOUS
  <1>7. ops[k] \in ParserOps
    <2>1. ops \in Seq(ParserOps) /\ k \in DOMAIN ops
      BY <1>1, <1>5, <1>6
    <2> QED  BY ONLY <2>1, ElementIn
  <1>2. op \in ParserOps
    BY <1>1, <1>6, <1>7
  <1>3. p \in NamedIn(parser.ops)
    BY <1>1, <1>2 DEF NamedIn, ParserOps
  <1> QED  BY <1>3 DEF PatchInv

LEMMA ToolsPatchStep == [ToolsNext]_toolsVars => [PatchTextNext]_ptVars
  <1>1. CASE OnlyPatch /\ PatchTextNext
    BY <1>1
  <1>2. CASE UNCHANGED ptVars
    BY <1>2
  <1>3. UNCHANGED toolsVars => UNCHANGED ptVars
    BY DEF toolsVars
  <1> QED  BY <1>1, <1>2, <1>3 DEF ToolsNext, OnlyAgent, OnlyExec, OnlyStart, OnlyCommit, OnlySub

\* The access policy sees every file an accepted patch touches, however long the patch: what parsePatch makes of the
\* lines names no file that pathsFromPatchEnvelope does not find in them (PathAccessPolicy.CheckToolCall).
THEOREM PolicySeesEveryPathCorrect == ToolsSpec => []PolicySeesEveryPath
  <1>1. ToolsInit => PatchInv
    BY InitPatch DEF ToolsInit
  <1>2. PatchInv /\ [ToolsNext]_toolsVars => PatchInv'
    BY ToolsPatchStep, PatchStep
  <1> QED  BY <1>1, <1>2, PolicySees, PTL DEF ToolsSpec

-----------------------------------------------------------------------------
(* The exec service (ExecSessions, ExecStartup).  ExecInv is inductive:     *)
(* every chunk a process wrote is recorded, in the hands of its stream's    *)
(* goroutine or in the pipe, in that order and numbered; a call holds what  *)
(* the log has between its cursors; nothing but stdin_closed follows the    *)
(* terminal event, which comes once both streams are drained.               *)

EventKinds == Streams \cup {"started", "stdin_closed", "exited", "terminated"}
Events == [kind : EventKinds, n : Nat]
OutputBytes == Streams \X Nat \X {1, 2}

\* What one more event adds to the count of a stream's chunks.
LEMMA ChunksStep ==
    ASSUME NEW q, NEW s, NEW k \in Nat
    PROVE  /\ Chunks(q, s, 0) = 0 /\ Chunks(q, s, k) \in Nat
           /\ q[k + 1].kind = s => Chunks(q, s, k + 1) = Chunks(q, s, k) + 1
           /\ q[k + 1].kind # s => Chunks(q, s, k + 1) = Chunks(q, s, k)
  <1> DEFINE A == {j \in 1..k : q[j].kind = s}
             B == {j \in 1..(k + 1) : q[j].kind = s}
  <1>1. IsFiniteSet(A) /\ Cardinality(A) \in Nat
    <2>1. IsFiniteSet(1..k) /\ A \in SUBSET (1..k)
      BY FS_Interval
    <2>2. IsFiniteSet(A)
      BY <2>1, FS_Subset
    <2> QED  BY <2>2, FS_CardinalityType
  <1>2. {j \in 1..0 : q[j].kind = s} = {}
    OBVIOUS
  <1>3. ASSUME q[k + 1].kind = s  PROVE Cardinality(B) = Cardinality(A) + 1
    <2>1. B = A \cup {k + 1} /\ k + 1 \notin A
      BY <1>3
    <2> QED  BY <1>1, <2>1, FS_AddElement
  <1>4. ASSUME q[k + 1].kind # s  PROVE B = A
    BY <1>4
  <1> QED  BY <1>1, <1>2, <1>3, <1>4, FS_EmptySet DEF Chunks

LEMMA ChunksGrow ==
    ASSUME NEW q, NEW s, NEW a \in Nat, NEW b \in Nat, a <= b
    PROVE  Chunks(q, s, a) <= Chunks(q, s, b)
  <1> DEFINE A == {j \in 1..a : q[j].kind = s}
             B == {j \in 1..b : q[j].kind = s}
  <1>1. IsFiniteSet(B) /\ A \in SUBSET B
    <2>1. IsFiniteSet(1..b) /\ B \in SUBSET (1..b) /\ A \in SUBSET B
      BY FS_Interval
    <2> QED  BY <2>1, FS_Subset
  <1> QED  BY <1>1, FS_Subset DEF Chunks

\* The count looks only at the events up to k, and only at those of the stream.
LEMMA ChunksSame ==
    ASSUME NEW q, NEW r, NEW s, NEW k \in Nat, \A j \in 1..k : r[j] = q[j]
    PROVE  Chunks(r, s, k) = Chunks(q, s, k)
  <1>1. {j \in 1..k : r[j].kind = s} = {j \in 1..k : q[j].kind = s}
    OBVIOUS
  <1> QED  BY <1>1 DEF Chunks

LEMMA ChunksQuiet ==
    ASSUME NEW q, NEW s, NEW a \in Nat, NEW b \in Nat, a <= b, \A j \in (a + 1)..b : q[j].kind # s
    PROVE  Chunks(q, s, a) = Chunks(q, s, b)
  <1>1. {j \in 1..a : q[j].kind = s} = {j \in 1..b : q[j].kind = s}
    OBVIOUS
  <1> QED  BY <1>1 DEF Chunks

LEMMA BytesAre ==
    ASSUME NEW s \in Streams, NEW lo \in Nat, NEW m \in Nat, lo <= m
    PROVE  /\ Bytes(s, lo, m) \in Seq(OutputBytes) /\ Len(Bytes(s, lo, m)) = 2 * (m - lo)
           /\ \A i \in 1..2 * (m - lo) : Bytes(s, lo, m)[i] = <<s, lo + (i + 1) \div 2, 2 - (i % 2)>>
  <1>1. PICK n \in Nat : n = 2 * (m - lo)
    OBVIOUS
  <1>2. ASSUME NEW i \in 1..n  PROVE <<s, lo + (i + 1) \div 2, 2 - (i % 2)>> \in OutputBytes
    BY DEF OutputBytes
  <1>3. PICK f : f = Bytes(s, lo, m)
    OBVIOUS
  <1>4. f = [i \in 1..n |-> <<s, lo + (i + 1) \div 2, 2 - (i % 2)>>]
    BY <1>1, <1>3 DEF Bytes
  <1>5. f \in [1..n -> OutputBytes]
    BY <1>2, <1>4
  <1>6. f \in Seq(OutputBytes) /\ Len(f) = n
    BY ONLY <1>5, n \in Nat
  <1> QED  BY <1>1, <1>3, <1>4, <1>6

\* The bytes of one more chunk.
LEMMA BytesExtend ==
    ASSUME NEW s \in Streams, NEW lo \in Nat, NEW hi \in Nat, lo <= hi
    PROVE  /\ Bytes(s, lo, hi) \in Seq(OutputBytes) /\ Len(Bytes(s, lo, hi)) = 2 * (hi - lo)
           /\ Bytes(s, lo, hi + 1) \in Seq(OutputBytes) /\ Len(Bytes(s, lo, hi + 1)) = 2 * (hi - lo) + 2
           /\ \A i \in 1..2 * (hi - lo) : Bytes(s, lo, hi + 1)[i] = Bytes(s, lo, hi)[i]
           /\ Bytes(s, lo, hi + 1)[2 * (hi - lo) + 1] = <<s, hi + 1, 1>>
           /\ Bytes(s, lo, hi + 1)[2 * (hi - lo) + 2] = <<s, hi + 1, 2>>
  <1>1. /\ Bytes(s, lo, hi) \in Seq(OutputBytes) /\ Len(Bytes(s, lo, hi)) = 2 * (hi - lo)
        /\ \A i \in 1..2 * (hi - lo) : Bytes(s, lo, hi)[i] = <<s, lo + (i + 1) \div 2, 2 - (i % 2)>>
    BY BytesAre
  <1>2. PICK n \in Nat : n = hi - lo
    OBVIOUS
  <1>8. PICK top \in Nat : top = hi + 1
    OBVIOUS
  <1>3. /\ (2 * n + 2) \div 2 = n + 1 /\ (2 * n + 1) % 2 = 1
        /\ (2 * n + 3) \div 2 = n + 1 /\ (2 * n + 2) % 2 = 0
    OBVIOUS
  <1>4. 2 * (top - lo) = 2 * n + 2 /\ 2 * (hi - lo) = 2 * n /\ lo + (n + 1) = top /\ lo <= top
    BY <1>2, <1>8
  <1>9. PICK g : g = Bytes(s, lo, top)
    OBVIOUS
  <1>5. /\ g \in Seq(OutputBytes) /\ Len(g) = 2 * n + 2
        /\ \A i \in 1..(2 * n + 2) : g[i] = <<s, lo + (i + 1) \div 2, 2 - (i % 2)>>
    BY <1>4, <1>9, BytesAre
  <1>6. g[2 * n + 1] = <<s, top, 1>> /\ g[2 * n + 2] = <<s, top, 2>>
    <2>1. PICK a \in Nat, b \in Nat : a = 2 * n + 1 /\ b = 2 * n + 2
      OBVIOUS
    <2>2. a \in 1..(2 * n + 2) /\ b \in 1..(2 * n + 2)
      BY <2>1
    <2>3. g[a] = <<s, lo + (a + 1) \div 2, 2 - (a % 2)>> /\ g[b] = <<s, lo + (b + 1) \div 2, 2 - (b % 2)>>
      BY <1>5, <2>2
    <2>4. lo + (a + 1) \div 2 = top /\ 2 - (a % 2) = 1 /\ lo + (b + 1) \div 2 = top /\ 2 - (b % 2) = 2
      BY <1>3, <1>4, <2>1
    <2> QED  BY <2>1, <2>3, <2>4
  <1>7. \A i \in 1..2 * n : g[i] = Bytes(s, lo, hi)[i]
    <2> SUFFICES ASSUME NEW i \in 1..2 * n  PROVE g[i] = Bytes(s, lo, hi)[i]
      OBVIOUS
    <2>1. i \in 1..2 * (hi - lo) /\ i \in 1..(2 * n + 2)
      BY <1>2
    <2>2. g[i] = <<s, lo + (i + 1) \div 2, 2 - (i % 2)>>
      BY ONLY <1>5, <2>1
    <2>3. Bytes(s, lo, hi)[i] = <<s, lo + (i + 1) \div 2, 2 - (i % 2)>>
      BY ONLY <1>1, <2>1
    <2> QED  BY <2>2, <2>3
  <1> QED  BY <1>1, <1>4, <1>5, <1>6, <1>7, <1>8, <1>9


-----------------------------------------------------------------------------
(* What a filter keeps *)

\* Of the first n lines of data those outside gone, in their order; rank gives each line its place.
Kept(f, data, gone, rank, n, S) ==
    /\ f \in Seq(S)
    /\ \A x \in S : (x \in Range(f)) <=> (x \notin gone /\ \E k \in 1..n : data[k] = x)
    /\ (\A j, k \in 1..n : j < k => rank[data[j]] < rank[data[k]]) => \A j, k \in DOMAIN f : j < k => rank[f[j]] < rank[f[k]]

LEMMA KeptMore ==
    ASSUME NEW S, NEW data, NEW gone, NEW rank \in [S -> Nat], NEW n \in Nat, NEW f, Kept(f, data, gone, rank, n, S), data[n + 1] \in S,
           \A k \in 1..n : data[k] \in S
    PROVE  Kept(f \o (IF data[n + 1] \in gone THEN <<>> ELSE <<data[n + 1]>>), data, gone, rank, n + 1, S)
  <1>1. PICK x \in S : x = data[n + 1]
    OBVIOUS
  <1>2. f \in Seq(S) /\ \A y \in S : (y \in Range(f)) <=> (y \notin gone /\ \E k \in 1..n : data[k] = y)
    BY DEF Kept
  <1>3. \A k : k \in 1..(n + 1) <=> k \in 1..n \/ k = n + 1
    OBVIOUS
  <1>4. CASE x \in gone
    <2>1. f \o <<>> = f
      BY <1>2
    <2>2. Kept(f, data, gone, rank, n + 1, S)
      BY <1>1, <1>2, <1>3, <1>4 DEF Kept
    <2> QED  BY <1>1, <1>4, <2>1, <2>2
  <1>5. CASE x \notin gone
    <2>1. PICK g : g = f \o <<x>>
      OBVIOUS
    <2>2. PICK m \in Nat : m = Len(f)
      BY <1>2
    <2>3. g \in Seq(S) /\ DOMAIN g = 1..(m + 1) /\ DOMAIN f = 1..m /\ g[m + 1] = x /\ \A i \in 1..m : g[i] = f[i]
      BY <1>2, <2>1, <2>2
    <2>4. Range(f) = {f[i] : i \in 1..m} /\ Range(g) = {g[i] : i \in 1..(m + 1)}
      BY <2>3 DEF Range
    <2>5. \A y : y \in Range(g) <=> y \in Range(f) \/ y = x
      <3>1. \A i : i \in 1..(m + 1) <=> i \in 1..m \/ i = m + 1
        OBVIOUS
      <3> QED  BY <2>3, <2>4, <3>1
    <2>6. ASSUME \A j, k \in 1..(n + 1) : j < k => rank[data[j]] < rank[data[k]], NEW j \in 1..(m + 1), NEW k \in 1..(m + 1), j < k
          PROVE  rank[g[j]] < rank[g[k]]
      <3>1. \A a, b \in 1..n : a < b => rank[data[a]] < rank[data[b]]
        BY <2>6, <1>3
      <3>2. \A a, b \in 1..m : a < b => rank[f[a]] < rank[f[b]]
        BY <3>1, <2>3 DEF Kept
      <3>3. CASE k # m + 1
        <4>1. j \in 1..m /\ k \in 1..m
          BY <2>6, <3>3
        <4> QED  BY <4>1, <3>2, <2>3, <2>6
      <3>4. CASE k = m + 1
        <4>1. j \in 1..m
          BY <2>6, <3>4
        <4>2. f[j] \in S /\ f[j] \in Range(f)
          BY <4>1, <1>2, <2>3, <2>4
        <4>3. PICK a \in 1..n : data[a] = f[j]
          BY <4>2, <1>2
        <4>4. a \in 1..(n + 1) /\ n + 1 \in 1..(n + 1) /\ a < n + 1
          OBVIOUS
        <4>5. rank[data[a]] < rank[data[n + 1]]
          BY <4>4, <2>6
        <4> QED  BY <4>1, <4>3, <4>5, <1>1, <2>3, <3>4
      <3> QED  BY <3>3, <3>4
    <2>7. \A y \in S : (y \in Range(g)) <=> (y \notin gone /\ \E k \in 1..(n + 1) : data[k] = y)
      BY <1>1, <1>2, <1>3, <1>5, <2>5
    <2>8. Kept(g, data, gone, rank, n + 1, S)
      BY <2>3, <2>6, <2>7 DEF Kept
    <2> QED  BY <1>1, <1>5, <2>1, <2>8
  <1> QED  BY <1>4, <1>5

\* What a filter keeps.
LEMMA FilterIs ==
    ASSUME NEW S, NEW data \in Seq(S), NEW gone, NEW rank \in [S -> Nat]
    PROVE  Kept(FlattenSeq([k \in DOMAIN data |-> IF data[k] \in gone THEN <<>> ELSE <<data[k]>>]), data, gone, rank, Len(data), S)
  <1> DEFINE ss == [k \in DOMAIN data |-> IF data[k] \in gone THEN <<>> ELSE <<data[k]>>]
             L == Len(ss)
             E(f, i) == IF i = 1 THEN ss[i] ELSE f[i - 1] \o ss[i]
             flat == CHOOSE f : f = [i \in 1..L |-> E(f, i)]
             Good(n) == \E f \in [1..n -> Seq(S)] : f = [i \in 1..n |-> E(f, i)]
             T == {n \in 0..L : ~Good(n)}
  <1>0. /\ ss \in Seq(Seq(S)) /\ L = Len(data) /\ L \in Nat /\ DOMAIN data = 1..L /\ (\A i \in 1..L : data[i] \in S)
        /\ \A i \in 1..L : ss[i] = (IF data[i] \in gone THEN <<>> ELSE <<data[i]>>) /\ ss[i] \in Seq(S)
    <2>1. \A x \in S : <<x>> \in Seq(S)
      OBVIOUS
    <2>2. DOMAIN data = 1..Len(data) /\ Len(data) \in Nat /\ \A i \in 1..Len(data) : data[i] \in S
      OBVIOUS
    <2>3. ss \in [1..Len(data) -> Seq(S)]
      BY <2>1, <2>2
    <2> QED  BY <2>2, <2>3
  <1>a. \A a, b \in Seq(S) : a \o b \in Seq(S)
    OBVIOUS
  <1> HIDE DEF ss, L
  <1>b. \A f, i : (i = 1 => ss[i] \in Seq(S)) /\ (i # 1 => f[i - 1] \in Seq(S) /\ ss[i] \in Seq(S)) => E(f, i) \in Seq(S)
    BY <1>a
  <1>d. \A i \in 1..L : ss[i] \in Seq(S)
    BY <1>0
  <1>c. \A n \in 0..L : n \in Nat
    BY <1>0
  <1> HIDE DEF E
  <1>1. T = {}
    <2>1. SUFFICES ASSUME T # {}  PROVE FALSE
      OBVIOUS
    <2>2. PICK n \in T : \A y \in T : n <= y
      <3> HIDE DEF Good
      <3>1. T \subseteq Nat
        BY <1>c
      <3> QED  BY ONLY <3>1, <2>1, SmallestOf
    <2>3. n \in 0..L /\ ~Good(n)
      BY <2>2
    <2>4. CASE n = 0
      <3> DEFINE g == [i \in 1..0 |-> <<>>]
      <3>1. g \in [1..0 -> Seq(S)]
        OBVIOUS
      <3>2. g = [i \in 1..0 |-> E(g, i)]
        OBVIOUS
      <3>3. Good(0)
        BY <3>1, <3>2
      <3> QED  BY <3>3, <2>3, <2>4
    <2>5. CASE n # 0
      <3>1. n - 1 \in 0..L /\ n \in 1..L /\ ~(n <= n - 1)
        BY <2>3, <2>5, <1>0
      <3>2. Good(n - 1)
        <4> HIDE DEF Good
        <4> QED  BY <3>1, <2>2
      <3>3. PICK f \in [1..(n - 1) -> Seq(S)] : f = [i \in 1..(n - 1) |-> E(f, i)]
        BY <3>2
      <3> DEFINE g == [i \in 1..n |-> IF i = n THEN E(f, n) ELSE f[i]]
      <3>4. ss[n] \in Seq(S) /\ (n # 1 => f[n - 1] \in Seq(S))
        <4>1. n # 1 => n - 1 \in 1..(n - 1)
          BY <3>1
        <4>2. ss[n] \in Seq(S)
          BY <3>1, <1>d
        <4> QED  BY <4>1, <4>2, <3>3
      <3>5. E(f, n) \in Seq(S)
        BY <3>4, <1>b
      <3>6. g \in [1..n -> Seq(S)]
        <4>1. \A i \in 1..n : i # n => i \in 1..(n - 1)
          BY <3>1
        <4>2. \A i \in 1..n : g[i] \in Seq(S)
          BY <4>1, <3>3, <3>5
        <4> QED  BY <4>2
      <3>7. ASSUME NEW i \in 1..n  PROVE g[i] = E(g, i)
        <4> USE DEF E
        <4>1. CASE i = n
          <5>1. n # 1 => g[n - 1] = f[n - 1]
            BY <3>1
          <5> QED  BY <5>1, <4>1, <3>1
        <4>2. CASE i # n
          <5>1. i \in 1..(n - 1) /\ g[i] = f[i]
            BY <4>2, <3>1
          <5>2. f[i] = E(f, i)
            BY <5>1, <3>3
          <5>3. i # 1 => g[i - 1] = f[i - 1]
            BY <5>1, <3>1
          <5> QED  BY <5>1, <5>2, <5>3
        <4> QED  BY <4>1, <4>2
      <3>8. g = [i \in 1..n |-> E(g, i)]
        BY <3>7
      <3>9. Good(n)
        BY <3>6, <3>8
      <3> QED  BY <3>9, <2>3
    <2> QED  BY <2>4, <2>5
  <1>2. Good(L)
    <2> HIDE DEF Good
    <2>1. L \in 0..L
      BY <1>0
    <2> QED  BY <2>1, <1>1
  <1>3. flat = [i \in 1..L |-> E(flat, i)]
    BY <1>2
  <1>4. FlattenSeq(ss) = IF L = 0 THEN ss ELSE flat[L]
    BY DEF FlattenSeq, flat, E, L
  <1> HIDE DEF flat
  <1> DEFINE U == {n \in 1..L : ~Kept(flat[n], data, gone, rank, n, S)}
  <1>5. Kept(<<>>, data, gone, rank, 0, S)
    <2>1. <<>> \in Seq(S) /\ DOMAIN <<>> = {} /\ 1..0 = {}
      OBVIOUS
    <2> QED  BY <2>1 DEF Kept, Range
  <1>6. U = {}
    <2>1. SUFFICES ASSUME U # {}  PROVE FALSE
      OBVIOUS
    <2>2. PICK n \in U : \A y \in U : n <= y
      <3>1. U \subseteq Nat
        BY <1>0
      <3> QED  BY ONLY <3>1, <2>1, SmallestOf
    <2>3. n \in 1..L /\ ~Kept(flat[n], data, gone, rank, n, S)
      BY <2>2
    <2>4. flat[n] = E(flat, n)
      BY <1>3, <2>3
    <2>5. PICK m \in Nat : m = n - 1 /\ n = m + 1 /\ (m # 0 => m \in 1..L) /\ ~(n <= m)
      BY <2>3, <1>0
    <2>6. PICK f : f = IF m = 0 THEN <<>> ELSE flat[m]
      OBVIOUS
    <2>7. Kept(f, data, gone, rank, m, S)
      BY <2>2, <2>5, <2>6, <1>5
    <2>8. data[m + 1] \in S /\ \A k \in 1..m : data[k] \in S
      BY <1>0, <2>3, <2>5
    <2>9. Kept(f \o (IF data[m + 1] \in gone THEN <<>> ELSE <<data[m + 1]>>), data, gone, rank, m + 1, S)
      BY ONLY rank \in [S -> Nat], m \in Nat, <2>7, <2>8, KeptMore
    <2>10. ss[n] = IF data[n] \in gone THEN <<>> ELSE <<data[n]>>
      BY <1>0, <2>3
    <2>11. ss[n] \in Seq(S)
      BY <1>0, <2>3
    <2>12. <<>> \o ss[n] = ss[n]
      BY <2>11
    <2>13. flat[n] = f \o ss[n]
      <3>1. CASE n = 1
        <4>1. f = <<>>
          BY <3>1, <2>5, <2>6
        <4>2. flat[n] = ss[n]
          BY <3>1, <2>4 DEF E
        <4> QED  BY <4>1, <4>2, <2>12
      <3>2. CASE n # 1
        <4>1. f = flat[n - 1]
          BY <3>2, <2>5, <2>6
        <4>2. flat[n] = flat[n - 1] \o ss[n]
          BY <3>2, <2>4 DEF E
        <4> QED  BY <4>1, <4>2
      <3> QED  BY <3>1, <3>2
    <2> QED  BY <2>3, <2>5, <2>9, <2>10, <2>13
  <1>7. CASE L = 0
    <2>1. ss = <<>>
      BY <1>0, <1>7 DEF L
    <2> QED  BY <1>0, <1>4, <1>5, <1>7, <2>1 DEF ss
  <1>8. CASE L # 0
    <2>1. L \in 1..L
      BY <1>0, <1>8
    <2> QED  BY <1>0, <1>4, <1>6, <1>8, <2>1 DEF ss
  <1> QED  BY <1>7, <1>8

-----------------------------------------------------------------------------
(* What a tool has collected *)

LEMMA ConcatFacts ==
    ASSUME NEW S, NEW b \in Seq(S), NEW d \in Seq(S)
    PROVE  /\ b \o d \in Seq(S) /\ Len(b \o d) = Len(b) + Len(d)
           /\ (\A i \in 1..Len(b) : (b \o d)[i] = b[i]) /\ (\A i \in 1..Len(d) : (b \o d)[Len(b) + i] = d[i])
  OBVIOUS

LEMMA PrefixFacts ==
    ASSUME NEW S, NEW b \in Seq(S), NEW m \in 0..Len(b)
    PROVE  /\ SubSeq(b, 1, m) \in Seq(S) /\ Len(SubSeq(b, 1, m)) = m
           /\ \A i \in 1..m : SubSeq(b, 1, m)[i] = b[i]
  OBVIOUS

LEMMA PrefixIs ==
    ASSUME NEW S, NEW b \in Seq(S), NEW w \in Seq(S)
    PROVE  IsPrefix(b, w) <=> Len(b) <= Len(w) /\ \A i \in 1..Len(b) : b[i] = w[i]
  BY DEF IsPrefix

\* What a caller holds of the bytes w: all of them, or a prefix if its answer says it was cut.
Shows(b, cut, w) == IF cut THEN IsPrefix(b, w) ELSE b = w

\* What fits of a chunk more: the first m bytes, all of it unless the maxChars ends.
Fits(s, lo, hi, b, data, m) ==
    /\ s \in Streams /\ lo \in Nat /\ hi \in Nat /\ lo <= hi
    /\ b \in Seq(OutputBytes) /\ data \in Seq(OutputBytes) /\ m \in 0..2
    /\ b = Bytes(s, lo, hi) \/ (m = 0 /\ IsPrefix(b, Bytes(s, lo, hi)))
    /\ Len(data) = m /\ (m > 0 => data[1] = <<s, hi + 1, 1>>) /\ (m > 1 => data[2] = <<s, hi + 1, 2>>)

LEMMA ShowsChunk ==
    ASSUME NEW s, NEW lo, NEW hi, NEW b, NEW data, NEW m, Fits(s, lo, hi, b, data, m)
    PROVE  (m < 2 => IsPrefix(b \o data, Bytes(s, lo, hi + 1))) /\ (m = 2 => b \o data = Bytes(s, lo, hi + 1))
  <1>0. /\ s \in Streams /\ lo \in Nat /\ hi \in Nat /\ lo <= hi
        /\ b \in Seq(OutputBytes) /\ data \in Seq(OutputBytes) /\ m \in 0..2
        /\ b = Bytes(s, lo, hi) \/ (m = 0 /\ IsPrefix(b, Bytes(s, lo, hi)))
        /\ Len(data) = m /\ (m > 0 => data[1] = <<s, hi + 1, 1>>) /\ (m > 1 => data[2] = <<s, hi + 1, 2>>)
    BY DEF Fits
  <1>1. PICK w, x : w = Bytes(s, lo, hi) /\ x = Bytes(s, lo, hi + 1)
    OBVIOUS
  <1>2. PICK n \in Nat : n = 2 * (hi - lo)
    BY <1>0
  <1>3. /\ w \in Seq(OutputBytes) /\ x \in Seq(OutputBytes)
        /\ Len(w) = n /\ Len(x) = n + 2 /\ (\A i \in 1..n : x[i] = w[i])
        /\ x[n + 1] = <<s, hi + 1, 1>> /\ x[n + 2] = <<s, hi + 1, 2>>
    <2>1. /\ Bytes(s, lo, hi) \in Seq(OutputBytes) /\ Len(Bytes(s, lo, hi)) = 2 * (hi - lo)
          /\ Bytes(s, lo, hi + 1) \in Seq(OutputBytes) /\ Len(Bytes(s, lo, hi + 1)) = 2 * (hi - lo) + 2
          /\ \A i \in 1..2 * (hi - lo) : Bytes(s, lo, hi + 1)[i] = Bytes(s, lo, hi)[i]
          /\ Bytes(s, lo, hi + 1)[2 * (hi - lo) + 1] = <<s, hi + 1, 1>>
          /\ Bytes(s, lo, hi + 1)[2 * (hi - lo) + 2] = <<s, hi + 1, 2>>
      BY ONLY <1>0, BytesExtend
    <2>2. 2 * (hi - lo) = n
      BY <1>0, <1>2
    <2> QED  BY ONLY <2>1, <2>2, <1>1
  <1>4. CASE m = 0
    <2>1. data = <<>> /\ b \o data = b
      BY <1>0, <1>4
    <2>2. Len(b) <= n /\ \A i \in 1..Len(b) : b[i] = w[i]
      <3>1. CASE b = w
        BY <3>1, <1>0, <1>3
      <3>2. CASE IsPrefix(b, w)
        BY <3>2, <1>0, <1>3, PrefixIs
      <3> QED  BY <3>1, <3>2, <1>0, <1>1, <1>4
    <2>3. Len(b) <= Len(x) /\ \A i \in 1..Len(b) : b[i] = x[i]
      BY <1>0, <2>2, <1>3
    <2>4. IsPrefix(b, x)
      BY <2>3, <1>0, <1>3, PrefixIs
    <2> QED  BY <1>1, <1>4, <2>1, <2>4
  <1>5. CASE m > 0
    <2>1. b = w
      BY <1>0, <1>1, <1>5
    <2>2. PICK d : d = b \o data
      OBVIOUS
    <2>6. /\ d \in Seq(OutputBytes) /\ Len(d) = Len(b) + Len(data) /\ (\A i \in 1..Len(b) : d[i] = b[i])
          /\ (\A i \in 1..Len(data) : d[Len(b) + i] = data[i])
      BY ONLY <1>0, <2>2, ConcatFacts
    <2>3. Len(d) = n + Len(data) /\ (\A i \in 1..n : d[i] = w[i]) /\ (\A i \in 1..Len(data) : d[n + i] = data[i])
      BY ONLY <1>0, <2>1, <2>6, <1>3
    <2>4. CASE m = 1
      <3>1. Len(d) = n + 1 /\ d[n + 1] = <<s, hi + 1, 1>>
        BY <1>0, <2>3, <2>4
      <3>2. \A i \in 1..(n + 1) : d[i] = x[i]
        <4> SUFFICES ASSUME NEW i \in 1..(n + 1)  PROVE d[i] = x[i]
          OBVIOUS
        <4>1. i \in 1..n \/ i = n + 1
          BY ONLY n \in Nat, i \in 1..(n + 1)
        <4> QED  BY ONLY <4>1, <3>1, <2>3, <1>3
      <3>3. IsPrefix(d, x)
        <4>1. Len(d) <= Len(x) /\ \A i \in 1..Len(d) : d[i] = x[i]
          BY <3>1, <3>2, <1>3
        <4> QED  BY <4>1, <2>6, <1>3, PrefixIs
      <3> QED  BY <1>1, <2>2, <2>4, <3>3
    <2>5. CASE m > 1
      <3>1. Len(d) = n + 2 /\ d[n + 1] = <<s, hi + 1, 1>> /\ d[n + 2] = <<s, hi + 1, 2>>
        BY <1>0, <2>3, <2>5
      <3>2. \A i \in 1..(n + 2) : d[i] = x[i]
        <4> SUFFICES ASSUME NEW i \in 1..(n + 2)  PROVE d[i] = x[i]
          OBVIOUS
        <4>1. i \in 1..n \/ i = n + 1 \/ i = n + 2
          BY ONLY n \in Nat, i \in 1..(n + 2)
        <4> QED  BY ONLY <4>1, <3>1, <2>3, <1>3
      <3>3. d = x
        BY ONLY <3>1, <3>2, <1>3, <2>6
      <3>4. ~(m < 2)
        BY <1>0, <2>5
      <3> QED  BY ONLY <1>1, <2>2, <3>3, <3>4
    <2> QED  BY <1>0, <1>5, <2>4, <2>5
  <1> QED  BY <1>0, <1>4, <1>5

\* The same bytes, now perhaps with the note that something was cut, of this stream or another.
LEMMA ShowsSame ==
    ASSUME NEW w \in Seq(OutputBytes), NEW b, NEW cut \in BOOLEAN, Shows(b, cut, w), NEW c \in BOOLEAN, cut => c
    PROVE  Shows(b, c, w)
  <1>1. IsPrefix(w, w)
    BY DEF IsPrefix
  <1> QED  BY <1>1 DEF Shows

ToolRecords ==
    [pc : {"idle", "watch", "get", "drain", "report"}, op : {"exec", "exec_read"}, from : Nat, cursor : Nat, upto : Nat,
     end : BOOLEAN, timedOut : BOOLEAN, seen : SessionStates, streams : SUBSET Streams, room : Nat, trunc : BOOLEAN,
     buf : [Streams -> Seq(OutputBytes)], zero : BOOLEAN, noise : SUBSET OutputBytes, blank : SUBSET OutputBytes,
     shown : [Streams -> Seq(OutputBytes)]]

\* The call t and the events q: its cursor is in them, it has what they hold from its first cursor on, and what it
\* takes for the end of the session is the terminal event.
EndsBy(q, k) == \E i \in 1..k : isTerminalEvent(q[i])
Told(t, q) ==
    /\ t.from <= t.cursor /\ t.cursor <= Len(q) /\ t.upto <= Len(q)
    /\ t.trunc => t.room = 0
    /\ \A s \in t.streams : Shows(t.buf[s], t.trunc, Bytes(s, Chunks(q, s, t.from), Chunks(q, s, t.cursor)))
    /\ t.end => EndsBy(q, t.upto)
    /\ t.pc \in {"get", "report"} /\ ~t.timedOut => EndsBy(q, t.cursor)

LEMMA ToldKept ==
    ASSUME NEW t \in ToolRecords, NEW q \in Seq(Events), NEW r \in Seq(Events), Told(t, q),
           Len(q) <= Len(r), \A j \in 1..Len(q) : r[j] = q[j]
    PROVE  Told(t, r)
  <1>1. t.from \in Nat /\ t.cursor \in Nat /\ t.upto \in Nat /\ Len(q) \in Nat /\ Len(r) \in Nat
    BY DEF ToolRecords
  <1>2. t.from <= t.cursor /\ t.cursor <= Len(q) /\ t.upto <= Len(q)
    BY DEF Told
  <1>3. ASSUME NEW s  PROVE Chunks(r, s, t.from) = Chunks(q, s, t.from) /\ Chunks(r, s, t.cursor) = Chunks(q, s, t.cursor)
    <2>1. PICK a \in Nat, b \in Nat : a = t.from /\ b = t.cursor
      BY <1>1
    <2>2. (\A j \in 1..a : r[j] = q[j]) /\ (\A j \in 1..b : r[j] = q[j])
      BY <1>1, <1>2, <2>1
    <2>3. Chunks(r, s, a) = Chunks(q, s, a) /\ Chunks(r, s, b) = Chunks(q, s, b)
      BY ONLY a \in Nat, b \in Nat, <2>2, ChunksSame
    <2> QED  BY <2>1, <2>3
  <1>4. (EndsBy(q, t.upto) => EndsBy(r, t.upto)) /\ (EndsBy(q, t.cursor) => EndsBy(r, t.cursor))
    BY <1>1, <1>2 DEF EndsBy
  <1>5. t.cursor <= Len(r) /\ t.upto <= Len(r)
    BY <1>1, <1>2
  <1> QED  BY <1>2, <1>3, <1>4, <1>5 DEF Told

\* A chunk of an event: its bytes, up to a maxChars.
LEMMA DataCut ==
    ASSUME NEW e \in Events, e.kind \in Streams, NEW room \in Nat
    PROVE  LET m == IF room < 2 THEN room ELSE 2
               d == SubSeq(Data(e), 1, m)
           IN d \in Seq(OutputBytes) /\ Len(d) = m /\ (m > 0 => d[1] = <<e.kind, e.n, 1>>) /\ (m > 1 => d[2] = <<e.kind, e.n, 2>>)
  <1>1. PICK m \in 0..2 : m = IF room < 2 THEN room ELSE 2
    OBVIOUS
  <1>2. <<e.kind, e.n, 1>> \in OutputBytes /\ <<e.kind, e.n, 2>> \in OutputBytes
    BY DEF OutputBytes, Events
  <1>5. PICK a \in OutputBytes, b \in OutputBytes : a = <<e.kind, e.n, 1>> /\ b = <<e.kind, e.n, 2>>
    BY <1>2
  <1>6. PICK f : f = <<a, b>>
    OBVIOUS
  <1>7. f \in Seq(OutputBytes) /\ Len(f) = 2 /\ f[1] = a /\ f[2] = b
    BY ONLY a \in OutputBytes, b \in OutputBytes, <1>6
  <1>3. f \in Seq(OutputBytes) /\ f = Data(e) /\ Len(f) = 2 /\ f[1] = <<e.kind, e.n, 1>> /\ f[2] = <<e.kind, e.n, 2>>
    BY <1>5, <1>6, <1>7 DEF Data
  <1>4. /\ SubSeq(f, 1, m) \in Seq(OutputBytes) /\ Len(SubSeq(f, 1, m)) = m
        /\ \A i \in 1..m : SubSeq(f, 1, m)[i] = f[i]
    <2>1. f \in Seq(OutputBytes) /\ m \in 0..Len(f)
      BY <1>3
    <2> QED  BY ONLY <2>1, PrefixFacts
  <1> QED  BY <1>1, <1>3, <1>4

\* A tool that watches takes the next event e of q and becomes u.
Takes(t, q, e, u) ==
    /\ t \in ToolRecords /\ q \in Seq(Events) /\ Told(t, q) /\ t.cursor < Len(q) /\ t.pc \in {"watch", "drain"}
    /\ e = q[t.cursor + 1] /\ (e.kind \in Streams => e.n = Chunks(q, e.kind, t.cursor + 1))
    /\ u = [collect(t, e) EXCEPT !.cursor = t.cursor + 1]

LEMMA Collected ==
    ASSUME NEW t, NEW q, NEW e, NEW u, Takes(t, q, e, u)
    PROVE  u \in ToolRecords /\ Told(u, q) /\ u.cursor = t.cursor + 1 /\ u.pc = t.pc
  <1> SUFFICES ASSUME t \in ToolRecords, q \in Seq(Events), Told(t, q), t.cursor < Len(q), t.pc \in {"watch", "drain"},
                      e = q[t.cursor + 1], e.kind \in Streams => e.n = Chunks(q, e.kind, t.cursor + 1),
                      u = [collect(t, e) EXCEPT !.cursor = t.cursor + 1]
               PROVE  u \in ToolRecords /\ Told(u, q) /\ u.cursor = t.cursor + 1 /\ u.pc = t.pc
    BY DEF Takes
  <1>1. PICK c \in Nat, a \in Nat, n \in Nat : c = t.cursor /\ a = t.from /\ n = Len(q)
    BY DEF ToolRecords
  <1>2. a <= c /\ c + 1 <= n /\ c + 1 \in DOMAIN q /\ e = q[c + 1] /\ t.upto <= n
    BY <1>1 DEF Told
  <1>3. e \in Events
    BY ONLY q \in Seq(Events), <1>2, ElementIn
  <1>4. \A s \in t.streams : Shows(t.buf[s], t.trunc, Bytes(s, Chunks(q, s, a), Chunks(q, s, c)))
    BY <1>1 DEF Told
  <1>5. ASSUME NEW s
        PROVE  /\ Chunks(q, s, a) \in Nat /\ Chunks(q, s, c) \in Nat /\ Chunks(q, s, a) <= Chunks(q, s, c)
               /\ e.kind = s => Chunks(q, s, c + 1) = Chunks(q, s, c) + 1
               /\ e.kind # s => Chunks(q, s, c + 1) = Chunks(q, s, c)
    <2>1. Chunks(q, s, a) <= Chunks(q, s, c)
      BY ONLY a \in Nat, c \in Nat, <1>2, ChunksGrow
    <2>2. Chunks(q, s, a) \in Nat /\ Chunks(q, s, c) \in Nat
      BY ONLY a \in Nat, c \in Nat, ChunksStep
    <2>3. /\ q[c + 1].kind = s => Chunks(q, s, c + 1) = Chunks(q, s, c) + 1
          /\ q[c + 1].kind # s => Chunks(q, s, c + 1) = Chunks(q, s, c)
      BY ONLY c \in Nat, ChunksStep
    <2> QED  BY <1>2, <2>1, <2>2, <2>3
  <1>6. /\ t.pc \in {"idle", "watch", "get", "drain", "report"} /\ t.streams \in SUBSET Streams /\ t.room \in Nat
        /\ t.trunc \in BOOLEAN /\ t.buf \in [Streams -> Seq(OutputBytes)] /\ (t.trunc => t.room = 0)
    BY DEF ToolRecords, Told
  <1>7. CASE ~IsOutput(e) \/ e.kind \notin t.streams
    <2>1. u = [t EXCEPT !.cursor = c + 1]
      BY <1>1, <1>7 DEF collect
    <2>5. PICK k \in Nat : k = c + 1
      OBVIOUS
    <2>6. u = [t EXCEPT !.cursor = k]
      BY <2>1, <2>5
    <2>2. u \in ToolRecords
      BY ONLY t \in ToolRecords, k \in Nat, <2>6 DEF ToolRecords
    <2>3. /\ u.cursor = c + 1 /\ u.pc = t.pc /\ u.from = a /\ u.upto = t.upto /\ u.trunc = t.trunc /\ u.room = t.room
          /\ u.streams = t.streams /\ u.buf = t.buf /\ u.end = t.end
      BY <1>1, <2>1 DEF ToolRecords
    <2>4. ASSUME NEW s \in t.streams  PROVE Shows(u.buf[s], u.trunc, Bytes(s, Chunks(q, s, a), Chunks(q, s, c + 1)))
      <3>1. e.kind # s
        BY <1>6, <1>7, <2>4 DEF IsOutput
      <3> QED  BY <1>4, <1>5, <2>3, <3>1
    <2> QED  BY <1>1, <1>2, <1>6, <2>2, <2>3, <2>4 DEF Told
  <1>8. CASE IsOutput(e) /\ e.kind \in t.streams
    <2>1. PICK m \in 0..2 : m = IF t.room < 2 THEN t.room ELSE 2
      BY <1>6
    <2>2. PICK d : d = SubSeq(Data(e), 1, m)
      OBVIOUS
    <2>3. d \in Seq(OutputBytes) /\ Len(d) = m /\ (m > 0 => d[1] = <<e.kind, e.n, 1>>) /\ (m > 1 => d[2] = <<e.kind, e.n, 2>>)
      <3>1. PICK room \in Nat : room = t.room
        BY <1>6
      <3>2. e.kind \in Streams
        BY <1>8 DEF IsOutput
      <3> QED  BY <1>3, <2>1, <2>2, <3>1, <3>2, DataCut
    <2>4. PICK nb, nr, nt : nb = [t.buf EXCEPT ![e.kind] = t.buf[e.kind] \o d] /\ nr = t.room - m /\ nt = (t.trunc \/ m < 2)
      OBVIOUS
    <2>5. nr \in Nat /\ nt \in BOOLEAN
      BY <1>6, <2>1, <2>4
    <2>6. t.buf[e.kind] \in Seq(OutputBytes) /\ t.buf[e.kind] \o d \in Seq(OutputBytes)
      <3>1. t.buf[e.kind] \in Seq(OutputBytes)
        BY <1>6, <1>8 DEF IsOutput
      <3> QED  BY ONLY <3>1, <2>3, ConcatFacts
    <2>7. nb \in [Streams -> Seq(OutputBytes)]
      BY <1>6, <2>4, <2>6
    <2>8. u = [t EXCEPT !.buf = nb, !.room = nr, !.trunc = nt, !.cursor = c + 1]
      BY <1>1, <1>8, <2>1, <2>2, <2>3, <2>4 DEF collect
    <2>13. PICK k \in Nat : k = c + 1
      OBVIOUS
    <2>14. u = [t EXCEPT !.buf = nb, !.room = nr, !.trunc = nt, !.cursor = k]
      BY <2>8, <2>13
    <2>9. u \in ToolRecords
      BY ONLY t \in ToolRecords, k \in Nat, <2>5, <2>7, <2>14 DEF ToolRecords
    <2>10. /\ u.cursor = c + 1 /\ u.pc = t.pc /\ u.from = a /\ u.upto = t.upto /\ u.trunc = nt /\ u.room = nr
           /\ u.streams = t.streams /\ u.buf = nb /\ u.end = t.end
      BY <1>1, <2>8 DEF ToolRecords
    <2>11. ASSUME NEW s \in t.streams  PROVE Shows(nb[s], nt, Bytes(s, Chunks(q, s, a), Chunks(q, s, c + 1)))
      <3>0. PICK lo \in Nat, hi \in Nat : lo = Chunks(q, s, a) /\ hi = Chunks(q, s, c)
        BY <1>5
      <3>1. lo <= hi /\ s \in Streams /\ Shows(t.buf[s], t.trunc, Bytes(s, lo, hi))
        BY <1>4, <1>5, <1>6, <3>0
      <3>2. CASE e.kind = s
        <4>1. Chunks(q, s, c + 1) = hi + 1 /\ e.n = hi + 1 /\ nb[s] = t.buf[s] \o d
          BY <1>1, <1>5, <1>6, <2>4, <3>0, <3>1, <3>2
        <4>2. PICK b \in Seq(OutputBytes), cut \in BOOLEAN, room \in Nat : b = t.buf[s] /\ cut = t.trunc /\ room = t.room
          BY <1>6, <3>1
        <4>3. Fits(s, lo, hi, b, d, m)
          <5>1. b = Bytes(s, lo, hi) \/ (m = 0 /\ IsPrefix(b, Bytes(s, lo, hi)))
            BY <1>6, <2>1, <3>1, <4>2 DEF Shows
          <5>2. s \in Streams /\ lo <= hi /\ d \in Seq(OutputBytes) /\ Len(d) = m
                /\ (m > 0 => d[1] = <<s, hi + 1, 1>>) /\ (m > 1 => d[2] = <<s, hi + 1, 2>>)
            BY <2>3, <3>1, <3>2, <4>1
          <5> QED  BY ONLY <5>1, <5>2, lo \in Nat, hi \in Nat, b \in Seq(OutputBytes), m \in 0..2 DEF Fits
        <4>6. (m < 2 => IsPrefix(b \o d, Bytes(s, lo, hi + 1))) /\ (m = 2 => b \o d = Bytes(s, lo, hi + 1))
          BY ONLY <4>3, ShowsChunk
        <4>7. PICK g, w : g = b \o d /\ w = Bytes(s, lo, hi + 1)
          OBVIOUS
        <4>8. IF nt THEN IsPrefix(g, w) ELSE g = w
          <5>1. CASE m < 2
            <6>1. nt
              BY ONLY <2>4, <5>1, Zenon
            <6> QED  BY <5>1, <6>1, <4>6, <4>7
          <5>2. CASE ~(m < 2)
            <6>1. CASE t.trunc
              BY <1>6, <2>1, <5>2, <6>1
            <6>2. CASE ~t.trunc
              <7>1. ~nt
                BY ONLY <2>4, <5>2, <6>2, Zenon
              <7> QED  BY <5>2, <7>1, <4>6, <4>7
            <6> QED  BY <6>1, <6>2
          <5> QED  BY <5>1, <5>2
        <4> QED  BY <3>0, <4>1, <4>2, <4>7, <4>8 DEF Shows
      <3>3. CASE e.kind # s
        <4>1. nb[s] = t.buf[s] /\ Chunks(q, s, c + 1) = hi
          BY <1>5, <1>6, <2>4, <3>0, <3>1, <3>3
        <4>2. PICK w : w = Bytes(s, lo, hi)
          OBVIOUS
        <4>3. w \in Seq(OutputBytes)
          BY <3>1, <4>2, BytesAre
        <4>4. Shows(t.buf[s], nt, w)
          <5>1. PICK cut \in BOOLEAN : cut = t.trunc
            BY <1>6
          <5>2. Shows(t.buf[s], cut, w) /\ (cut => nt)
            BY <2>4, <3>1, <4>2, <5>1
          <5> QED  BY ONLY <4>3, <5>2, cut \in BOOLEAN, <2>5, ShowsSame
        <4> QED  BY <3>0, <4>1, <4>2, <4>4
      <3> QED  BY <3>2, <3>3
    <2>12. nt => nr = 0
      BY <1>6, <2>1, <2>4
    <2> QED  BY <1>1, <1>2, <1>6, <2>9, <2>10, <2>11, <2>12 DEF Told
  <1> QED  BY <1>7, <1>8

-----------------------------------------------------------------------------
(* The invariant of a session *)

OutputChunks == [kind : Streams, n : Nat]
ProcRecords == [alive : BOOLEAN, child : BOOLEAN, sig : {"none", "term", "kill"}, wait : {"no", "ok", "err"},
                made : [Streams -> 0..MaxChunks], pipe : [Streams -> Seq(OutputChunks)]]
CaptureRecords == [held : [Streams -> Seq(OutputChunks)], done : SUBSET Streams]

ExecTyped ==
    /\ sst \in SessionStates /\ stdin \in [open : BOOLEAN, pipe : BOOLEAN]
    /\ proc \in ProcRecords /\ capture \in CaptureRecords /\ sev \in Seq(Events)
    /\ killers \in [Callers -> {"idle", "term", "kill"}] /\ writer \in {"idle", "write", "close", "closed"}
    /\ tool \in ToolRecords /\ report \in ToolRecords

\* The chunks of a stream are recorded in the order the process wrote them.
ChunksNumbered(q) == \A j \in DOMAIN q : q[j].kind \in Streams => q[j].n = Chunks(q, q[j].kind, j)
\* What the process wrote to a stream: recorded, then in its goroutine's hands, then in the pipe.
Flow(q, h, p, m, s) ==
    /\ Len(h) <= 1 /\ Chunks(q, s, Len(q)) + Len(h) + Len(p) = m
    /\ \A i \in 1..Len(h) : h[i] = [kind |-> s, n |-> Chunks(q, s, Len(q)) + i]
    /\ \A i \in 1..Len(p) : p[i] = [kind |-> s, n |-> Chunks(q, s, Len(q)) + Len(h) + i]
Flows == \A s \in Streams : Flow(sev, capture.held[s], proc.pipe[s], proc.made[s], s)
Closes(q) == \A i, j \in DOMAIN q : i < j /\ isTerminalEvent(q[i]) => q[j].kind = "stdin_closed"

SessionOK ==
    /\ sst = "none" => sev = <<>> /\ ~proc.alive /\ ~proc.child /\ writer = "idle" /\ \A s \in Streams : proc.made[s] = 0
    /\ proc.wait # "no" => sst # "none" /\ ~proc.alive /\ ~proc.child /\ \A s \in Streams : proc.pipe[s] = <<>>
    /\ \A s \in capture.done : proc.wait # "no" /\ capture.held[s] = <<>>
    /\ sst \in TerminalStates => capture.done = Streams
    /\ sst \in TerminalStates <=> EndsBy(sev, Len(sev))
    /\ Closes(sev)
\* What the answer r shows of a stream it has read: its lines in order, without those it may leave out.
MayOmit(r, line) == (r.zero /\ line \in r.noise) \/ (r.shown["err"] = <<>> /\ line \in r.blank)
InPlace(lines) == \A j, k \in DOMAIN lines : j < k => Place(lines[j]) < Place(lines[k])
Formatted(r, s) ==
    /\ Range(r.shown[s]) \subseteq Range(r.buf[s])
    /\ \A line \in Range(r.buf[s]) : line \in Range(r.shown[s]) \/ MayOmit(r, line)
    /\ InPlace(r.buf[s]) => InPlace(r.shown[s])
Reported ==
    /\ Told(report, sev) /\ report.pc \in {"idle", "report"} /\ (report.pc = "idle" => report.seen = "none")
    /\ \A s \in Streams : Formatted(report, s)

ExecInv == ExecTyped /\ ChunksNumbered(sev) /\ Flows /\ SessionOK /\ Told(tool, sev) /\ Reported

LEMMA ChunkIsEvent == OutputChunks \subseteq Events
  BY DEF OutputChunks, Events, EventKinds

\* The log r is q with the event e more.
Logged(r, q, e) == q \in Seq(Events) /\ e \in Events /\ r = Append(q, e)
LEMMA LogAppend ==
    ASSUME NEW q, NEW e, NEW r, Logged(r, q, e)
    PROVE  /\ q \in Seq(Events) /\ e \in Events /\ r \in Seq(Events) /\ Len(r) = Len(q) + 1 /\ r[Len(q) + 1] = e /\ Len(q) \in Nat
           /\ (\A j \in 1..Len(q) : r[j] = q[j]) /\ DOMAIN r = 1..(Len(q) + 1) /\ DOMAIN q = 1..Len(q)
  BY DEF Logged

LEMMA CountAppend ==
    ASSUME NEW q, NEW e, NEW r, Logged(r, q, e), NEW s
    PROVE  /\ Chunks(q, s, Len(q)) \in Nat
           /\ e.kind = s => Chunks(r, s, Len(r)) = Chunks(q, s, Len(q)) + 1
           /\ e.kind # s => Chunks(r, s, Len(r)) = Chunks(q, s, Len(q))
           /\ \A k \in 1..Len(q) : Chunks(r, s, k) = Chunks(q, s, k)
  <1>1. /\ r \in Seq(Events) /\ Len(r) = Len(q) + 1 /\ r[Len(q) + 1] = e /\ Len(q) \in Nat
        /\ (\A j \in 1..Len(q) : r[j] = q[j])
    BY LogAppend
  <1>2. PICK n \in Nat : n = Len(q)
    BY <1>1
  <1>3. ASSUME NEW k \in Nat, k <= n  PROVE Chunks(r, s, k) = Chunks(q, s, k)
    <2>1. \A j \in 1..k : r[j] = q[j]
      BY <1>1, <1>2, <1>3
    <2> QED  BY ONLY k \in Nat, <2>1, ChunksSame
  <1>4. /\ Chunks(r, s, n) \in Nat
        /\ r[n + 1].kind = s => Chunks(r, s, n + 1) = Chunks(r, s, n) + 1
        /\ r[n + 1].kind # s => Chunks(r, s, n + 1) = Chunks(r, s, n)
    BY ONLY n \in Nat, ChunksStep
  <1>5. Chunks(r, s, n) = Chunks(q, s, n)
    BY <1>3
  <1> QED  BY <1>1, <1>2, <1>3, <1>4, <1>5

LEMMA NumberedAppend ==
    ASSUME NEW q, NEW e, NEW r, Logged(r, q, e), ChunksNumbered(q),
           e.kind \in Streams => e.n = Chunks(q, e.kind, Len(q)) + 1
    PROVE  ChunksNumbered(r)
  <1>1. /\ r \in Seq(Events) /\ Len(r) = Len(q) + 1 /\ r[Len(q) + 1] = e /\ Len(q) \in Nat
        /\ (\A j \in 1..Len(q) : r[j] = q[j]) /\ DOMAIN r = 1..(Len(q) + 1) /\ DOMAIN q = 1..Len(q)
    BY LogAppend
  <1>4. ASSUME NEW s
        PROVE  /\ e.kind = s => Chunks(r, s, Len(r)) = Chunks(q, s, Len(q)) + 1
               /\ \A k \in 1..Len(q) : Chunks(r, s, k) = Chunks(q, s, k)
    BY ONLY Logged(r, q, e), CountAppend
  <1> SUFFICES ASSUME NEW j \in DOMAIN r, r[j].kind \in Streams  PROVE r[j].n = Chunks(r, r[j].kind, j)
    BY DEF ChunksNumbered
  <1>2. CASE j = Len(q) + 1
    <2>1. PICK s : s = e.kind
      OBVIOUS
    <2>2. Chunks(r, s, Len(r)) = Chunks(q, s, Len(q)) + 1
      BY <2>1, <1>4
    <2> QED  BY <1>1, <1>2, <2>1, <2>2
  <1>3. CASE j \in 1..Len(q)
    <2>1. PICK s : s = q[j].kind
      OBVIOUS
    <2>2. Chunks(r, s, j) = Chunks(q, s, j)
      BY <1>3, <1>4
    <2>3. r[j] = q[j] /\ j \in DOMAIN q
      BY <1>1, <1>3
    <2> QED  BY <2>1, <2>2, <2>3 DEF ChunksNumbered
  <1> QED  BY <1>1, <1>2, <1>3

LEMMA EndsAppend ==
    ASSUME NEW q, NEW e, NEW r, Logged(r, q, e)
    PROVE  /\ EndsBy(r, Len(r)) <=> (EndsBy(q, Len(q)) \/ isTerminalEvent(e))
           /\ Closes(q) /\ (EndsBy(q, Len(q)) => e.kind = "stdin_closed") => Closes(r)
  <1>1. /\ r \in Seq(Events) /\ Len(r) = Len(q) + 1 /\ r[Len(q) + 1] = e /\ Len(q) \in Nat
        /\ (\A j \in 1..Len(q) : r[j] = q[j]) /\ DOMAIN r = 1..(Len(q) + 1) /\ DOMAIN q = 1..Len(q)
    BY LogAppend
  <1>2. EndsBy(r, Len(r)) <=> (EndsBy(q, Len(q)) \/ isTerminalEvent(e))
    <2>1. ASSUME EndsBy(r, Len(r))  PROVE EndsBy(q, Len(q)) \/ isTerminalEvent(e)
      <3>1. PICK i \in 1..(Len(q) + 1) : isTerminalEvent(r[i])
        BY <1>1, <2>1 DEF EndsBy
      <3>2. CASE i = Len(q) + 1
        BY <1>1, <3>1, <3>2
      <3>3. CASE i \in 1..Len(q)
        BY <1>1, <3>1, <3>3 DEF EndsBy
      <3> QED  BY <1>1, <3>2, <3>3
    <2>2. ASSUME EndsBy(q, Len(q))  PROVE EndsBy(r, Len(r))
      BY <1>1, <2>2 DEF EndsBy
    <2>3. ASSUME isTerminalEvent(e)  PROVE EndsBy(r, Len(r))
      BY <1>1, <2>3 DEF EndsBy
    <2> QED  BY <2>1, <2>2, <2>3
  <1>3. ASSUME Closes(q), EndsBy(q, Len(q)) => e.kind = "stdin_closed"  PROVE Closes(r)
    <2> SUFFICES ASSUME NEW i \in DOMAIN r, NEW j \in DOMAIN r, i < j, isTerminalEvent(r[i])
                 PROVE  r[j].kind = "stdin_closed"
      BY DEF Closes
    <2>1. i \in 1..Len(q) /\ r[i] = q[i]
      BY <1>1
    <2>2. CASE j = Len(q) + 1
      BY <1>1, <1>3, <2>1, <2>2 DEF EndsBy
    <2>3. CASE j \in 1..Len(q)
      BY <1>1, <1>3, <2>1, <2>3 DEF Closes
    <2> QED  BY <1>1, <2>2, <2>3
  <1> QED  BY <1>2, <1>3

LEMMA ToldAppend ==
    ASSUME NEW t \in ToolRecords, NEW q, NEW e, NEW r, Logged(r, q, e), Told(t, q)
    PROVE  Told(t, r)
  <1>1. /\ q \in Seq(Events) /\ e \in Events /\ r \in Seq(Events) /\ Len(q) <= Len(r) /\ (\A j \in 1..Len(q) : r[j] = q[j])
    <2>1. /\ q \in Seq(Events) /\ e \in Events /\ r \in Seq(Events) /\ Len(r) = Len(q) + 1 /\ Len(q) \in Nat
          /\ (\A j \in 1..Len(q) : r[j] = q[j])
      BY LogAppend
    <2> QED  BY <2>1
  <1> QED  BY <1>1, ToldKept

LEMMA NotEmpty == ASSUME NEW S, NEW p \in Seq(S), p # <<>>  PROVE Len(p) \in Nat /\ Len(p) > 0 /\ p[1] \in S
  OBVIOUS
LEMMA OneElement == ASSUME NEW S, NEW h \in Seq(S), Len(h) = 1  PROVE h = <<h[1]>>
  OBVIOUS

\* A step of the process, of a stream's goroutine, and of another stream's.
LEMMA FlowWrite ==
    ASSUME NEW q \in Seq(Events), NEW h \in Seq(OutputChunks), NEW p \in Seq(OutputChunks), NEW m \in Nat, NEW s \in Streams,
           Flow(q, h, p, m, s)
    PROVE  /\ Append(p, [kind |-> s, n |-> m + 1]) \in Seq(OutputChunks)
           /\ Flow(q, h, Append(p, [kind |-> s, n |-> m + 1]), m + 1, s)
  <1>1. PICK x, p2 : x = [kind |-> s, n |-> m + 1] /\ p2 = Append(p, x)
    OBVIOUS
  <1>2. x \in OutputChunks
    BY <1>1 DEF OutputChunks
  <1>3. PICK c \in Nat, l \in Nat, k \in Nat : c = Chunks(q, s, Len(q)) /\ l = Len(h) /\ k = Len(p)
    <2>1. Len(q) \in Nat /\ Len(h) \in Nat /\ Len(p) \in Nat
      OBVIOUS
    <2>2. Chunks(q, s, Len(q)) \in Nat
      BY <2>1, ChunksStep
    <2> QED  BY <2>1, <2>2
  <1>4. /\ p2 \in Seq(OutputChunks) /\ Len(p2) = k + 1 /\ p2[k + 1] = x /\ \A i \in 1..k : p2[i] = p[i]
    BY <1>1, <1>2, <1>3
  <1>6. l <= 1 /\ c + l + k = m /\ (\A i \in 1..k : p[i] = [kind |-> s, n |-> c + l + i])
        /\ (\A i \in 1..l : h[i] = [kind |-> s, n |-> c + i])
    BY <1>3 DEF Flow
  <1>7. ASSUME NEW i \in 1..(k + 1)  PROVE p2[i] = [kind |-> s, n |-> c + l + i]
    <2>1. CASE i = k + 1
      <3>1. c + l + i = m + 1
        BY <1>6, <2>1
      <3> QED  BY <1>1, <1>4, <2>1, <3>1
    <2>2. CASE i \in 1..k
      BY <1>4, <1>6, <2>2
    <2> QED  BY <2>1, <2>2
  <1>8. c + l + (k + 1) = m + 1
    BY <1>6
  <1>9. Flow(q, h, p2, m + 1, s)
    BY <1>3, <1>4, <1>6, <1>7, <1>8 DEF Flow
  <1> QED  BY <1>1, <1>4, <1>9

LEMMA FlowRead ==
    ASSUME NEW q \in Seq(Events), NEW p \in Seq(OutputChunks), NEW m \in Nat, NEW s \in Streams,
           Flow(q, <<>>, p, m, s), p # <<>>
    PROVE  /\ <<Head(p)>> \in Seq(OutputChunks) /\ Tail(p) \in Seq(OutputChunks)
           /\ Flow(q, <<Head(p)>>, Tail(p), m, s)
  <1>1. PICK x, h, t : x = Head(p) /\ h = <<x>> /\ t = Tail(p)
    OBVIOUS
  <1>2. PICK k \in Nat : Len(p) = k + 1
    <2>1. Len(p) \in Nat /\ Len(p) > 0
      BY NotEmpty
    <2>2. Len(p) - 1 \in Nat /\ Len(p) = (Len(p) - 1) + 1
      BY <2>1
    <2> QED  BY <2>2
  <1>3. x \in OutputChunks /\ x = p[1] /\ t \in Seq(OutputChunks) /\ Len(t) = k /\ \A i \in 1..k : t[i] = p[i + 1]
    BY <1>1, <1>2
  <1>4. h \in Seq(OutputChunks) /\ Len(h) = 1 /\ h[1] = x
    BY <1>1, <1>3
  <1>5. PICK c \in Nat : c = Chunks(q, s, Len(q))
    <2>1. Len(q) \in Nat
      OBVIOUS
    <2> QED  BY <2>1, ChunksStep
  <1>6. c + (k + 1) = m /\ \A i \in 1..(k + 1) : p[i] = [kind |-> s, n |-> c + i]
    <2>1. Len(<<>>) = 0
      OBVIOUS
    <2>2. c + 0 + (k + 1) = m /\ \A i \in 1..(k + 1) : p[i] = [kind |-> s, n |-> c + 0 + i]
      BY <1>2, <1>5, <2>1 DEF Flow
    <2> QED  BY <2>2
  <1>7. \A i \in 1..1 : h[i] = [kind |-> s, n |-> c + i]
    <2>1. 1 \in 1..(k + 1)
      OBVIOUS
    <2>2. p[1] = [kind |-> s, n |-> c + 1]
      BY <1>6, <2>1
    <2>3. \A i \in 1..1 : i = 1
      OBVIOUS
    <2> QED  BY <1>3, <1>4, <2>2, <2>3
  <1>8. ASSUME NEW i \in 1..k  PROVE t[i] = [kind |-> s, n |-> c + 1 + i]
    <2>1. PICK j : j = i + 1
      OBVIOUS
    <2>2. j \in 1..(k + 1) /\ t[i] = p[j] /\ c + j = c + 1 + i
      BY <1>3, <2>1
    <2> QED  BY <1>6, <2>2
  <1>9. 1 <= 1 /\ c + 1 + k = m
    BY <1>6
  <1>10. Flow(q, h, t, m, s)
    BY <1>3, <1>4, <1>5, <1>7, <1>8, <1>9 DEF Flow
  <1> QED  BY <1>1, <1>3, <1>4, <1>10

LEMMA FlowRecord ==
    ASSUME NEW q \in Seq(Events), NEW h \in Seq(OutputChunks), NEW p \in Seq(OutputChunks), NEW m \in Nat, NEW s \in Streams,
           Flow(q, h, p, m, s), h # <<>>
    PROVE  /\ Logged(q \o h, q, h[1]) /\ h[1].kind = s /\ h[1].n = Chunks(q, s, Len(q)) + 1
           /\ Flow(q \o h, <<>>, p, m, s)
  <1>1. PICK x \in OutputChunks : x = h[1]
    BY NotEmpty
  <1>13. Len(h) <= 1 /\ Len(h) \in Nat
    BY DEF Flow
  <1>14. Len(h) = 1
    <2>1. Len(h) > 0
      BY NotEmpty
    <2>2. PICK l \in Nat : l = Len(h)
      BY <1>13
    <2>3. l <= 1 /\ l > 0
      BY <1>13, <2>1, <2>2
    <2>4. l = 1
      BY ONLY l \in Nat, <2>3
    <2> QED  BY <2>2, <2>4
  <1>2. Len(h) = 1 /\ h = <<x>>
    BY <1>1, <1>14, OneElement
  <1>3. x = [kind |-> s, n |-> Chunks(q, s, Len(q)) + 1]
    BY <1>1, <1>2 DEF Flow
  <1>4. x \in Events
    BY ChunkIsEvent
  <1>5. PICK r : r = q \o h
    OBVIOUS
  <1>6. Logged(r, q, x)
    BY <1>2, <1>4, <1>5 DEF Logged
  <1>7. /\ x.kind = s => Chunks(r, s, Len(r)) = Chunks(q, s, Len(q)) + 1
        /\ Chunks(q, s, Len(q)) \in Nat
    BY ONLY <1>6, CountAppend
  <1>8. PICK c \in Nat, d \in Nat : c = Chunks(q, s, Len(q)) /\ d = Chunks(r, s, Len(r)) /\ d = c + 1
    BY <1>3, <1>7
  <1>9. PICK l \in Nat : l = Len(p)
    OBVIOUS
  <1>10. c + 1 + l = m /\ \A i \in 1..l : p[i] = [kind |-> s, n |-> c + 1 + i]
    BY <1>2, <1>8, <1>9 DEF Flow
  <1>11. d + 0 + l = m /\ \A i \in 1..l : p[i] = [kind |-> s, n |-> d + 0 + i]
    BY <1>8, <1>10
  <1>12. Flow(r, <<>>, p, m, s)
    BY <1>8, <1>9, <1>11 DEF Flow
  <1> QED  BY <1>1, <1>3, <1>5, <1>6, <1>12

LEMMA FlowOther ==
    ASSUME NEW q, NEW h, NEW p, NEW m, NEW s, NEW e, NEW r, Logged(r, q, e), e.kind # s, Flow(q, h, p, m, s)
    PROVE  Flow(r, h, p, m, s)
  <1>1. Chunks(r, s, Len(r)) = Chunks(q, s, Len(q))
    BY CountAppend
  <1> QED  BY <1>1 DEF Flow

\* A call that has read nothing yet.
LEMMA FreshTold ==
    ASSUME NEW t \in ToolRecords, NEW q \in Seq(Events), t.from = t.cursor, t.cursor <= Len(q), t.upto = 0, ~t.end, ~t.trunc,
           \A s \in Streams : t.buf[s] = <<>>, t.pc \in {"get", "report"} => t.timedOut
    PROVE  Told(t, q)
  <1>1. t.cursor \in Nat /\ t.streams \subseteq Streams /\ Len(q) \in Nat
    BY DEF ToolRecords
  <1>2. ASSUME NEW s \in t.streams  PROVE Shows(t.buf[s], t.trunc, Bytes(s, Chunks(q, s, t.from), Chunks(q, s, t.cursor)))
    <2>1. PICK c : c = Chunks(q, s, t.cursor)
      OBVIOUS
    <2>2. c \in Nat
      BY <1>1, <2>1, ChunksStep
    <2>3. PICK b : b = Bytes(s, c, c)
      OBVIOUS
    <2>4. b \in Seq(OutputBytes) /\ Len(b) = 2 * (c - c)
      BY <1>1, <2>2, <2>3, BytesAre
    <2>5. b = <<>>
      BY <2>2, <2>4
    <2> QED  BY <1>1, <2>1, <2>3, <2>5 DEF Shows
  <1> QED  BY <1>1, <1>2 DEF Told

-----------------------------------------------------------------------------
(* The steps *)

LEMMA IdleIs == IdleTool \in ToolRecords /\ IdleTool.pc = "idle" /\ IdleTool.seen = "none" /\ \A q \in Seq(Events) : Told(IdleTool, q)
  <1>1. IdleTool \in ToolRecords
    <2>1. [s \in Streams |-> <<>>] \in [Streams -> Seq(OutputBytes)]
      OBVIOUS
    <2>2. "none" \in SessionStates /\ Streams \in SUBSET Streams
      BY DEF SessionStates
    <2>3. {} \in SUBSET OutputBytes
      OBVIOUS
    <2> QED  BY <2>1, <2>2, <2>3 DEF IdleTool, ToolRecords
  <1>2. /\ IdleTool.pc = "idle" /\ IdleTool.seen = "none" /\ IdleTool.from = 0 /\ IdleTool.cursor = 0 /\ IdleTool.upto = 0
        /\ ~IdleTool.end /\ ~IdleTool.trunc /\ \A s \in Streams : IdleTool.buf[s] = <<>>
    BY DEF IdleTool
  <1>3. ASSUME NEW q \in Seq(Events)  PROVE Told(IdleTool, q)
    <2>1. 0 <= Len(q)
      OBVIOUS
    <2> QED  BY <1>1, <1>2, <2>1, FreshTold
  <1> QED  BY <1>1, <1>2, <1>3

LEMMA InitExec == ASSUME ExecInit  PROVE ExecInv
  <1>1. MaxChunks \in Nat
    BY ExecAssumption
  <1>2. proc \in ProcRecords
    <2>1. 0 \in 0..MaxChunks
      BY <1>1
    <2> QED  BY <2>1 DEF ExecInit, ProcRecords
  <1>3. capture \in CaptureRecords /\ stdin \in [open : BOOLEAN, pipe : BOOLEAN]
    BY DEF ExecInit, CaptureRecords
  <1>4. ExecTyped
    <2>1. sst \in SessionStates /\ sev \in Seq(Events) /\ killers \in [Callers -> {"idle", "term", "kill"}]
      BY DEF ExecInit, SessionStates
    <2>2. writer \in {"idle", "write", "close", "closed"} /\ tool \in ToolRecords /\ report \in ToolRecords
      BY IdleIs DEF ExecInit
    <2> QED  BY <1>2, <1>3, <2>1, <2>2 DEF ExecTyped
  <1>5. sev = <<>> /\ Len(sev) = 0 /\ DOMAIN sev = {}
    BY DEF ExecInit
  <1>6. ChunksNumbered(sev) /\ Closes(sev) /\ ~EndsBy(sev, Len(sev))
    BY <1>5 DEF ChunksNumbered, Closes, EndsBy
  <1>7. Flows
    <2> SUFFICES ASSUME NEW s \in Streams  PROVE Flow(sev, capture.held[s], proc.pipe[s], proc.made[s], s)
      BY DEF Flows
    <2>1. capture.held[s] = <<>> /\ proc.pipe[s] = <<>> /\ proc.made[s] = 0 /\ Len(<<>>) = 0
      BY DEF ExecInit
    <2>2. Chunks(sev, s, 0) = 0
      BY ChunksStep
    <2> QED  BY <1>5, <2>1, <2>2 DEF Flow
  <1>8. SessionOK
    BY <1>5, <1>6 DEF SessionOK, ExecInit, TerminalStates
  <1>9. Told(tool, sev) /\ Reported
    <2>1. tool = IdleTool /\ report = IdleTool /\ sev \in Seq(Events)
      BY <1>4 DEF ExecInit, ExecTyped
    <2>2. \A s \in Streams : IdleTool.buf[s] = <<>> /\ IdleTool.shown[s] = <<>>
      BY DEF IdleTool
    <2>3. Range(<<>>) = {} /\ InPlace(<<>>)
      BY DEF Range, InPlace
    <2>4. \A s \in Streams : Formatted(IdleTool, s)
      BY <2>2, <2>3 DEF Formatted
    <2> QED  BY <2>1, <2>4, IdleIs DEF Reported
  <1> QED  BY <1>4, <1>6, <1>7, <1>8, <1>9 DEF ExecInv

\* A step that leaves the log, the process and the goroutines of the streams alone.
LEMMA QuietStep ==
    ASSUME ExecInv, UNCHANGED <<proc, capture, sev>>, sst' \in SessionStates, sst' \in TerminalStates <=> sst \in TerminalStates,
           sst # "none", sst' # "none", stdin' \in [open : BOOLEAN, pipe : BOOLEAN],
           killers' \in [Callers -> {"idle", "term", "kill"}], writer' \in {"idle", "write", "close", "closed"},
           UNCHANGED <<tool, report>>
    PROVE  ExecInv'
  <1>1. ExecTyped'
    BY DEF ExecInv, ExecTyped
  <1>2. ChunksNumbered(sev)' /\ Flows'
    BY DEF ExecInv, Flows
  <1>3. SessionOK'
    BY DEF ExecInv, SessionOK
  <1>4. Told(tool, sev)' /\ Reported'
    BY DEF ExecInv, Reported
  <1> QED  BY <1>1, <1>2, <1>3, <1>4 DEF ExecInv

\* A step of the tool alone.
LEMMA ToolStep ==
    ASSUME ExecInv, UNCHANGED <<sst, stdin, proc, capture, sev, killers, writer, report>>, tool' \in ToolRecords, Told(tool', sev)
    PROVE  ExecInv'
  <1>1. ExecTyped'
    BY DEF ExecInv, ExecTyped
  <1>2. ChunksNumbered(sev)' /\ Flows'
    BY DEF ExecInv, Flows
  <1>3. SessionOK'
    BY DEF ExecInv, SessionOK
  <1>4. Told(tool, sev)' /\ Reported'
    BY DEF ExecInv, Reported
  <1> QED  BY <1>1, <1>2, <1>3, <1>4 DEF ExecInv

LEMMA ExecProcessWrites == ASSUME ExecInv, NEW s \in Streams, ProcessWrites(s)  PROVE ExecInv'
  <1>0. /\ proc \in ProcRecords /\ capture \in CaptureRecords /\ sev \in Seq(Events) /\ MaxChunks \in Nat
        /\ Flow(sev, capture.held[s], proc.pipe[s], proc.made[s], s)
    BY ExecAssumption DEF ExecInv, ExecTyped, Flows
  <1>1. proc.made \in [Streams -> 0..MaxChunks] /\ proc.pipe \in [Streams -> Seq(OutputChunks)] /\ capture.held[s] \in Seq(OutputChunks)
    BY <1>0 DEF ProcRecords, CaptureRecords
  <1>2. PICK m \in Nat, p \in Seq(OutputChunks), h \in Seq(OutputChunks) : m = proc.made[s] /\ p = proc.pipe[s] /\ h = capture.held[s]
    BY <1>0, <1>1
  <1>3. PICK m2, p2 : m2 = m + 1 /\ p2 = Append(p, [kind |-> s, n |-> m + 1])
    OBVIOUS
  <1>4. Append(p, [kind |-> s, n |-> m + 1]) \in Seq(OutputChunks) /\ Flow(sev, h, Append(p, [kind |-> s, n |-> m + 1]), m + 1, s)
    BY <1>0, <1>2, FlowWrite
  <1>5. m2 \in 0..MaxChunks /\ p2 \in Seq(OutputChunks) /\ Flow(sev, h, p2, m2, s)
    <2>1. m < MaxChunks
      BY <1>2 DEF ProcessWrites
    <2> QED  BY <1>0, <1>3, <1>4, <2>1
  <1>6. proc' = [proc EXCEPT !.made[s] = m2, !.pipe[s] = p2]
    BY <1>2, <1>3 DEF ProcessWrites
  <1>7. PICK made2, pipe2 : made2 = [proc.made EXCEPT ![s] = m2] /\ pipe2 = [proc.pipe EXCEPT ![s] = p2]
    OBVIOUS
  <1>8. made2 \in [Streams -> 0..MaxChunks] /\ pipe2 \in [Streams -> Seq(OutputChunks)]
    BY ONLY <1>1, <1>5, <1>7
  <1>9. proc' = [proc EXCEPT !.made = made2, !.pipe = pipe2]
    BY <1>0, <1>6, <1>7 DEF ProcRecords
  <1>10. proc' \in ProcRecords
    BY ONLY <1>0, <1>8, <1>9 DEF ProcRecords
  <1>11. /\ proc'.made = made2 /\ proc'.pipe = pipe2 /\ proc'.alive = proc.alive /\ proc'.child = proc.child /\ proc'.wait = proc.wait
    BY ONLY <1>0, <1>9 DEF ProcRecords
  <1>12. UNCHANGED <<sst, stdin, capture, sev, killers, writer, tool, report>>
    BY DEF ProcessWrites
  <1>13. ExecTyped'
    BY <1>10, <1>12 DEF ExecInv, ExecTyped
  <1>14. Flows'
    <2> SUFFICES ASSUME NEW t \in Streams  PROVE Flow(sev', capture'.held[t], proc'.pipe[t], proc'.made[t], t)
      BY DEF Flows
    <2>1. CASE t = s
      <3>1. pipe2[s] = p2 /\ made2[s] = m2
        BY <1>1, <1>7
      <3> QED  BY <1>2, <1>5, <1>11, <1>12, <2>1, <3>1
    <2>2. CASE t # s
      <3>1. pipe2[t] = proc.pipe[t] /\ made2[t] = proc.made[t]
        BY <1>1, <1>7, <2>2
      <3> QED  BY <1>11, <1>12, <3>1 DEF ExecInv, Flows
    <2> QED  BY <2>1, <2>2
  <1>15. SessionOK'
    <2>1. sst # "none" /\ proc.wait = "no"
      BY DEF ProcessWrites, ExecInv, SessionOK
    <2> QED  BY <1>11, <1>12, <2>1 DEF ExecInv, SessionOK
  <1> QED  BY <1>12, <1>13, <1>14, <1>15 DEF ExecInv, Reported

\* The process or its child ends, or is signalled.
LEMMA ExecProcessMoves ==
    ASSUME ExecInv, UNCHANGED <<sst, stdin, capture, sev, writer, tool, report>>, killers' \in [Callers -> {"idle", "term", "kill"}],
           NEW a \in BOOLEAN, NEW c \in BOOLEAN, NEW g \in {"none", "term", "kill"}, NEW w \in {"no", "ok", "err"},
           proc' = [proc EXCEPT !.alive = a, !.child = c, !.sig = g],
           a \/ c => proc.alive \/ proc.child
    PROVE  ExecInv'
  <1>0. proc \in ProcRecords
    BY DEF ExecInv, ExecTyped
  <1>1. proc' \in ProcRecords
    BY ONLY <1>0, proc' = [proc EXCEPT !.alive = a, !.child = c, !.sig = g], a \in BOOLEAN, c \in BOOLEAN,
            g \in {"none", "term", "kill"} DEF ProcRecords
  <1>2. proc'.made = proc.made /\ proc'.pipe = proc.pipe /\ proc'.alive = a /\ proc'.child = c /\ proc'.wait = proc.wait
    BY <1>0 DEF ProcRecords
  <1>3. ExecTyped'
    BY <1>1 DEF ExecInv, ExecTyped
  <1>4. Flows' /\ ChunksNumbered(sev)'
    BY <1>2 DEF ExecInv, Flows
  <1>5. SessionOK'
    BY <1>2 DEF ExecInv, SessionOK
  <1> QED  BY <1>3, <1>4, <1>5 DEF ExecInv, Reported

LEMMA ExecProcessExits == ASSUME ExecInv, NEW child \in BOOLEAN, ProcessExits(child)  PROVE ExecInv'
  <1>1. proc \in ProcRecords /\ killers \in [Callers -> {"idle", "term", "kill"}]
    BY DEF ExecInv, ExecTyped
  <1>2. proc.sig \in {"none", "term", "kill"} /\ proc' = [proc EXCEPT !.alive = FALSE, !.child = child, !.sig = proc.sig]
    BY <1>1 DEF ProcRecords, ProcessExits
  <1>3. proc.alive /\ UNCHANGED <<sst, stdin, capture, sev, killers, writer, tool, report>>
    BY DEF ProcessExits
  <1> QED  BY <1>1, <1>2, <1>3, ExecProcessMoves

LEMMA ExecChildExits == ASSUME ExecInv, ChildExits  PROVE ExecInv'
  <1>1. proc \in ProcRecords /\ killers \in [Callers -> {"idle", "term", "kill"}]
    BY DEF ExecInv, ExecTyped
  <1>2. /\ proc.sig \in {"none", "term", "kill"} /\ proc.alive \in BOOLEAN
        /\ proc' = [proc EXCEPT !.alive = proc.alive, !.child = FALSE, !.sig = proc.sig]
    BY <1>1 DEF ProcRecords, ChildExits
  <1>3. proc.child /\ UNCHANGED <<sst, stdin, capture, sev, killers, writer, tool, report>>
    BY DEF ChildExits
  <1> QED  BY <1>1, <1>2, <1>3, ExecProcessMoves

LEMMA ExecSendSignal == ASSUME ExecInv, NEW c \in Callers, SendSignal(c)  PROVE ExecInv'
  <1>1. proc \in ProcRecords /\ killers \in [Callers -> {"idle", "term", "kill"}]
    BY DEF ExecInv, ExecTyped
  <1>2. killers' \in [Callers -> {"idle", "term", "kill"}] /\ UNCHANGED <<sst, stdin, capture, sev, writer, tool, report>>
    BY <1>1 DEF SendSignal
  <1>3. proc.alive \in BOOLEAN /\ proc.child \in BOOLEAN /\ proc.sig \in {"none", "term", "kill"}
    BY <1>1 DEF ProcRecords
  <1>4. PICK g \in {"none", "term", "kill"} : proc' = [proc EXCEPT !.sig = g]
    <2>1. CASE proc' = proc
      <3>1. proc' = [proc EXCEPT !.sig = proc.sig]
        BY <1>1, <2>1 DEF ProcRecords
      <3> QED  BY <1>3, <3>1
    <2>2. CASE proc' = [proc EXCEPT !.sig = IF proc.alive /\ @ # "kill" THEN killers[c] ELSE @]
      <3>1. killers[c] \in {"term", "kill"}
        BY <1>1 DEF SendSignal
      <3>2. PICK g \in {"none", "term", "kill"} : g = IF proc.alive /\ proc.sig # "kill" THEN killers[c] ELSE proc.sig
        BY <1>3, <3>1
      <3> QED  BY <2>2, <3>2
    <2> QED  BY <2>1, <2>2 DEF SendSignal
  <1>5. proc' = [proc EXCEPT !.alive = proc.alive, !.child = proc.child, !.sig = g]
    BY <1>1, <1>4 DEF ProcRecords
  <1> QED  BY <1>2, <1>3, <1>5, ExecProcessMoves

LEMMA ExecProcessWait == ASSUME ExecInv, NEW result \in {"ok", "err"}, ProcessWait(result)  PROVE ExecInv'
  <1>0. proc \in ProcRecords /\ stdin \in [open : BOOLEAN, pipe : BOOLEAN]
    BY DEF ExecInv, ExecTyped
  <1>1. /\ sst # "none" /\ ~proc.alive /\ ~proc.child /\ proc' = [proc EXCEPT !.wait = result]
        /\ \A s \in Streams : proc.pipe[s] = <<>>
        /\ UNCHANGED <<sst, capture, sev, killers, writer, tool, report>>
    BY DEF ProcessWait
  <1>2. /\ proc' \in ProcRecords /\ proc'.made = proc.made /\ proc'.pipe = proc.pipe /\ proc'.alive = proc.alive
        /\ proc'.child = proc.child /\ proc'.wait = result
    BY <1>0, <1>1 DEF ProcRecords
  <1>3. stdin' \in [open : BOOLEAN, pipe : BOOLEAN]
    BY <1>0 DEF ProcessWait
  <1>4. ExecTyped'
    BY <1>1, <1>2, <1>3 DEF ExecInv, ExecTyped
  <1>5. Flows' /\ ChunksNumbered(sev)'
    BY <1>1, <1>2 DEF ExecInv, Flows
  <1>6. SessionOK'
    BY <1>1, <1>2 DEF ExecInv, SessionOK
  <1> QED  BY <1>1, <1>4, <1>5, <1>6 DEF ExecInv, Reported

LEMMA ExecCaptureRead == ASSUME ExecInv, NEW s \in Streams, CaptureRead(s)  PROVE ExecInv'
  <1>0. /\ proc \in ProcRecords /\ capture \in CaptureRecords /\ sev \in Seq(Events) /\ MaxChunks \in Nat
        /\ Flow(sev, capture.held[s], proc.pipe[s], proc.made[s], s)
    BY ExecAssumption DEF ExecInv, ExecTyped, Flows
  <1>1. /\ proc.made \in [Streams -> 0..MaxChunks] /\ proc.pipe \in [Streams -> Seq(OutputChunks)]
        /\ capture.held \in [Streams -> Seq(OutputChunks)] /\ capture.done \in SUBSET Streams
    BY <1>0 DEF ProcRecords, CaptureRecords
  <1>2. PICK m \in Nat, p \in Seq(OutputChunks) : m = proc.made[s] /\ p = proc.pipe[s]
    BY <1>0, <1>1
  <1>3. s \notin capture.done /\ capture.held[s] = <<>> /\ p # <<>>
    BY <1>2 DEF CaptureRead
  <1>4. PICK h2, p2 : h2 = <<Head(p)>> /\ p2 = Tail(p)
    OBVIOUS
  <1>5. h2 \in Seq(OutputChunks) /\ p2 \in Seq(OutputChunks) /\ Flow(sev, h2, p2, m, s)
    <2>1. Flow(sev, <<>>, p, m, s)
      BY <1>0, <1>2, <1>3
    <2> QED  BY <1>0, <1>3, <1>4, <2>1, FlowRead
  <1>6. proc' = [proc EXCEPT !.pipe[s] = p2] /\ capture' = [capture EXCEPT !.held[s] = h2]
    BY <1>2, <1>4 DEF CaptureRead
  <1>7. PICK held2, pipe2 : held2 = [capture.held EXCEPT ![s] = h2] /\ pipe2 = [proc.pipe EXCEPT ![s] = p2]
    OBVIOUS
  <1>8. held2 \in [Streams -> Seq(OutputChunks)] /\ pipe2 \in [Streams -> Seq(OutputChunks)]
    BY ONLY <1>1, <1>5, <1>7
  <1>9. proc' = [proc EXCEPT !.pipe = pipe2] /\ capture' = [capture EXCEPT !.held = held2]
    BY <1>0, <1>6, <1>7 DEF ProcRecords, CaptureRecords
  <1>10. /\ proc' \in ProcRecords /\ proc'.made = proc.made /\ proc'.pipe = pipe2 /\ proc'.alive = proc.alive
         /\ proc'.child = proc.child /\ proc'.wait = proc.wait
    BY ONLY <1>0, <1>8, <1>9 DEF ProcRecords
  <1>11. capture' \in CaptureRecords /\ capture'.held = held2 /\ capture'.done = capture.done
    BY ONLY <1>0, <1>8, <1>9 DEF CaptureRecords
  <1>12. UNCHANGED <<sst, stdin, sev, killers, writer, tool, report>>
    BY DEF CaptureRead
  <1>13. ExecTyped'
    BY <1>10, <1>11, <1>12 DEF ExecInv, ExecTyped
  <1>14. Flows'
    <2> SUFFICES ASSUME NEW t \in Streams  PROVE Flow(sev', capture'.held[t], proc'.pipe[t], proc'.made[t], t)
      BY DEF Flows
    <2>1. CASE t = s
      <3>1. pipe2[s] = p2 /\ held2[s] = h2
        BY <1>1, <1>7
      <3> QED  BY <1>2, <1>5, <1>10, <1>11, <1>12, <2>1, <3>1
    <2>2. CASE t # s
      <3>1. pipe2[t] = proc.pipe[t] /\ held2[t] = capture.held[t]
        BY <1>1, <1>7, <2>2
      <3> QED  BY <1>10, <1>11, <1>12, <3>1 DEF ExecInv, Flows
    <2> QED  BY <2>1, <2>2
  <1>15. SessionOK'
    <2>1. \A t \in capture.done : t # s /\ held2[t] = capture.held[t]
      BY <1>1, <1>3, <1>7
    <2>2. proc.wait # "no" => FALSE
      BY <1>2, <1>3 DEF ExecInv, SessionOK
    <2> QED  BY <1>10, <1>11, <1>12, <2>1, <2>2 DEF ExecInv, SessionOK
  <1> QED  BY <1>12, <1>13, <1>14, <1>15 DEF ExecInv, Reported

\* The log grows by an event that is not the end of the session.
LEMMA LogGrows ==
    ASSUME ExecInv, NEW e, Logged(sev', sev, e)
    PROVE  /\ sev' \in Seq(Events) /\ (UNCHANGED tool => Told(tool, sev)') /\ (UNCHANGED report => Reported')
           /\ (\A s \in Streams : e.kind # s => Flow(sev', capture.held[s], proc.pipe[s], proc.made[s], s))
  <1>1. tool \in ToolRecords /\ report \in ToolRecords /\ Told(tool, sev) /\ Reported
    BY DEF ExecInv, ExecTyped
  <1>2. PICK q, r : q = sev /\ r = sev'
    OBVIOUS
  <1>3. Logged(r, q, e) /\ Told(tool, q) /\ Told(report, q)
    BY <1>1, <1>2 DEF Reported
  <1>4. Told(tool, r) /\ Told(report, r)
    BY <1>1, <1>3, ToldAppend
  <1>5. r \in Seq(Events)
    BY <1>3, LogAppend
  <1>6. ASSUME NEW s \in Streams, e.kind # s  PROVE Flow(r, capture.held[s], proc.pipe[s], proc.made[s], s)
    <2>1. PICK h, p, m : h = capture.held[s] /\ p = proc.pipe[s] /\ m = proc.made[s]
      OBVIOUS
    <2>2. Flow(q, h, p, m, s)
      BY <1>2, <2>1 DEF ExecInv, Flows
    <2>3. Flow(r, h, p, m, s)
      BY <1>3, <1>6, <2>2, FlowOther
    <2> QED  BY <2>1, <2>3
  <1> QED  BY <1>1, <1>2, <1>4, <1>5, <1>6 DEF Reported

LEMMA ExecappendOutput == ASSUME ExecInv, NEW s \in Streams, appendOutput(s)  PROVE ExecInv'
  <1>0. /\ proc \in ProcRecords /\ capture \in CaptureRecords /\ sev \in Seq(Events) /\ MaxChunks \in Nat
        /\ Flow(sev, capture.held[s], proc.pipe[s], proc.made[s], s)
    BY ExecAssumption DEF ExecInv, ExecTyped, Flows
  <1>1. /\ proc.made \in [Streams -> 0..MaxChunks] /\ proc.pipe \in [Streams -> Seq(OutputChunks)]
        /\ capture.held \in [Streams -> Seq(OutputChunks)] /\ capture.done \in SUBSET Streams
    BY <1>0 DEF ProcRecords, CaptureRecords
  <1>2. PICK m \in Nat, p \in Seq(OutputChunks), h \in Seq(OutputChunks) : m = proc.made[s] /\ p = proc.pipe[s] /\ h = capture.held[s]
    BY <1>0, <1>1
  <1>3. h # <<>> /\ sev' = sev \o h /\ capture' = [capture EXCEPT !.held[s] = <<>>]
    BY <1>2 DEF appendOutput
  <1>4. PICK e : e = h[1]
    OBVIOUS
  <1>5. /\ Logged(sev', sev, e) /\ e.kind = s /\ e.n = Chunks(sev, s, Len(sev)) + 1
        /\ Flow(sev', <<>>, p, m, s)
    BY <1>0, <1>2, <1>3, <1>4, FlowRecord
  <1>6. PICK held2 : held2 = [capture.held EXCEPT ![s] = <<>>]
    OBVIOUS
  <1>7. held2 \in [Streams -> Seq(OutputChunks)] /\ held2[s] = <<>> /\ \A t \in Streams : t # s => held2[t] = capture.held[t]
    BY <1>1, <1>6
  <1>8. capture' = [capture EXCEPT !.held = held2]
    BY <1>0, <1>3, <1>6 DEF CaptureRecords
  <1>9. capture' \in CaptureRecords /\ capture'.held = held2 /\ capture'.done = capture.done
    BY ONLY <1>0, <1>7, <1>8 DEF CaptureRecords
  <1>10. UNCHANGED <<sst, stdin, proc, killers, writer, tool, report>>
    BY DEF appendOutput
  <1>11. sev' \in Seq(Events) /\ Told(tool, sev)' /\ Reported' /\ \A t \in Streams : e.kind # t => Flow(sev', capture.held[t], proc.pipe[t], proc.made[t], t)
    BY <1>5, <1>10, LogGrows
  <1>12. ExecTyped'
    BY <1>9, <1>10, <1>11 DEF ExecInv, ExecTyped
  <1>13. ChunksNumbered(sev)'
    <2>1. PICK q, r : q = sev /\ r = sev'
      OBVIOUS
    <2>2. Logged(r, q, e) /\ ChunksNumbered(q) /\ e.n = Chunks(q, e.kind, Len(q)) + 1
      BY <1>5, <2>1 DEF ExecInv
    <2>3. ChunksNumbered(r)
      BY ONLY <2>2, NumberedAppend
    <2> QED  BY <2>1, <2>3
  <1>14. Flows'
    <2> SUFFICES ASSUME NEW t \in Streams  PROVE Flow(sev', capture'.held[t], proc'.pipe[t], proc'.made[t], t)
      BY DEF Flows
    <2>1. CASE t = s
      BY <1>2, <1>5, <1>7, <1>9, <1>10, <2>1
    <2>2. CASE t # s
      BY <1>5, <1>7, <1>9, <1>10, <1>11, <2>2
    <2> QED  BY <2>1, <2>2
  <1>15. s \notin capture.done /\ sst \notin TerminalStates
    BY <1>2, <1>3 DEF ExecInv, SessionOK
  <1>16. sst # "none"
    <2>1. ASSUME sst = "none"  PROVE FALSE
      <3>1. m = 0 /\ Len(h) \in Nat /\ Len(p) \in Nat /\ Len(sev) \in Nat
        BY <1>0, <1>2, <2>1 DEF ExecInv, SessionOK
      <3>2. Chunks(sev, s, Len(sev)) \in Nat
        BY <3>1, ChunksStep
      <3>3. Chunks(sev, s, Len(sev)) + Len(h) + Len(p) = 0
        BY <1>0, <1>2, <3>1 DEF Flow
      <3>4. Len(h) = 0
        BY <3>1, <3>2, <3>3
      <3> QED  BY <1>3, <3>4
    <2> QED  BY <2>1
  <1>17. ~EndsBy(sev', Len(sev')) /\ Closes(sev')
    <2>1. PICK q, r : q = sev /\ r = sev'
      OBVIOUS
    <2>2. Logged(r, q, e) /\ Closes(q) /\ ~EndsBy(q, Len(q)) /\ ~isTerminalEvent(e)
      BY <1>5, <1>15, <2>1 DEF ExecInv, SessionOK, isTerminalEvent, Streams
    <2>3. ~EndsBy(r, Len(r)) /\ Closes(r)
      BY ONLY <2>2, EndsAppend
    <2> QED  BY <2>1, <2>3
  <1>18. SessionOK'
    <2>1. \A t \in capture.done : proc.wait # "no" /\ held2[t] = <<>>
      BY <1>1, <1>7, <1>15 DEF ExecInv, SessionOK
    <2>2. proc.wait # "no" => sst # "none" /\ ~proc.alive /\ ~proc.child /\ \A t \in Streams : proc.pipe[t] = <<>>
      BY DEF ExecInv, SessionOK
    <2> QED  BY <1>9, <1>10, <1>15, <1>16, <1>17, <2>1, <2>2 DEF SessionOK
  <1> QED  BY <1>11, <1>12, <1>13, <1>14, <1>18 DEF ExecInv

LEMMA ExeccaptureStream == ASSUME ExecInv, NEW s \in Streams, captureStream(s)  PROVE ExecInv'
  <1>0. capture \in CaptureRecords
    BY DEF ExecInv, ExecTyped
  <1>1. /\ proc.wait # "no" /\ capture.held[s] = <<>> /\ capture' = [capture EXCEPT !.done = @ \union {s}]
        /\ UNCHANGED <<sst, stdin, proc, sev, killers, writer, tool, report>>
    BY DEF captureStream
  <1>2. capture' \in CaptureRecords /\ capture'.held = capture.held /\ capture'.done = capture.done \cup {s}
    BY <1>0, <1>1 DEF CaptureRecords
  <1>3. ExecTyped'
    BY <1>1, <1>2 DEF ExecInv, ExecTyped
  <1>4. Flows' /\ ChunksNumbered(sev)'
    BY <1>1, <1>2 DEF ExecInv, Flows
  <1>5. SessionOK'
    BY <1>0, <1>1, <1>2 DEF ExecInv, SessionOK, CaptureRecords
  <1> QED  BY <1>1, <1>3, <1>4, <1>5 DEF ExecInv, Reported

\* A step that records an event without output and leaves the process and the goroutines of the streams alone.
LEMMA LogStep ==
    ASSUME ExecInv, NEW e, Logged(sev', sev, e), e.kind \notin Streams, UNCHANGED <<proc, capture, tool, report>>,
           sst' \in SessionStates, sst # "none", sst' # "none",
           stdin' \in [open : BOOLEAN, pipe : BOOLEAN], killers' \in [Callers -> {"idle", "term", "kill"}],
           writer' \in {"idle", "write", "close", "closed"},
           sst' \in TerminalStates => capture.done = Streams,
           sst' \in TerminalStates <=> (sst \in TerminalStates \/ isTerminalEvent(e)),
           sst \in TerminalStates => e.kind = "stdin_closed"
    PROVE  ExecInv'
  <1>1. sev' \in Seq(Events) /\ Told(tool, sev)' /\ Reported' /\ \A t \in Streams : e.kind # t => Flow(sev', capture.held[t], proc.pipe[t], proc.made[t], t)
    BY LogGrows
  <1>2. ExecTyped'
    BY <1>1 DEF ExecInv, ExecTyped
  <1>3. Flows'
    BY <1>1 DEF Flows
  <1>4. PICK q, r : q = sev /\ r = sev'
    OBVIOUS
  <1>5. Logged(r, q, e) /\ ChunksNumbered(q) /\ Closes(q) /\ (sst \in TerminalStates <=> EndsBy(q, Len(q)))
    BY <1>4 DEF ExecInv, SessionOK
  <1>6. ChunksNumbered(r)
    BY <1>5, NumberedAppend
  <1>7. EndsBy(r, Len(r)) <=> (EndsBy(q, Len(q)) \/ isTerminalEvent(e))
    BY ONLY <1>5, EndsAppend
  <1>8. Closes(r)
    <2>1. EndsBy(q, Len(q)) => e.kind = "stdin_closed"
      BY <1>5
    <2> QED  BY ONLY <1>5, <2>1, EndsAppend
  <1>9. SessionOK'
    BY <1>4, <1>5, <1>7, <1>8 DEF ExecInv, SessionOK
  <1> QED  BY <1>1, <1>2, <1>3, <1>4, <1>6, <1>9 DEF ExecInv

LEMMA ExecwaitForExit == ASSUME ExecInv, waitForExit  PROVE ExecInv'
  <1>1. /\ sev \in Seq(Events) /\ stdin \in [open : BOOLEAN, pipe : BOOLEAN] /\ writer \in {"idle", "write", "close", "closed"}
        /\ killers \in [Callers -> {"idle", "term", "kill"}]
    BY DEF ExecInv, ExecTyped
  <1>2. /\ sst \in {"running", "terminating"} /\ capture.done = Streams /\ sst' = ExitState /\ sev' = Append(sev, ExitEvent)
        /\ UNCHANGED <<stdin, proc, capture, killers, writer, tool, report>>
    BY DEF waitForExit, StreamsDrained
  <1>3. ExitState \in TerminalStates /\ ExitState \in SessionStates /\ ExitState # "none" /\ sst \notin TerminalStates
    BY <1>2 DEF ExitState, TerminalStates, SessionStates
  <1>4. PICK e : e = ExitEvent
    OBVIOUS
  <1>5. e \in Events /\ isTerminalEvent(e) /\ e.kind \notin Streams
    BY <1>4 DEF ExitEvent, Event, Events, EventKinds, isTerminalEvent, Streams
  <1>6. Logged(sev', sev, e)
    BY <1>1, <1>2, <1>4, <1>5 DEF Logged
  <1> QED  BY <1>1, <1>2, <1>3, <1>5, <1>6, LogStep

\* TerminateSession marks a session that runs.
LEMMA TerminateMarks ==
    ASSUME ExecInv, NEW c \in Callers, NEW force \in BOOLEAN, TerminateSession(c, force)
    PROVE  /\ sst' \in SessionStates /\ sst # "none" /\ sst' # "none" /\ (sst' \in TerminalStates <=> sst \in TerminalStates)
           /\ killers' \in [Callers -> {"idle", "term", "kill"}]
  <1>1. sst \in SessionStates /\ killers \in [Callers -> {"idle", "term", "kill"}]
    BY DEF ExecInv, ExecTyped
  <1>2. sst # "none"
    BY DEF TerminateSession
  <1>3. CASE sst \in TerminalStates
    BY <1>1, <1>2, <1>3 DEF TerminateSession
  <1>4. CASE sst \notin TerminalStates
    <2>1. PICK k \in {"term", "kill"} : k = IF force THEN "kill" ELSE "term"
      OBVIOUS
    <2>2. sst' = "terminating" /\ killers' = [killers EXCEPT ![c] = k]
      BY <1>4, <2>1 DEF TerminateSession
    <2> QED  BY <1>1, <1>2, <1>4, <2>2 DEF SessionStates, TerminalStates
  <1> QED  BY <1>3, <1>4

LEMMA ExecExecKill == ASSUME ExecInv, NEW force \in BOOLEAN, ExecKill(force)  PROVE ExecInv'
  <1>1. /\ sst' \in SessionStates /\ sst # "none" /\ sst' # "none" /\ (sst' \in TerminalStates <=> sst \in TerminalStates)
        /\ killers' \in [Callers -> {"idle", "term", "kill"}]
    <2>1. "exec_kill" \in Callers /\ TerminateSession("exec_kill", force)
      BY DEF ExecKill, Callers
    <2> QED  BY <2>1, TerminateMarks
  <1>2. UNCHANGED <<stdin, proc, capture, sev, writer, tool, report>>
    BY DEF ExecKill
  <1>3. stdin \in [open : BOOLEAN, pipe : BOOLEAN] /\ writer \in {"idle", "write", "close", "closed"}
    BY DEF ExecInv, ExecTyped
  <1> QED  BY <1>1, <1>2, <1>3, QuietStep

LEMMA ExecWriteStdin == ASSUME ExecInv, WriteStdin \/ \E close \in BOOLEAN : WriteSessionStdin(close)  PROVE ExecInv'
  <1>1. /\ stdin \in [open : BOOLEAN, pipe : BOOLEAN] /\ writer \in {"idle", "write", "close", "closed"}
        /\ killers \in [Callers -> {"idle", "term", "kill"}] /\ sst \in SessionStates
    BY DEF ExecInv, ExecTyped
  <1>2. UNCHANGED <<sst, proc, capture, sev, killers, tool, report>>
    BY DEF WriteStdin, WriteSessionStdin
  <1>3. sst # "none"
    BY DEF WriteStdin, WriteSessionStdin, ExecInv, SessionOK
  <1>4. writer' \in {"idle", "write", "close", "closed"}
    BY DEF WriteStdin, WriteSessionStdin
  <1>5. stdin' \in [open : BOOLEAN, pipe : BOOLEAN]
    <2>1. CASE WriteStdin
      BY <1>1, <2>1 DEF WriteStdin
    <2>2. CASE \E close \in BOOLEAN : WriteSessionStdin(close)
      BY <1>1, <2>2 DEF WriteSessionStdin
    <2> QED  BY <2>1, <2>2
  <1> QED  BY <1>1, <1>2, <1>3, <1>4, <1>5, QuietStep

LEMMA ExecmarkStdinClosed == ASSUME ExecInv, markStdinClosed  PROVE ExecInv'
  <1>1. /\ stdin \in [open : BOOLEAN, pipe : BOOLEAN] /\ killers \in [Callers -> {"idle", "term", "kill"}] /\ sst \in SessionStates
        /\ sev \in Seq(Events)
    BY DEF ExecInv, ExecTyped
  <1>2. /\ UNCHANGED <<sst, proc, capture, killers, tool, report>> /\ writer' = "idle"
        /\ stdin' = [stdin EXCEPT !.open = FALSE]
    BY DEF markStdinClosed
  <1>3. stdin' \in [open : BOOLEAN, pipe : BOOLEAN] /\ sst # "none"
    BY <1>1, <1>2 DEF markStdinClosed, ExecInv, SessionOK
  <1>4. CASE stdin.open
    <2>1. PICK e : e = Event("stdin_closed")
      OBVIOUS
    <2>2. e \in Events /\ ~isTerminalEvent(e) /\ e.kind \notin Streams /\ e.kind = "stdin_closed"
      BY <2>1 DEF Event, Events, EventKinds, isTerminalEvent, Streams
    <2>3. Logged(sev', sev, e)
      BY <1>1, <1>4, <2>1, <2>2 DEF Logged, markStdinClosed
    <2>4. sst \in TerminalStates => capture.done = Streams
      BY DEF ExecInv, SessionOK
    <2> QED  BY <1>1, <1>2, <1>3, <2>2, <2>3, <2>4, LogStep
  <1>5. CASE ~stdin.open
    <2>1. sev' = sev
      BY <1>5 DEF markStdinClosed
    <2> QED  BY <1>1, <1>2, <1>3, <2>1, QuietStep
  <1> QED  BY <1>4, <1>5

LEMMA ExecStartSession ==
    ASSUME ExecInv, NEW keep \in BOOLEAN, NEW maxChars \in Budgets, NEW wait \in BOOLEAN, StartSession(keep, maxChars, wait)
    PROVE  ExecInv'
  <1>0. /\ proc \in ProcRecords /\ tool \in ToolRecords /\ report \in ToolRecords /\ maxChars \in Nat /\ capture \in CaptureRecords
        /\ killers \in [Callers -> {"idle", "term", "kill"}]
    BY ExecAssumption DEF ExecInv, ExecTyped
  <1>1. sst = "none" /\ sev = <<>> /\ writer = "idle" /\ \A s \in Streams : proc.made[s] = 0
    BY DEF StartSession, ExecInv, SessionOK
  <1>2. proc.wait = "no" /\ capture.done = {}
    BY <1>1, <1>0 DEF ExecInv, SessionOK, CaptureRecords
  <1>3. /\ sst' = "running" /\ proc' = [proc EXCEPT !.alive = TRUE] /\ stdin' = [open |-> keep, pipe |-> keep]
        /\ sev' = <<Event("started")>> \o (IF keep THEN <<>> ELSE <<Event("stdin_closed")>>)
        /\ tool' = [IdleTool EXCEPT !.pc = IF wait THEN "watch" ELSE "get", !.op = "exec", !.room = maxChars, !.timedOut = ~wait]
        /\ UNCHANGED <<capture, killers, writer, report>>
    BY DEF StartSession
  <1>4. PICK a, b : a = Event("started") /\ b = Event("stdin_closed")
    OBVIOUS
  <1>5. /\ a \in Events /\ b \in Events /\ a.kind \notin Streams /\ b.kind \notin Streams
        /\ ~isTerminalEvent(a) /\ ~isTerminalEvent(b)
    BY <1>4 DEF Event, Events, EventKinds, isTerminalEvent, Streams
  <1>6. PICK q : q = sev'
    OBVIOUS
  <1>7. /\ q \in Seq(Events) /\ Len(q) \in Nat
        /\ \A i \in DOMAIN q : q[i].kind \notin Streams /\ ~isTerminalEvent(q[i])
    <2>1. CASE keep
      <3>1. q = <<a>>
        BY <1>3, <1>4, <1>6, <2>1
      <3> QED  BY <1>5, <3>1
    <2>2. CASE ~keep
      <3>2. q = <<a>> \o <<b>>
        BY <1>3, <1>4, <1>6, <2>2
      <3>3. <<a>> \in Seq(Events) /\ Len(<<a>>) = 1 /\ <<a>>[1] = a /\ <<b>> \in Seq(Events) /\ Len(<<b>>) = 1 /\ <<b>>[1] = b
        BY <1>5
      <3>4. PICK f, g : f = <<a>> /\ g = <<b>>
        OBVIOUS
      <3>5. f \in Seq(Events) /\ Len(f) = 1 /\ f[1] = a /\ g \in Seq(Events) /\ Len(g) = 1 /\ g[1] = b /\ q = f \o g
        BY ONLY <3>2, <3>3, <3>4
      <3>6. /\ f \o g \in Seq(Events) /\ Len(f \o g) = Len(f) + Len(g) /\ (\A i \in 1..Len(f) : (f \o g)[i] = f[i])
            /\ (\A i \in 1..Len(g) : (f \o g)[Len(f) + i] = g[i])
        <4>1. f \in Seq(Events) /\ g \in Seq(Events)
          BY <3>5
        <4> QED  BY ONLY <4>1, ConcatFacts
      <3>7. 1 \in 1..Len(f) /\ 1 \in 1..Len(g) /\ Len(f) + 1 = 2 /\ Len(f) + Len(g) = 2
        BY ONLY <3>5
      <3>1. q \in Seq(Events) /\ Len(q) = 2 /\ q[1] = a /\ q[2] = b
        BY ONLY <3>5, <3>6, <3>7
      <3> QED  BY <1>5, <3>1
    <2> QED  BY <2>1, <2>2
  <1>8. ASSUME NEW s \in Streams  PROVE Chunks(q, s, Len(q)) = 0
    <2>1. \A j \in 1..Len(q) : q[j].kind # s
      BY <1>7
    <2>2. PICK n \in Nat, z \in Nat : n = Len(q) /\ z = 0
      BY <1>7
    <2>3. z <= n /\ \A j \in (z + 1)..n : q[j].kind # s
      BY <2>1, <2>2
    <2>4. Chunks(q, s, z) = Chunks(q, s, n)
      BY ONLY <2>3, z \in Nat, n \in Nat, ChunksQuiet
    <2>5. Chunks(q, s, 0) = 0
      BY ChunksStep
    <2> QED  BY <2>2, <2>4, <2>5
  <1>9. proc' \in ProcRecords /\ proc'.made = proc.made /\ proc'.pipe = proc.pipe /\ proc'.wait = proc.wait
    BY <1>0, <1>3 DEF ProcRecords
  <1>10. tool' \in ToolRecords /\ Told(tool', q)
    <2>1. PICK pc \in {"watch", "get"} : pc = IF wait THEN "watch" ELSE "get"
      OBVIOUS
    <2>2. PICK t : t = [IdleTool EXCEPT !.pc = pc, !.op = "exec", !.room = maxChars, !.timedOut = ~wait]
      OBVIOUS
    <2>3. t \in ToolRecords
      BY <1>0, <2>2, IdleIs DEF ToolRecords
    <2>4. /\ t.pc = pc /\ t.timedOut = ~wait /\ t.from = 0 /\ t.cursor = 0 /\ t.upto = 0 /\ ~t.end /\ ~t.trunc
          /\ \A s \in Streams : t.buf[s] = <<>>
      BY <2>2 DEF IdleTool
    <2>5. t.pc \in {"get", "report"} => t.timedOut
      BY <2>1, <2>4
    <2>6. Told(t, q)
      <3>1. t.from = t.cursor /\ t.cursor <= Len(q)
        BY <1>7, <2>4
      <3> QED  BY <1>7, <2>3, <2>4, <2>5, <3>1, FreshTold
    <2> QED  BY <1>3, <2>1, <2>2, <2>3, <2>6
  <1>11. Reported'
    <2>1. Told(report, sev)
      BY DEF ExecInv, Reported
    <2>2. PICK p : p = sev
      OBVIOUS
    <2>3. p \in Seq(Events) /\ Len(p) <= Len(q) /\ \A j \in 1..Len(p) : q[j] = p[j]
      BY <1>1, <1>7, <2>2
    <2>4. Told(report, p)
      BY <2>1, <2>2
    <2>5. Told(report, q)
      BY ONLY <1>0, <1>7, <2>3, <2>4, ToldKept
    <2> QED  BY <1>3, <1>6, <2>5 DEF ExecInv, Reported
  <1>12. ExecTyped'
    <2>1. stdin' \in [open : BOOLEAN, pipe : BOOLEAN] /\ sst' \in SessionStates
      BY <1>3 DEF SessionStates
    <2> QED  BY <1>0, <1>1, <1>3, <1>6, <1>7, <1>9, <1>10, <2>1 DEF ExecTyped
  <1>13. ChunksNumbered(q) /\ Closes(q) /\ ~EndsBy(q, Len(q))
    BY <1>7 DEF ChunksNumbered, Closes, EndsBy
  <1>14. Flows'
    <2> SUFFICES ASSUME NEW s \in Streams  PROVE Flow(q, capture.held[s], proc.pipe[s], proc.made[s], s)
      BY <1>3, <1>6, <1>9 DEF Flows
    <2>1. Chunks(sev, s, Len(sev)) = 0 /\ Flow(sev, capture.held[s], proc.pipe[s], proc.made[s], s)
      <3>1. Len(sev) = 0
        BY <1>1
      <3> QED  BY <3>1, ChunksStep DEF ExecInv, Flows
    <2>2. Chunks(q, s, Len(q)) = 0
      BY <1>8
    <2> QED  BY <2>1, <2>2 DEF Flow
  <1>15. SessionOK'
    BY <1>2, <1>3, <1>6, <1>9, <1>13 DEF SessionOK, TerminalStates
  <1> QED  BY <1>6, <1>10, <1>11, <1>12, <1>13, <1>14, <1>15 DEF ExecInv

LEMMA ExecExecRead ==
    ASSUME ExecInv, NEW selection \in Selections, NEW maxChars \in Budgets, ExecRead(selection, maxChars)  PROVE ExecInv'
  <1>1. /\ report \in ToolRecords /\ maxChars \in Nat /\ selection \in SUBSET Streams /\ sev \in Seq(Events) /\ Told(report, sev)
    BY ExecAssumption DEF ExecInv, ExecTyped, Reported, Selections, Streams
  <1>2. PICK c \in Nat : c = report.cursor /\ c <= Len(sev)
    BY <1>1 DEF ToolRecords, Told
  <1>3. PICK t : t = [IdleTool EXCEPT !.pc = "watch", !.op = "exec_read", !.from = c, !.cursor = c, !.room = maxChars, !.streams = selection]
    OBVIOUS
  <1>4. t \in ToolRecords
    BY <1>1, <1>3, IdleIs DEF ToolRecords
  <1>5. /\ t.pc = "watch" /\ t.from = c /\ t.cursor = c /\ t.upto = 0 /\ ~t.end /\ ~t.trunc /\ \A s \in Streams : t.buf[s] = <<>>
    BY <1>3 DEF IdleTool
  <1>6. Told(t, sev)
    BY <1>1, <1>2, <1>4, <1>5, FreshTold
  <1>7. tool' = t /\ UNCHANGED <<sst, stdin, proc, capture, sev, killers, writer, report>>
    BY <1>2, <1>3 DEF ExecRead
  <1> QED  BY <1>4, <1>6, <1>7, ToolStep

LEMMA ExecWatchSession == ASSUME ExecInv, WatchSession  PROVE ExecInv'
  <1>1. tool \in ToolRecords /\ sev \in Seq(Events) /\ Told(tool, sev) /\ Len(sev) \in Nat
    BY DEF ExecInv, ExecTyped
  <1>2. PICK n \in Nat, d \in BOOLEAN : n = Len(sev) /\ (d <=> sst \in TerminalStates)
    BY <1>1
  <1>3. PICK t : t = [tool EXCEPT !.upto = n, !.end = d]
    OBVIOUS
  <1>4. t \in ToolRecords
    BY <1>1, <1>3 DEF ToolRecords
  <1>5. /\ t.from = tool.from /\ t.cursor = tool.cursor /\ t.upto = n /\ t.end = d /\ t.trunc = tool.trunc /\ t.room = tool.room
        /\ t.streams = tool.streams /\ t.buf = tool.buf /\ t.pc = tool.pc /\ t.timedOut = tool.timedOut
    BY <1>1, <1>3 DEF ToolRecords
  <1>6. d => EndsBy(sev, n)
    BY <1>2 DEF ExecInv, SessionOK
  <1>7. Told(t, sev)
    BY <1>1, <1>2, <1>5, <1>6 DEF Told
  <1>8. tool' = t
    <2>1. (sst \in TerminalStates) = d
      BY <1>2
    <2> QED  BY <1>2, <1>3, <2>1 DEF WatchSession
  <1> QED  BY <1>4, <1>7, <1>8, ToolStep DEF WatchSession

\* The watch ends with the end of the session behind it, or without.
LEMMA EndWatchTold ==
    ASSUME NEW t \in ToolRecords, NEW q, Told(t, q), NEW timedOut \in BOOLEAN, timedOut \/ EndsBy(q, t.cursor)
    PROVE  EndWatch(t, timedOut) \in ToolRecords /\ Told(EndWatch(t, timedOut), q)
  <1>1. PICK pc \in {"get", "report"} : pc = IF t.pc = "watch" THEN "get" ELSE "report"
    OBVIOUS
  <1>2. PICK u : u = EndWatch(t, timedOut)
    OBVIOUS
  <1>3. u = [t EXCEPT !.pc = pc, !.timedOut = timedOut, !.upto = 0, !.end = FALSE]
    BY <1>1, <1>2 DEF EndWatch
  <1>4. u \in ToolRecords
    BY <1>3 DEF ToolRecords
  <1>5. /\ u.from = t.from /\ u.cursor = t.cursor /\ u.upto = 0 /\ ~u.end /\ u.trunc = t.trunc /\ u.room = t.room
        /\ u.streams = t.streams /\ u.buf = t.buf /\ u.timedOut = timedOut
    BY <1>3 DEF ToolRecords
  <1>6. 0 <= Len(q)
    <2>1. t.from \in Nat /\ t.cursor \in Nat /\ t.upto \in Nat
      BY DEF ToolRecords
    <2>2. t.from <= t.cursor /\ t.cursor <= Len(q)
      BY DEF Told
    <2> QED  BY <2>1, <2>2
  <1>7. Told(u, q)
    BY <1>5, <1>6 DEF Told
  <1> QED  BY <1>2, <1>4, <1>7

LEMMA ExecwatchSessionInto == ASSUME ExecInv, watchSessionInto  PROVE ExecInv'
  <1>1. tool \in ToolRecords /\ sev \in Seq(Events) /\ Told(tool, sev) /\ Len(sev) \in Nat /\ ChunksNumbered(sev)
    BY DEF ExecInv, ExecTyped
  <1>2. PICK k \in Nat, n \in Nat : k = tool.cursor + 1 /\ n = Len(sev)
    BY <1>1 DEF ToolRecords
  <1>3. tool.cursor < n /\ k \in 1..n /\ tool.pc \in {"watch", "drain"}
    <2>1. tool.cursor \in Nat /\ tool.upto \in Nat /\ tool.upto <= n /\ tool.cursor < tool.upto
      BY <1>1, <1>2 DEF ToolRecords, Told, watchSessionInto
    <2> QED  BY <1>2, <2>1 DEF watchSessionInto
  <1>4. PICK e : e = sev[k]
    OBVIOUS
  <1>5. e.kind \in Streams => e.n = Chunks(sev, e.kind, k)
    BY <1>1, <1>2, <1>3, <1>4 DEF ChunksNumbered
  <1>6. PICK u : u = [collect(tool, e) EXCEPT !.cursor = tool.cursor + 1]
    OBVIOUS
  <1>7. u \in ToolRecords /\ Told(u, sev) /\ u.cursor = k /\ u.pc = tool.pc
    <2>1. Takes(tool, sev, e, u)
      BY <1>1, <1>2, <1>3, <1>4, <1>5, <1>6 DEF Takes
    <2> QED  BY <1>2, <2>1, Collected
  <1>8. tool' = IF isTerminalEvent(e) THEN EndWatch(u, FALSE) ELSE u
    BY <1>2, <1>4, <1>6 DEF watchSessionInto
  <1>9. tool' \in ToolRecords /\ Told(tool', sev)
    <2>1. CASE isTerminalEvent(e)
      <3>1. EndsBy(sev, u.cursor)
        BY <1>2, <1>3, <1>4, <1>7, <2>1 DEF EndsBy
      <3> QED  BY <1>7, <1>8, <2>1, <3>1, EndWatchTold
    <2>2. CASE ~isTerminalEvent(e)
      BY <1>7, <1>8, <2>2
    <2> QED  BY <2>1, <2>2
  <1> QED  BY <1>9, ToolStep DEF watchSessionInto

LEMMA ExecWatchEnds == ASSUME ExecInv, WatchEnds  PROVE ExecInv'
  <1>1. tool \in ToolRecords /\ sev \in Seq(Events) /\ Told(tool, sev)
    BY DEF ExecInv, ExecTyped
  <1>2. tool' \in ToolRecords /\ Told(tool', sev)
    <2>1. CASE tool.end /\ tool.cursor >= tool.upto /\ tool' = EndWatch(tool, FALSE)
      <3>1. EndsBy(sev, tool.upto) /\ tool.upto \in Nat /\ tool.cursor \in Nat
        BY <1>1, <2>1 DEF Told, ToolRecords
      <3>2. EndsBy(sev, tool.cursor)
        BY <2>1, <3>1 DEF EndsBy
      <3> QED  BY <1>1, <2>1, <3>2, EndWatchTold
    <2>2. CASE tool' = EndWatch(tool, TRUE)
      BY <1>1, <2>2, EndWatchTold
    <2> QED  BY <2>1, <2>2 DEF WatchEnds
  <1> QED  BY <1>2, ToolStep DEF WatchEnds

LEMMA ExecGetSession == ASSUME ExecInv, GetSession  PROVE ExecInv'
  <1>1. tool \in ToolRecords /\ sev \in Seq(Events) /\ Told(tool, sev) /\ sst \in SessionStates /\ tool.pc = "get"
    BY DEF ExecInv, ExecTyped, GetSession
  <1>2. PICK pc \in {"drain", "report"} : pc = IF tool.op = "exec" /\ tool.timedOut /\ sst \in TerminalStates THEN "drain" ELSE "report"
    OBVIOUS
  <1>3. PICK t : t = [tool EXCEPT !.seen = sst, !.pc = pc]
    OBVIOUS
  <1>4. t \in ToolRecords
    BY <1>1, <1>3 DEF ToolRecords
  <1>5. /\ t.from = tool.from /\ t.cursor = tool.cursor /\ t.upto = tool.upto /\ t.end = tool.end /\ t.trunc = tool.trunc
        /\ t.room = tool.room /\ t.streams = tool.streams /\ t.buf = tool.buf /\ t.timedOut = tool.timedOut
    BY <1>1, <1>3 DEF ToolRecords
  <1>6. Told(t, sev)
    BY <1>1, <1>5 DEF Told
  <1>7. tool' = t
    BY <1>2, <1>3 DEF GetSession
  <1> QED  BY <1>4, <1>6, <1>7, ToolStep DEF GetSession

Places == [line \in OutputBytes |-> Place(line)]

LEMMA PlacesAre == Places \in [OutputBytes -> Nat] /\ \A line \in OutputBytes : Places[line] = Place(line)
  <1>1. \A line \in OutputBytes : Place(line) \in Nat
    BY DEF OutputBytes, Place
  <1> QED  BY <1>1 DEF Places

\* The stderr of an answer: the filter, then the section that is left out.
LEMMA ErrShown ==
    ASSUME NEW data \in Seq(OutputBytes), NEW noise, NEW blank, NEW zero \in BOOLEAN, NEW shown,
           shown = formatStderr(filterNixBootstrapStderr(data, noise, zero), blank)
    PROVE  /\ shown \in Seq(OutputBytes) /\ Range(shown) \subseteq Range(data)
           /\ \A line \in Range(data) : line \in Range(shown) \/ (zero /\ line \in noise) \/ (shown = <<>> /\ line \in blank)
           /\ InPlace(data) => InPlace(shown)
  <1>1. PICK gone : gone = IF zero THEN noise ELSE {}
    OBVIOUS
  <1>2. PICK f : f = FlattenSeq([k \in DOMAIN data |-> IF data[k] \in gone THEN <<>> ELSE <<data[k]>>])
    OBVIOUS
  <1>3. f = filterNixBootstrapStderr(data, noise, zero)
    <2>1. \A k \in DOMAIN data : (zero /\ data[k] \in noise) <=> data[k] \in gone
      BY <1>1
    <2>2. [k \in DOMAIN data |-> IF zero /\ data[k] \in noise THEN <<>> ELSE <<data[k]>>]
          = [k \in DOMAIN data |-> IF data[k] \in gone THEN <<>> ELSE <<data[k]>>]
      BY <2>1
    <2> QED  BY <1>2, <2>2 DEF filterNixBootstrapStderr
  <1>4. Kept(f, data, gone, Places, Len(data), OutputBytes)
    BY <1>2, PlacesAre, FilterIs
  <1>5. DOMAIN data = 1..Len(data) /\ Range(data) = {data[k] : k \in 1..Len(data)} /\ Range(data) \subseteq OutputBytes
        /\ \A k \in 1..Len(data) : data[k] \in OutputBytes
    BY DEF Range
  <1>6. f \in Seq(OutputBytes) /\ \A line \in OutputBytes : line \in Range(f) <=> line \notin gone /\ line \in Range(data)
    BY <1>4, <1>5 DEF Kept
  <1>7. Range(f) \subseteq OutputBytes /\ \A k \in DOMAIN f : f[k] \in OutputBytes
    BY <1>6 DEF Range
  <1>8. InPlace(data) => InPlace(f)
    <2> SUFFICES ASSUME InPlace(data), NEW j \in DOMAIN f, NEW k \in DOMAIN f, j < k  PROVE Place(f[j]) < Place(f[k])
      BY DEF InPlace
    <2>1. ASSUME NEW a \in 1..Len(data), NEW b \in 1..Len(data), a < b  PROVE Places[data[a]] < Places[data[b]]
      <3>1. a \in DOMAIN data /\ b \in DOMAIN data /\ data[a] \in OutputBytes /\ data[b] \in OutputBytes
        BY <1>5
      <3>2. Place(data[a]) < Place(data[b])
        BY <2>1, <3>1 DEF InPlace
      <3>3. Places[data[a]] = Place(data[a]) /\ Places[data[b]] = Place(data[b])
        BY ONLY <3>1, PlacesAre
      <3> QED  BY ONLY <3>2, <3>3
    <2>2. Places[f[j]] < Places[f[k]]
      BY <1>4, <2>1 DEF Kept
    <2> QED  BY <2>2, <1>7, PlacesAre
  <1>9. shown = IF Range(f) \subseteq blank THEN <<>> ELSE f
    BY <1>3 DEF formatStderr
  <1>10. <<>> \in Seq(OutputBytes) /\ Range(<<>>) = {} /\ InPlace(<<>>)
    BY DEF Range, InPlace
  <1> QED  BY <1>1, <1>5, <1>6, <1>7, <1>8, <1>9, <1>10

AnswerOf(t, n, b, zero) ==
    [t EXCEPT !.zero = zero, !.noise = n, !.blank = b,
              !.shown = [out |-> t.buf["out"], err |-> formatStderr(filterNixBootstrapStderr(t.buf["err"], n, zero), b)]]

LEMMA ToolFormats ==
    ASSUME NEW t \in ToolRecords, NEW n \in SUBSET OutputBytes, NEW b \in SUBSET OutputBytes, NEW zero \in BOOLEAN, NEW q, Told(t, q),
           NEW u, u = AnswerOf(t, n, b, zero)
    PROVE  u \in ToolRecords /\ Told(u, q) /\ u.pc = t.pc /\ u.seen = t.seen /\ \A s \in Streams : Formatted(u, s)
  <1>1. PICK e : e = formatStderr(filterNixBootstrapStderr(t.buf["err"], n, zero), b)
    OBVIOUS
  <1>2. t.buf["out"] \in Seq(OutputBytes) /\ t.buf["err"] \in Seq(OutputBytes)
    BY DEF ToolRecords, Streams
  <1>3. PICK o, d \in Seq(OutputBytes) : o = t.buf["out"] /\ d = t.buf["err"]
    BY <1>2
  <1>4. /\ e \in Seq(OutputBytes) /\ Range(e) \subseteq Range(d)
        /\ \A line \in Range(d) : line \in Range(e) \/ (zero /\ line \in n) \/ (e = <<>> /\ line \in b)
        /\ InPlace(d) => InPlace(e)
    BY <1>1, <1>3, ErrShown
  <1>5. PICK w : w = [out |-> o, err |-> e]
    OBVIOUS
  <1>6. w \in [Streams -> Seq(OutputBytes)] /\ w["out"] = o /\ w["err"] = e
    BY <1>3, <1>4, <1>5 DEF Streams
  <1>7. u = [t EXCEPT !.zero = zero, !.noise = n, !.blank = b, !.shown = w]
    BY <1>1, <1>3, <1>5 DEF AnswerOf
  <1>8. u \in ToolRecords
    BY ONLY t \in ToolRecords, <1>6, <1>7, n \in SUBSET OutputBytes, b \in SUBSET OutputBytes, zero \in BOOLEAN DEF ToolRecords
  <1>9. /\ u.zero = zero /\ u.noise = n /\ u.blank = b /\ u.shown = w /\ u.buf = t.buf /\ u.pc = t.pc /\ u.seen = t.seen
        /\ u.from = t.from /\ u.cursor = t.cursor /\ u.upto = t.upto /\ u.end = t.end /\ u.trunc = t.trunc
        /\ u.room = t.room /\ u.streams = t.streams /\ u.timedOut = t.timedOut
    BY ONLY t \in ToolRecords, <1>7 DEF ToolRecords
  <1>10. Told(u, q)
    BY <1>9 DEF Told
  <1>11. Formatted(u, "out")
    BY <1>3, <1>6, <1>9 DEF Formatted
  <1>12. Formatted(u, "err")
    BY <1>3, <1>4, <1>6, <1>9 DEF Formatted, MayOmit
  <1> QED  BY <1>8, <1>9, <1>10, <1>11, <1>12 DEF Streams

LEMMA ExecToolReturns == ASSUME ExecInv, ToolReturns  PROVE ExecInv'
  <1>1. tool \in ToolRecords /\ sev \in Seq(Events) /\ Told(tool, sev)
    BY DEF ExecInv, ExecTyped
  <1>2. tool.pc = "report" /\ tool' = IdleTool /\ UNCHANGED <<sst, stdin, proc, capture, sev, killers, writer>>
    BY DEF ToolReturns
  <1>8. tool.buf["err"] \in Seq(OutputBytes) /\ Range(tool.buf["err"]) \subseteq OutputBytes
    BY <1>1 DEF ToolRecords, Streams, Range
  <1>9. PICK n \in SUBSET OutputBytes, b \in SUBSET OutputBytes, zero \in BOOLEAN :
           report' = AnswerOf(tool, n, b, zero)
    <2>1. PICK text \in ErrTexts, zero \in BOOLEAN :
             report' = AnswerOf(tool, text.noise \cap Range(tool.buf["err"]), text.blank \cap Range(tool.buf["err"]), zero)
      BY DEF ToolReturns, AnswerOf
    <2>2. PICK n \in SUBSET OutputBytes, b \in SUBSET OutputBytes :
             n = text.noise \cap Range(tool.buf["err"]) /\ b = text.blank \cap Range(tool.buf["err"])
      BY <1>8
    <2> QED  BY <2>1, <2>2
  <1>10. report' \in ToolRecords /\ Told(report', sev) /\ report'.pc = "report" /\ \A s \in Streams : Formatted(report', s)
    BY <1>1, <1>2, <1>9, ToolFormats
  <1>3. IdleTool \in ToolRecords /\ Told(IdleTool, sev)
    BY <1>1, IdleIs
  <1>4. ExecTyped'
    BY <1>1, <1>2, <1>3, <1>10 DEF ExecInv, ExecTyped
  <1>5. Flows' /\ ChunksNumbered(sev)'
    BY <1>2 DEF ExecInv, Flows
  <1>6. SessionOK'
    BY <1>2 DEF ExecInv, SessionOK
  <1>7. Told(tool, sev)' /\ Reported'
    BY <1>1, <1>2, <1>3, <1>10 DEF Reported
  <1> QED  BY <1>4, <1>5, <1>6, <1>7 DEF ExecInv

LEMMA ExecCancelTool == ASSUME ExecInv, CancelTool  PROVE ExecInv'
  <1>1. /\ sev \in Seq(Events) /\ sst \in SessionStates /\ stdin \in [open : BOOLEAN, pipe : BOOLEAN]
        /\ killers \in [Callers -> {"idle", "term", "kill"}] /\ writer \in {"idle", "write", "close", "closed"}
    BY DEF ExecInv, ExecTyped
  <1>2. tool' = IdleTool /\ UNCHANGED <<stdin, proc, capture, sev, writer, report>>
    BY DEF CancelTool
  <1>3. IdleTool \in ToolRecords /\ Told(IdleTool, sev)
    BY <1>1, IdleIs
  <1>4. /\ sst' \in SessionStates /\ (sst = "none" <=> sst' = "none") /\ (sst' \in TerminalStates <=> sst \in TerminalStates)
        /\ killers' \in [Callers -> {"idle", "term", "kill"}]
    <2>1. CASE tool.op = "exec"
      <3>1. "cancelled_exec" \in Callers /\ TRUE \in BOOLEAN /\ TerminateSession("cancelled_exec", TRUE)
        BY <2>1 DEF CancelTool, Callers
      <3>2. /\ sst' \in SessionStates /\ sst # "none" /\ sst' # "none" /\ (sst' \in TerminalStates <=> sst \in TerminalStates)
            /\ killers' \in [Callers -> {"idle", "term", "kill"}]
        BY <3>1, TerminateMarks
      <3> QED  BY <3>2
    <2>2. CASE tool.op # "exec"
      BY <1>1, <2>2 DEF CancelTool
    <2> QED  BY <2>1, <2>2
  <1>5. ExecTyped'
    BY <1>1, <1>2, <1>3, <1>4 DEF ExecInv, ExecTyped
  <1>6. Flows' /\ ChunksNumbered(sev)'
    BY <1>2 DEF ExecInv, Flows
  <1>7. SessionOK'
    BY <1>2, <1>4 DEF ExecInv, SessionOK
  <1>8. Told(tool, sev)' /\ Reported'
    BY <1>2, <1>3 DEF ExecInv, Reported
  <1> QED  BY <1>5, <1>6, <1>7, <1>8 DEF ExecInv

LEMMA ExecStep == ASSUME ExecInv, [ExecNext]_execVars  PROVE ExecInv'
  <1>1. CASE UNCHANGED execVars
    <2>1. UNCHANGED <<sst, stdin, proc, capture, sev, killers, writer, tool, report>>
      BY <1>1 DEF execVars
    <2>2. Flows' /\ SessionOK' /\ ExecTyped'
      BY <2>1 DEF ExecInv, Flows, SessionOK, ExecTyped
    <2> QED  BY <2>1, <2>2 DEF ExecInv, Reported
  <1>2. CASE \E s \in Streams : ProcessWrites(s) \/ CaptureRead(s) \/ appendOutput(s) \/ captureStream(s)
    BY <1>2, ExecProcessWrites, ExecCaptureRead, ExecappendOutput, ExeccaptureStream
  <1>3. CASE \E b \in BOOLEAN : ProcessExits(b) \/ ExecKill(b) \/ WriteSessionStdin(b)
    BY <1>3, ExecProcessExits, ExecExecKill, ExecWriteStdin
  <1>4. CASE \E r \in {"ok", "err"} : ProcessWait(r)
    BY <1>4, ExecProcessWait
  <1>5. CASE \E c \in Callers : SendSignal(c)
    BY <1>5, ExecSendSignal
  <1>6. CASE ChildExits \/ waitForExit \/ WriteStdin \/ markStdinClosed
    BY <1>6, ExecChildExits, ExecwaitForExit, ExecWriteStdin, ExecmarkStdinClosed
  <1>7. CASE \E keep, wait \in BOOLEAN, b \in Budgets : StartSession(keep, b, wait)
    BY <1>7, ExecStartSession
  <1>8. CASE \E sel \in Selections, b \in Budgets : ExecRead(sel, b)
    BY <1>8, ExecExecRead
  <1>9. CASE WatchSession \/ watchSessionInto \/ WatchEnds \/ GetSession \/ ToolReturns \/ CancelTool
    BY <1>9, ExecWatchSession, ExecwatchSessionInto, ExecWatchEnds, ExecGetSession, ExecToolReturns, ExecCancelTool
  <1> QED  BY <1>1, <1>2, <1>3, <1>4, <1>5, <1>6, <1>7, <1>8, <1>9 DEF ExecNext

LEMMA ExecSafeTyped == ASSUME ExecInv  PROVE ExecTypeOK
  <1>0. /\ proc \in ProcRecords /\ capture \in CaptureRecords /\ sev \in Seq(Events) /\ tool \in ToolRecords /\ report \in ToolRecords
        /\ Told(tool, sev) /\ Told(report, sev)
    BY DEF ExecInv, ExecTyped, Reported
  <1>1. proc.wait \in {"no", "ok", "err"} /\ proc.sig \in {"none", "term", "kill"} /\ capture.done \subseteq Streams
    BY <1>0 DEF ProcRecords, CaptureRecords
  <1>2. \A s \in Streams : proc.made[s] \in 0..MaxChunks /\ Len(capture.held[s]) <= 1
    BY <1>0 DEF ExecInv, Flows, Flow, ProcRecords
  <1>3. ASSUME NEW i \in DOMAIN sev  PROVE sev[i].kind \in Streams \union {"started", "stdin_closed", "exited", "terminated"}
    <2>1. sev[i] \in Events
      BY <1>0, ElementIn
    <2> QED  BY <2>1 DEF Events, EventKinds
  <1>4. tool.cursor \in 0..Len(sev) /\ report.cursor \in 0..Len(sev)
    <2>1. tool.cursor \in Nat /\ report.cursor \in Nat /\ tool.cursor <= Len(sev) /\ report.cursor <= Len(sev) /\ Len(sev) \in Nat
      BY <1>0 DEF ToolRecords, Told
    <2> QED  BY <2>1
  <1>5. /\ sst \in SessionStates /\ stdin \in [open : BOOLEAN, pipe : BOOLEAN] /\ killers \in [Callers -> {"idle", "term", "kill"}]
        /\ writer \in {"idle", "write", "close", "closed"}
    BY DEF ExecInv, ExecTyped
  <1> QED  BY <1>1, <1>2, <1>3, <1>4, <1>5 DEF ExecTypeOK

LEMMA ExecSafeEnds == ASSUME ExecInv  PROVE TerminalEventIsLast
  <1> DEFINE ends == {i \in DOMAIN sev : isTerminalEvent(sev[i])}
  <1>0. sev \in Seq(Events) /\ Len(sev) \in Nat /\ DOMAIN sev = 1..Len(sev) /\ Closes(sev) /\ (sst \in TerminalStates <=> EndsBy(sev, Len(sev)))
    BY DEF ExecInv, ExecTyped, SessionOK
  <1>1. ASSUME NEW i \in ends, NEW j \in DOMAIN sev, j > i  PROVE sev[j].kind = "stdin_closed"
    BY <1>0, <1>1 DEF Closes
  <1>2. ASSUME sst \in TerminalStates  PROVE Cardinality(ends) = 1
    <2>1. PICK i \in DOMAIN sev : isTerminalEvent(sev[i])
      BY <1>0, <1>2 DEF EndsBy
    <2>2. ASSUME NEW j \in ends  PROVE j = i
      <3>1. sev[j].kind # "stdin_closed" /\ sev[i].kind # "stdin_closed"
        BY <2>1 DEF isTerminalEvent
      <3>2. ~(j > i) /\ ~(i > j)
        BY <1>1, <2>1, <3>1
      <3> QED  BY <1>0, <3>2
    <2>3. ends = {i}
      BY <2>1, <2>2
    <2> QED  BY <2>3, FS_Singleton
  <1>3. ASSUME sst \notin TerminalStates  PROVE Cardinality(ends) = 0
    <2>1. ends = {}
      BY <1>0, <1>3 DEF EndsBy
    <2> QED  BY <2>1, FS_EmptySet
  <1> QED  BY <1>1, <1>2, <1>3 DEF TerminalEventIsLast

\* The lines of a stream come in their order.
LEMMA BytesInPlace ==
    ASSUME NEW s \in Streams, NEW lo \in Nat, NEW m \in Nat, lo <= m
    PROVE  InPlace(Bytes(s, lo, m))
  <1>1. PICK w : w = Bytes(s, lo, m)
    OBVIOUS
  <1>2. PICK n \in Nat : n = 2 * (m - lo)
    OBVIOUS
  <1>3. w \in Seq(OutputBytes) /\ Len(w) = n /\ \A i \in 1..n : w[i] = <<s, lo + (i + 1) \div 2, 2 - (i % 2)>>
    BY <1>1, <1>2, BytesAre
  <1>4. ASSUME NEW i \in 1..n  PROVE Place(w[i]) = 2 * lo + i + 2
    <2>1. w[i] = <<s, lo + (i + 1) \div 2, 2 - (i % 2)>>
      BY <1>3
    <2>2. Place(w[i]) = 2 * (lo + (i + 1) \div 2) + (2 - (i % 2))
      BY <2>1 DEF Place
    <2>3. 2 * ((i + 1) \div 2) = i + (i % 2)
      OBVIOUS
    <2>4. (i + 1) \div 2 \in Nat /\ i % 2 \in Nat
      OBVIOUS
    <2> QED  BY <2>2, <2>3, <2>4
  <1>5. DOMAIN w = 1..n
    BY <1>3
  <1> QED  BY <1>1, <1>4, <1>5 DEF InPlace

LEMMA ExecSafeOutput == ASSUME ExecInv  PROVE ReportedOutputIsExact
  <1>1. report \in ToolRecords /\ sev \in Seq(Events) /\ Told(report, sev) /\ \A s \in Streams : Formatted(report, s)
    BY DEF ExecInv, ExecTyped, Reported
  <1> SUFFICES ASSUME NEW s \in report.streams, NEW want, want = OutputBetween(s, report.from, report.cursor),
                      NEW shown, shown = report.shown[s]
               PROVE  /\ \E cut \in 0..Len(want) :
                            /\ ~report.trunc => cut = Len(want)
                            /\ Range(shown) \subseteq {want[k] : k \in 1..cut}
                            /\ \A k \in 1..cut : want[k] \in Range(shown) \/ LeftOut(want[k])
                      /\ \A j, k \in DOMAIN shown : j < k => Place(shown[j]) < Place(shown[k])
    BY DEF ReportedOutputIsExact
  <1>2. s \in Streams /\ report.from \in Nat /\ report.cursor \in Nat /\ report.from <= report.cursor
    BY <1>1 DEF ToolRecords, Told
  <1>3. PICK lo \in Nat, m \in Nat : lo = Chunks(sev, s, report.from) /\ m = Chunks(sev, s, report.cursor) /\ lo <= m
    <2>1. PICK a \in Nat, c \in Nat : a = report.from /\ c = report.cursor /\ a <= c
      BY <1>2
    <2> QED  BY <2>1, ChunksStep, ChunksGrow
  <1>4. want = Bytes(s, lo, m) /\ want \in Seq(OutputBytes) /\ InPlace(want)
    BY <1>2, <1>3, BytesAre, BytesInPlace DEF OutputBetween
  <1>5. PICK b \in Seq(OutputBytes) : b = report.buf[s]
    BY <1>1, <1>2 DEF ToolRecords
  <1>6. Shows(b, report.trunc, want)
    BY <1>1, <1>3, <1>4, <1>5 DEF Told
  <1>7. PICK n \in Nat : n = Len(b)
    BY <1>5
  <1>8. n \in 0..Len(want) /\ (~report.trunc => n = Len(want)) /\ \A i \in 1..n : b[i] = want[i]
    <2>1. CASE report.trunc
      <3>1. Len(b) <= Len(want) /\ \A i \in 1..Len(b) : b[i] = want[i]
        BY <1>4, <1>6, <2>1, PrefixIs DEF Shows
      <3> QED  BY <3>1, <1>4, <1>7, <2>1
    <2>2. CASE ~report.trunc
      BY <1>4, <1>6, <1>7, <2>2 DEF Shows
    <2> QED  BY <2>1, <2>2
  <1>9. DOMAIN b = 1..n /\ Range(b) = {want[k] : k \in 1..n}
    <2>1. DOMAIN b = 1..n
      BY <1>5, <1>7
    <2> QED  BY <2>1, <1>8 DEF Range
  <1>10. InPlace(b)
    <2>1. DOMAIN want = 1..Len(want) /\ Len(want) \in Nat
      BY <1>4
    <2>2. \A i \in 1..n : i \in DOMAIN want
      BY <2>1, <1>8
    <2> QED  BY <2>2, <1>4, <1>8, <1>9 DEF InPlace
  <1>11. Range(shown) \subseteq Range(b) /\ InPlace(shown) /\ \A line \in Range(b) : line \in Range(shown) \/ LeftOut(line)
    BY <1>1, <1>2, <1>5, <1>10 DEF Formatted, MayOmit, LeftOut
  <1>12. \A j, k \in DOMAIN shown : j < k => Place(shown[j]) < Place(shown[k])
    BY <1>11 DEF InPlace
  <1> QED  BY <1>8, <1>9, <1>11, <1>12

LEMMA ExecSafeComplete == ASSUME ExecInv  PROVE FinishedExecIsComplete
  <1> SUFFICES ASSUME report.op = "exec", report.seen \in TerminalStates, ~report.timedOut
               PROVE  EndsBy(sev, report.cursor) /\ \A s \in Streams : Chunks(sev, s, report.cursor) = proc.made[s]
    BY DEF FinishedExecIsComplete, EndsBy
  <1>0. /\ proc \in ProcRecords /\ capture \in CaptureRecords /\ sev \in Seq(Events) /\ report \in ToolRecords /\ Told(report, sev)
        /\ Len(sev) \in Nat /\ DOMAIN sev = 1..Len(sev)
    BY DEF ExecInv, ExecTyped, Reported
  <1>1. report.pc = "report"
    BY DEF ExecInv, Reported, TerminalStates
  <1>2. PICK k \in Nat, n \in Nat : k = report.cursor /\ n = Len(sev) /\ k <= n
    BY <1>0 DEF ToolRecords, Told
  <1>3. EndsBy(sev, k)
    BY <1>0, <1>1, <1>2 DEF Told
  <1>4. PICK i \in 1..k : isTerminalEvent(sev[i])
    BY <1>3 DEF EndsBy
  <1>5. sst \in TerminalStates
    BY <1>0, <1>2, <1>4 DEF ExecInv, SessionOK, EndsBy
  <1>6. proc.wait # "no" /\ \A s \in Streams : capture.held[s] = <<>> /\ proc.pipe[s] = <<>>
    <2>1. capture.done = Streams /\ Streams # {}
      BY <1>5 DEF ExecInv, SessionOK, Streams
    <2>2. proc.wait # "no" /\ \A s \in Streams : capture.held[s] = <<>>
      BY <2>1 DEF ExecInv, SessionOK
    <2> QED  BY <2>2 DEF ExecInv, SessionOK
  <1>7. ASSUME NEW s \in Streams  PROVE Chunks(sev, s, k) = proc.made[s]
    <2>1. Chunks(sev, s, n) + Len(<<>>) + Len(<<>>) = proc.made[s]
      BY <1>2, <1>6 DEF ExecInv, Flows, Flow
    <2>2. Chunks(sev, s, n) \in Nat
      BY ChunksStep
    <2>3. Chunks(sev, s, n) = proc.made[s]
      BY <2>1, <2>2
    <2>4. \A j \in (k + 1)..n : sev[j].kind = "stdin_closed"
      BY <1>0, <1>2, <1>4 DEF ExecInv, SessionOK, Closes
    <2>5. \A j \in (k + 1)..n : sev[j].kind # s
      BY <2>4 DEF Streams
    <2>6. Chunks(sev, s, k) = Chunks(sev, s, n)
      BY ONLY k \in Nat, n \in Nat, <1>2, <2>5, ChunksQuiet
    <2> QED  BY <2>3, <2>6
  <1> QED  BY <1>2, <1>3, <1>7

-----------------------------------------------------------------------------
\* The start: while the image is complete, the link the markers are reached through is only there when the whole tree is.
TreeWhole == \A e \in Entries : nix[e] = "whole"
StartInv ==
    /\ image \in BOOLEAN /\ ca \in BOOLEAN /\ nix \in [Entries -> EntryStates]
    /\ image /\ nix[ProfileLink] = "whole" => TreeWhole
    /\ boot \in {"copy", "write"} =>
         /\ at \in Entries /\ (boot = "write" => at # ProfileLink)
         /\ image => nix[ProfileLink] # "whole" /\ \A e \in 1..(at - 1) : nix[e] = "whole"
    /\ boot \in {"proxy", "bundle", "listen", "serve"} => image /\ TreeWhole
    /\ boot \notin {"listen", "serve"} => ~ca

LEMMA EntriesAre == Entries = 1..(TreeSize + 1) /\ ProfileLink = TreeSize + 1 /\ ProfileLink \in Entries /\ 1 \in Entries /\ TreeSize \in Nat
  BY StartAssumption DEF Entries, ProfileLink

LEMMA InitStart == ASSUME StartInit  PROVE StartInv
  <1>1. image \in BOOLEAN /\ ca \in BOOLEAN /\ nix \in [Entries -> EntryStates] /\ nix[ProfileLink] # "whole" /\ ~ca /\ boot = "down"
    BY EntriesAre DEF StartInit, EntryStates
  <1> QED  BY <1>1 DEF StartInv

\* A step that leaves /nix alone.
LEMMA StartQuiet ==
    ASSUME StartInv, UNCHANGED <<nix, image>>, boot' \notin {"copy", "write"}, ca' \in BOOLEAN,
           boot' \in {"proxy", "bundle", "listen", "serve"} => image /\ TreeWhole, boot' \notin {"listen", "serve"} => ~ca'
    PROVE  StartInv'
  BY DEF StartInv, TreeWhole

LEMMA StartCopies == ASSUME StartInv, copyTree  PROVE StartInv'
  <1>0. /\ nix \in [Entries -> EntryStates] /\ boot \in {"copy", "write"} /\ at \in Entries /\ ca = FALSE /\ UNCHANGED <<ca, image>>
        /\ (boot = "copy" => at = ProfileLink) /\ (boot = "write" => at # ProfileLink)
        /\ (image => nix[ProfileLink] # "whole" /\ \A e \in 1..(at - 1) : nix[e] = "whole") /\ image \in BOOLEAN
    <2>1. boot = "write" \/ (boot = "copy" /\ at = ProfileLink)
      BY DEF copyTree
    <2> QED  BY <2>1, EntriesAre DEF copyTree, StartInv
  <1>1. CASE boot' = "failed" /\ UNCHANGED <<nix, at>>
    BY <1>0, <1>1, StartQuiet
  <1>2. CASE nix' = [nix EXCEPT ![at] = "whole"] /\ at' = at + 1 /\ boot' = IF at = ProfileLink THEN "recheck" ELSE "copy"
    <2>1. nix' \in [Entries -> EntryStates] /\ nix'[at] = "whole" /\ \A e \in Entries : e # at => nix'[e] = nix[e]
      BY <1>0, <1>2 DEF EntryStates
    <2>2. ASSUME image  PROVE \A e \in 1..at : nix'[e] = "whole"
      <3> SUFFICES ASSUME NEW e \in 1..at  PROVE nix'[e] = "whole"
        OBVIOUS
      <3>1. e = at \/ e \in 1..(at - 1)
        BY <1>0, EntriesAre
      <3>2. e \in Entries
        BY <1>0, EntriesAre
      <3> QED  BY <1>0, <2>1, <2>2, <3>1, <3>2
    <2>3. CASE at = ProfileLink
      <3>1. image => \A e \in Entries : nix'[e] = "whole"
        BY <2>2, <2>3, EntriesAre
      <3> QED  BY <1>0, <1>2, <2>1, <2>3, <3>1 DEF StartInv, TreeWhole
    <2>4. CASE at # ProfileLink
      <3>1. at + 1 \in Entries /\ (at + 1) - 1 = at
        BY <1>0, <2>4, EntriesAre
      <3>2. PICK n : n = at + 1
        OBVIOUS
      <3>3. n \in Entries /\ n - 1 = at /\ at' = n /\ boot' = "copy"
        BY <1>2, <2>4, <3>1, <3>2
      <3>4. image => nix'[ProfileLink] # "whole"
        BY <1>0, <2>1, <2>4, EntriesAre
      <3>5. image' = image /\ ca' = ca
        BY <1>0
      <3>6. image' => nix'[ProfileLink] # "whole" /\ \A e \in 1..(at' - 1) : nix'[e] = "whole"
        BY <2>2, <3>3, <3>4, <3>5
      <3> QED  BY <1>0, <2>1, <3>3, <3>5, <3>6 DEF StartInv
    <2> QED  BY <2>3, <2>4
  <1> QED  BY <1>1, <1>2 DEF copyTree

LEMMA StartOpens == ASSUME StartInv, copyOpen  PROVE StartInv'
  <1>0. /\ nix \in [Entries -> EntryStates] /\ boot = "copy" /\ boot' = "write" /\ at \in 1..TreeSize /\ ~ca /\ UNCHANGED <<at, ca, image>>
        /\ (image => nix[ProfileLink] # "whole" /\ \A e \in 1..(at - 1) : nix[e] = "whole") /\ image \in BOOLEAN
        /\ nix' = [nix EXCEPT ![at] = "partial"]
    BY DEF copyOpen, StartInv
  <1>1. at \in Entries /\ at # ProfileLink /\ \A e \in 1..(at - 1) : e # at /\ e \in Entries
    BY <1>0, EntriesAre
  <1>2. nix' \in [Entries -> EntryStates] /\ \A e \in Entries : e # at => nix'[e] = nix[e]
    BY <1>0 DEF EntryStates
  <1>3. image' => nix'[ProfileLink] # "whole" /\ \A e \in 1..(at' - 1) : nix'[e] = "whole"
    BY <1>0, <1>1, <1>2, EntriesAre
  <1>4. at' = at /\ image' = image /\ ca' = ca
    BY <1>0
  <1> QED  BY <1>0, <1>1, <1>2, <1>3, <1>4 DEF StartInv

LEMMA StartBootstraps == ASSUME StartInv, bootstrapNixRuntime  PROVE StartInv'
  <1>0. boot = "check" /\ ~ca /\ UNCHANGED <<nix, ca, image>> /\ image \in BOOLEAN /\ ca \in BOOLEAN
    BY DEF bootstrapNixRuntime, StartInv
  <1>1. CASE nixRuntimeHealthy /\ image
    <2>1. TreeWhole /\ boot' = "proxy"
      BY <1>1 DEF nixRuntimeHealthy, StartInv, bootstrapNixRuntime
    <2> QED  BY <1>0, <1>1, <2>1, StartQuiet
  <1>2. CASE ~(nixRuntimeHealthy /\ image)
    <2>1. CASE boot' = "failed"
      BY <1>0, <2>1, StartQuiet
    <2>2. CASE boot' = "copy" /\ at' = 1
      <3>1. image => nix[ProfileLink] # "whole"
        BY <1>2, EntriesAre DEF StartInv, TreeWhole, nixRuntimeHealthy
      <3>2. \A e \in 1..(at' - 1) : FALSE
        BY <2>2
      <3> QED  BY <1>0, <2>2, <3>1, <3>2, EntriesAre DEF StartInv, TreeWhole
    <2> QED  BY <1>2, <2>1, <2>2 DEF bootstrapNixRuntime
  <1> QED  BY <1>1, <1>2

LEMMA StartStep == ASSUME StartInv, [StartNext]_startVars  PROVE StartInv'
  <1>1. CASE UNCHANGED startVars
    BY <1>1 DEF StartInv, TreeWhole, startVars
  <1>2. CASE Launch \/ KillExec \/ StopExec
    <2>1. boot' \in {"check", "down"} /\ UNCHANGED <<nix, image>> /\ ca' = FALSE
      BY <1>2 DEF Launch, KillExec, StopExec, StartInv
    <2> QED  BY <2>1, StartQuiet
  <1>3. CASE Recheck
    <2>1. boot = "recheck" /\ UNCHANGED <<nix, ca, image>> /\ ~ca /\ ca \in BOOLEAN
      BY <1>3 DEF Recheck, StartInv
    <2>2. boot' \in {"proxy", "failed"} /\ (boot' = "proxy" => image /\ TreeWhole)
      BY <1>3 DEF Recheck, StartInv, nixRuntimeHealthy
    <2> QED  BY <2>1, <2>2, StartQuiet
  <1>4. CASE waitForProxyRuntime \/ writeProxyCABundle \/ Serve
    <2>1. /\ boot \in {"proxy", "bundle", "listen"} /\ UNCHANGED <<nix, image>> /\ image /\ TreeWhole
          /\ boot' \in {"proxy", "bundle", "listen", "serve", "failed"}
      BY <1>4 DEF waitForProxyRuntime, writeProxyCABundle, Serve, BundleFailure, StartInv
    <2>2. ca' \in BOOLEAN /\ (boot' \notin {"listen", "serve"} => ~ca')
      <3>1. CASE waitForProxyRuntime
        BY <3>1 DEF waitForProxyRuntime, StartInv
      <3>2. CASE writeProxyCABundle
        <4>1. ca = FALSE
          BY <3>2 DEF writeProxyCABundle, BundleFailure, StartInv
        <4>2. CASE boot' = "listen" /\ ca' \in {ca, TRUE}
          BY <4>1, <4>2
        <4>3. CASE BundleFailure
          BY <4>1, <4>3 DEF BundleFailure
        <4> QED  BY <3>2, <4>2, <4>3 DEF writeProxyCABundle
      <3>3. CASE Serve
        BY <3>3 DEF Serve, StartInv
      <3> QED  BY <1>4, <3>1, <3>2, <3>3
    <2> QED  BY <2>1, <2>2, StartQuiet
  <1> QED  BY <1>1, <1>2, <1>3, <1>4, StartBootstraps, StartOpens, StartCopies DEF StartNext

LEMMA StartSafe == ASSUME StartInv  PROVE ServesOnCompleteStore /\ FailedStartCleansUp
  BY DEF StartInv, TreeWhole, ServesOnCompleteStore, FailedStartCleansUp

-----------------------------------------------------------------------------
LEMMA ToolsExecStep == [ToolsNext]_toolsVars => [ExecNext]_execVars
  <1>1. CASE OnlyExec /\ ExecNext
    BY <1>1
  <1>2. CASE UNCHANGED execVars
    BY <1>2
  <1>3. UNCHANGED toolsVars => UNCHANGED execVars
    BY DEF toolsVars
  <1> QED  BY <1>1, <1>2, <1>3 DEF ToolsNext, OnlyAgent, OnlyPatch, OnlyStart, OnlyCommit, OnlySub

LEMMA ToolsStartStep == [ToolsNext]_toolsVars => [StartNext]_startVars
  <1>1. CASE OnlyStart /\ StartNext
    BY <1>1
  <1>2. CASE UNCHANGED startVars
    BY <1>2
  <1>3. UNCHANGED toolsVars => UNCHANGED startVars
    BY DEF toolsVars
  <1> QED  BY <1>1, <1>2, <1>3 DEF ToolsNext, OnlyAgent, OnlyPatch, OnlyExec, OnlyCommit, OnlySub

\* The bookkeeping of an exec session and of the start of its service: where every chunk of output is, what a call has
\* read, and what of /nix is whole (managedSession, captureStream, waitForExit, watchSessionInto, copyTree).
THEOREM ExecInvariant == ToolsSpec => [](ExecInv /\ StartInv)
  <1>1. ToolsInit => ExecInv /\ StartInv
    BY InitExec, InitStart DEF ToolsInit
  <1>2. ExecInv /\ StartInv /\ [ToolsNext]_toolsVars => (ExecInv /\ StartInv)'
    BY ToolsExecStep, ExecStep, ToolsStartStep, StartStep
  <1> QED  BY <1>1, <1>2, PTL DEF ToolsSpec

\* The exec service keeps its promises: one terminal event and no output after it, a report that holds the lines
\* between its cursors in order, but for the noise of Nix that exec takes out of stderr at exit code zero and a stderr
\* that is blank, or says that it was cut; everything of a command it calls finished; and the service starts only
\* on a complete store and leaves no CA directory when it does not (Manager, the exec tools, bootstrapNixRuntime).
THEOREM ExecSafeCorrect == ToolsSpec => []ExecSafe
  <1>1. ExecInv /\ StartInv => ExecSafe
    BY ExecSafeTyped, ExecSafeEnds, ExecSafeOutput, ExecSafeComplete, StartSafe DEF ExecSafe
  <1> QED  BY <1>1, ExecInvariant, PTL
=============================================================================
