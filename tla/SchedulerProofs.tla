-------------------------- MODULE SchedulerProofs --------------------------
(***************************************************************************)
(* Proofs about the scheduler.  IInv of SchedulerInvariant is inductive:   *)
(* from it follow the types, the consistency of the files, the order of    *)
(* the occurrences, and that the table is the store.                       *)
(*                                                                         *)
(* What the scheduler's files say of a notification is what happened to    *)
(* it.  DInv of SchedulerInvariant is inductive: it adds to IInv how far   *)
(* the notification of the job at work has come and which requests the bus *)
(* still holds.  Every step is first put down as one of a few changes of   *)
(* the durable state (DurableSteps); the properties of the files are then  *)
(* proved once per kind of change.                                         *)
(***************************************************************************)
EXTENDS SchedulerInvariant, FiniteSetTheorems, SequenceTheorems, TLAPS

(* Put and Drop change one entry of a job table. *)
LEMMA PutProps ==
    ASSUME NEW f, NEW j, NEW x
    PROVE  /\ DOMAIN Put(f, j, x) = DOMAIN f \cup {j}
           /\ Put(f, j, x)[j] = x
           /\ \A k \in DOMAIN f : k # j => Put(f, j, x)[k] = f[k]
BY DEF Put

LEMMA DropProps ==
    ASSUME NEW f, NEW j
    PROVE  /\ DOMAIN Drop(f, j) = DOMAIN f \ {j}
           /\ \A k \in DOMAIN f \ {j} : Drop(f, j)[k] = f[k]
BY DEF Drop

(* StoreSound speaks of the files, the archive, the executions, the issued *)
(* IDs and the clock: it survives a step that only lets time pass.         *)
LEMMA StoreFrame ==
    ASSUME StoreSound, UNCHANGED <<disk, archive, started, issued>>,
           now \in Nat, now' \in Nat, now' >= now
    PROVE  StoreSound'
<1>1. ASSUME NEW j \in DOMAIN disk, JobSound(j, disk[j])
      PROVE  JobSound(j, disk[j])'
    BY <1>1 DEF JobSound, JobRecords
<1>2. QED BY <1>1 DEF StoreSound, ArchiveSound, StartedSound

(* Writing one sound file keeps the store sound. *)
LEMMA StorePut ==
    ASSUME StoreSound, NEW j, NEW x, StoreJob(j, x),
           UNCHANGED <<archive, started, now>>, issued \subseteq issued',
           j \in DOMAIN disk, JobSound(j, x), ArchiveSound(j, x), StartedSound(j, x)
    PROVE  StoreSound'
<1>0. disk' = Put(disk, j, x)
    BY DEF StoreJob
<1>1. /\ DOMAIN disk' = DOMAIN disk /\ disk'[j] = x
      /\ \A k \in DOMAIN disk : k # j => disk'[k] = disk[k]
  <2>1. DOMAIN disk' = DOMAIN disk \cup {j}
    BY <1>0, PutProps
  <2>2. disk'[j] = x /\ \A k \in DOMAIN disk : k # j => disk'[k] = disk[k]
    BY <1>0 DEF Put
  <2>3. QED BY <2>1, <2>2
<1>2. \A k \in DOMAIN disk' : JobSound(k, disk[k])' /\ ArchiveSound(k, disk[k])' /\ StartedSound(k, disk[k])'
    BY <1>1 DEF StoreSound, JobSound, ArchiveSound, StartedSound
<1>3. QED BY <1>1, <1>2 DEF StoreSound

LEMMA StoreDrop ==
    ASSUME StoreSound, NEW j, DeleteJob(j), UNCHANGED <<archive, started, now, issued>>
    PROVE  StoreSound'
<1>1. /\ DOMAIN disk' = DOMAIN disk \ {j}
      /\ \A k \in DOMAIN disk' : disk'[k] = disk[k]
    BY DropProps DEF DeleteJob
<1>2. \A k \in DOMAIN disk' : JobSound(k, disk[k])' /\ ArchiveSound(k, disk[k])' /\ StartedSound(k, disk[k])'
    BY <1>1 DEF StoreSound, JobSound, ArchiveSound, StartedSound
<1>3. IsFiniteSet(DOMAIN disk') /\ Cardinality(DOMAIN disk') <= Cardinality(DOMAIN disk)
    BY <1>1, FS_Subset DEF StoreSound
<1>4. Cardinality(DOMAIN disk') \in Nat /\ Cardinality(DOMAIN disk) \in Nat
    BY <1>3, FS_CardinalityType DEF StoreSound
<1>5. Cardinality(DOMAIN disk') <= MaxJobs
    BY <1>3, <1>4, BoundsAssumption DEF StoreSound
<1>6. QED BY <1>1, <1>2, <1>3, <1>5 DEF StoreSound

-----------------------------------------------------------------------------
(* What each rewriting of a job file yields. *)
LEMMA NewJobSound ==
    ASSUME TypeOK, NEW j \in Jobs, NEW s \in Schedules, NEW n \in BOOLEAN,
           NEW t \in 1 .. MaxTime, Prepared(s, t)
    PROVE  JobSound(j, NewJob(s, n, t)) /\ Idle(NewJob(s, n, t))
<1>1. FireOf(s, t) \in Nat /\ FireOf(s, t) > 0
    BY CronAssumption, BoundsAssumption DEF FireOf, Prepared, Schedules, Times
<1>2. NewJob(s, n, t) \in JobRecords
    BY <1>1 DEF NewJob, JobRecords, Kinds, Statuses, Intents, Schedules
<1>3. QED BY <1>1, <1>2, NoRunAssumption DEF NewJob, JobSound, Idle, Schedules, TypeOK, CountersTypeOK

LEMMA RescheduledSound ==
    ASSUME TypeOK, NEW j \in Jobs, NEW x, JobSound(j, x), Idle(x),
           NEW s \in Schedules, Prepared(s, now)
    PROVE  JobSound(j, Rescheduled(x, s)) /\ Idle(Rescheduled(x, s))
<1>1. FireOf(s, now) \in Nat /\ FireOf(s, now) > now
    BY CronAssumption DEF FireOf, Prepared, Schedules, Times, TypeOK, CountersTypeOK
<1>2. Rescheduled(x, s) \in JobRecords
    BY <1>1 DEF Rescheduled, JobSound, JobRecords, Kinds, Statuses, Schedules
<1>3. QED BY <1>1, <1>2 DEF Rescheduled, JobSound, JobRecords, Idle, Schedules, TypeOK, CountersTypeOK

LEMMA ClaimedSound ==
    ASSUME TypeOK, NEW j \in Jobs, NEW x, JobSound(j, x), Idle(x),
           ~x.done, x.nextFire <= now
    PROVE  /\ JobSound(j, Claimed(x))
           /\ Claimed(x).lastRunAt > x.lastRunAt
           /\ Claimed(x).lastScheduledFor > x.lastScheduledFor
           /\ Claimed(x).lastStatus = "running"
           /\ Claimed(x).pendingRun = NoRun
<1>0. now \in Nat /\ x \in JobRecords
    BY DEF JobSound, TypeOK, CountersTypeOK
<1>1. x.kind = "recurring" => /\ CronNext(x.cron, now) \in Nat /\ CronNext(x.cron, now) > now
                              /\ CronPrev(x.cron, now) \in Nat /\ CronPrev(x.cron, now) <= now
    BY CronAssumption DEF JobSound, Times, TypeOK, CountersTypeOK
<1>2. /\ OccurrenceOf(x) \in Nat /\ OccurrenceOf(x) <= now
      /\ OccurrenceOf(x) >= x.nextFire
    BY <1>1 DEF OccurrenceOf, JobSound, JobRecords, TypeOK, CountersTypeOK
<1>3. CASE x.kind = "recurring"
  <2> DEFINE y == [x EXCEPT !.nextFire = CronNext(x.cron, now), !.done = FALSE, !.lastRunAt = now,
                            !.lastScheduledFor = OccurrenceOf(x), !.lastStatus = "running"]
  <2>1. Claimed(x) = y
    BY <1>3 DEF Claimed, NextAfterNow
  <2>2. y \in JobRecords
    BY <1>0, <1>1, <1>2, <1>3 DEF JobRecords, Statuses
  <2>3. QED BY <1>1, <1>2, <1>3, <2>1, <2>2 DEF JobSound, JobRecords, Idle, TypeOK, CountersTypeOK
<1>4. CASE x.kind = "oneshot"
  <2> DEFINE y == [x EXCEPT !.nextFire = 0, !.done = TRUE, !.lastRunAt = now,
                            !.lastScheduledFor = OccurrenceOf(x), !.lastStatus = "running"]
  <2>1. Claimed(x) = y
    BY <1>4 DEF Claimed, NextAfterNow
  <2>2. y \in JobRecords
    BY <1>0, <1>2 DEF JobRecords, Statuses
  <2>3. QED BY <1>2, <1>4, <2>1, <2>2 DEF JobSound, JobRecords, Idle, TypeOK, CountersTypeOK
<1>5. QED BY <1>3, <1>4 DEF JobSound, JobRecords, Kinds

LEMMA CompletedSound ==
    ASSUME TypeOK, NEW j \in Jobs, NEW x, JobSound(j, x), x.lastStatus = "running",
           NEW r \in RunRecords, r.job = j, r.startedAt = x.lastRunAt,
           r.finishedAt >= r.startedAt, r.finishedAt <= now, NEW n \in BOOLEAN
    PROVE  /\ JobSound(j, Completed(x, r, n))
           /\ Completed(x, r, n).pendingRun = r
           /\ Completed(x, r, n).lastRunAt = x.lastRunAt
           /\ Completed(x, r, n).lastScheduledFor = x.lastScheduledFor
           /\ Completed(x, r, n).lastStatus # "running"
<1> DEFINE y == Completed(x, r, n)
           fire == IF r.status = "model_unavailable" /\ x.kind = "oneshot"
                   THEN r.finishedAt + RetryDelay
                   ELSE IF x.kind = "recurring" /\ (x.nextFire = 0 \/ x.nextFire <= r.finishedAt)
                        THEN CronNext(x.cron, r.finishedAt) ELSE x.nextFire
           done == x.done /\ ~(r.status = "model_unavailable" /\ x.kind = "oneshot")
           latch == x.unavailableNotified /\ r.status = "model_unavailable"
           note == IF n THEN "intent" ELSE "none"
<1>0. /\ x \in JobRecords /\ x.nextFire \in Nat /\ x.lastRunAt \in Nat
      /\ x.kind \in Kinds /\ x.done \in BOOLEAN /\ x.unavailableNotified \in BOOLEAN
      /\ r.finishedAt \in Nat /\ r.startedAt \in Nat /\ r.status \in Archivable
    BY DEF JobSound, JobRecords, RunRecords
<1>1. ASSUME x.kind = "recurring"
      PROVE  CronNext(x.cron, r.finishedAt) \in Nat /\ CronNext(x.cron, r.finishedAt) > r.finishedAt
  <2>1. x.cron \in Crons /\ r.finishedAt \in Times
    BY <1>0, <1>1, BoundsAssumption DEF JobSound, TypeOK, CountersTypeOK, Times
  <2>2. QED BY <2>1, CronAssumption
<1>2. fire \in Nat /\ done \in BOOLEAN /\ latch \in BOOLEAN /\ note \in Intents
    BY <1>0, <1>1, BoundsAssumption DEF Intents
<1>3. y = [x EXCEPT !.lastStatus = r.status, !.unavailableNotified = latch, !.done = done,
                    !.nextFire = fire, !.pendingRun = r, !.pendingNotification = note]
    BY DEF Completed, Retries
<1>4. y \in JobRecords
    BY <1>0, <1>2, <1>3 DEF JobRecords, Statuses, Archivable
<1>5. /\ y.kind = x.kind /\ y.cron = x.cron /\ y.lastStatus = r.status /\ y.done = done
      /\ y.nextFire = fire /\ y.pendingRun = r /\ y.lastRunAt = x.lastRunAt
      /\ y.lastScheduledFor = x.lastScheduledFor
    BY <1>0, <1>3 DEF JobRecords
<1>6. r.status # "running"
    BY <1>0 DEF Archivable
<1>7. ~done => fire > x.lastRunAt
    BY <1>0, <1>1, BoundsAssumption DEF JobSound, Kinds
<1>8. x.kind = "recurring" => ~done /\ x.cron \in Crons
    BY DEF JobSound
<1>9. r # NoRun /\ x.lastRunAt # 0
    BY NoRunAssumption DEF JobSound
<1>10. JobSound(j, y)
    BY <1>4, <1>5, <1>6, <1>7, <1>8, <1>9 DEF JobSound
<1>11. QED BY <1>5, <1>6, <1>10

LEMMA SettledSound ==
    ASSUME TypeOK, NEW j \in Jobs, NEW x, JobSound(j, x), x.pendingRun # NoRun,
           NEW u \in BOOLEAN
    PROVE  /\ JobSound(j, Settled(x, u))
           /\ Settled(x, u).pendingRun # NoRun
           /\ Settled(x, u).pendingNotification = "none"
           /\ Settled(x, u).lastRunAt = x.lastRunAt
           /\ Settled(x, u).lastScheduledFor = x.lastScheduledFor
           /\ Settled(x, u).lastStatus = x.lastStatus
           /\ x.pendingNotification = "none" => Settled(x, u) = x
<1>1. x.pendingRun \in RunRecords
    BY DEF JobSound, JobRecords
<1>2. [x.pendingRun EXCEPT !.notifyError = u] \in RunRecords
    BY <1>1 DEF RunRecords
<1>3. Settled(x, u) \in JobRecords
    BY <1>1, <1>2 DEF Settled, JobSound, JobRecords, Intents
<1>4. QED BY <1>1, <1>2, <1>3, NoRunAssumption DEF Settled, JobSound, JobRecords, RunRecords

LEMMA InterruptedSound ==
    ASSUME TypeOK, NEW j \in DOMAIN disk, JobSound(j, disk[j]),
           disk[j].lastStatus = "running"
    PROVE  /\ JobSound(j, Interrupted(j))
           /\ Interrupted(j).lastRunAt = disk[j].lastRunAt
           /\ Interrupted(j).lastScheduledFor = disk[j].lastScheduledFor
           /\ Interrupted(j).lastStatus # "running"
<1> DEFINE r == [job |-> j, startedAt |-> disk[j].lastRunAt,
                 scheduledFor |-> disk[j].lastScheduledFor, finishedAt |-> now,
                 status |-> "interrupted", notifyError |-> FALSE]
<1>1. r \in RunRecords
    BY DEF RunRecords, Archivable, JobSound, JobRecords, TypeOK, StoreTypeOK, CountersTypeOK
<1>2. Interrupted(j) \in JobRecords
    BY <1>1 DEF Interrupted, JobSound, JobRecords, Statuses
<1>3. QED BY <1>1, <1>2, NoRunAssumption DEF Interrupted, JobSound, JobRecords, RunRecords

(* Clearing the marker of an archived run leaves an idle job. *)
LEMMA ClearedSound ==
    ASSUME NEW j \in Jobs, NEW x, JobSound(j, x), ~x.done, x.pendingRun # NoRun,
           x.pendingNotification = "none"
    PROVE  /\ JobSound(j, [x EXCEPT !.pendingRun = NoRun])
           /\ Idle([x EXCEPT !.pendingRun = NoRun])
<1>1. [x EXCEPT !.pendingRun = NoRun] \in JobRecords
    BY DEF JobSound, JobRecords
<1>2. QED BY <1>1 DEF JobSound, JobRecords, Idle

-----------------------------------------------------------------------------
(* The job a busy scheduler works on is in the table and on disk. *)
LEMMA BusyFacts ==
    ASSUME IInv, pc \in Busy
    PROVE  /\ cur \in Jobs /\ cur \in running /\ cur \in DOMAIN mem /\ cur \in DOMAIN disk
           /\ disk[cur] \in JobRecords /\ mem[cur] \in JobRecords
           /\ JobSound(cur, disk[cur])
           /\ ~Locked => mem[cur] = disk[cur]
<1>1. pc \in Serving
    BY DEF Serving
<1>2. /\ cur \in running /\ cur \in DOMAIN disk /\ DOMAIN mem = DOMAIN disk
    BY <1>1 DEF IInv, StepSound, TableSound
<1>3. cur \in Jobs /\ disk[cur] \in JobRecords /\ mem[cur] \in JobRecords
    BY <1>2 DEF IInv, TypeOK, StoreTypeOK, TableTypeOK
<1>4. JobSound(cur, disk[cur])
    BY <1>2 DEF IInv, StoreSound
<1>5. ~Locked => mem[cur] = disk[cur]
    BY <1>1, <1>2 DEF IInv, TableSound
<1>6. QED BY <1>2, <1>3, <1>4, <1>5

(* A finalizing scheduler's marker is a run record of the job. *)
LEMMA MarkerFacts ==
    ASSUME IInv, pc \in Finalizing
    PROVE  /\ disk[cur].pendingRun \in RunRecords
           /\ RunID(disk[cur].pendingRun) \in RunIDs
           /\ ~Locked => mem[cur] = disk[cur]
<1>1. pc \in Busy
    BY DEF Busy
<1>2. disk[cur].pendingRun # NoRun
    BY DEF IInv, StepSound
<1>3. disk[cur].pendingRun \in RunRecords
    BY <1>1, <1>2, BusyFacts DEF JobRecords
<1>4. disk[cur].pendingRun.startedAt \in Times
    BY <1>1, <1>2, <1>3, BusyFacts, BoundsAssumption DEF JobSound, RunRecords, Times, IInv, TypeOK, CountersTypeOK
<1>5. RunID(disk[cur].pendingRun) \in RunIDs
    BY <1>3, <1>4 DEF RunID, RunIDs, RunRecords
<1>6. QED BY <1>1, <1>3, <1>5, BusyFacts

(* What executeClaimed persists when the executor returns. *)
LEMMA PersistedSound ==
    ASSUME IInv, PersistCompletion
    PROVE  LET x == Completed(mem[cur], run, ShouldNotify(mem[cur], run))
           IN  /\ JobSound(cur, x) /\ x.pendingRun = run
               /\ x.lastRunAt = disk[cur].lastRunAt
               /\ x.lastScheduledFor = disk[cur].lastScheduledFor
               /\ x.lastStatus # "running"
<1>1. pc \in Busy /\ ~Locked
    BY DEF PersistCompletion, Busy, Locked
<1>2. /\ cur \in Jobs /\ JobSound(cur, mem[cur]) /\ mem[cur] = disk[cur]
    BY <1>1, BusyFacts
<1>3. /\ mem[cur].lastStatus = "running" /\ run \in RunRecords /\ run.job = cur
      /\ run.startedAt = mem[cur].lastRunAt /\ run.finishedAt >= run.startedAt
      /\ run.finishedAt <= now
    BY <1>2 DEF PersistCompletion, IInv, StepSound
<1>4. ShouldNotify(mem[cur], run) \in BOOLEAN
    BY DEF ShouldNotify
<1>5. TypeOK
    BY DEF IInv
<1>6. QED BY <1>2, <1>3, <1>4, <1>5, CompletedSound

(* A due job is sound, idle and on disk. *)
LEMMA DueFacts ==
    ASSUME IInv, pc = "loop", NEW j \in Due
    PROVE  /\ j \in Jobs /\ j \in DOMAIN mem /\ j \in DOMAIN disk /\ mem[j] = disk[j]
           /\ j \notin running /\ JobSound(j, mem[j]) /\ Idle(mem[j])
           /\ ~mem[j].done /\ mem[j].nextFire <= now
<1>1. j \in DOMAIN mem /\ j \notin running /\ ~mem[j].done /\ mem[j].nextFire <= now
    BY DEF Due
<1>2. pc \in Serving
    BY DEF Serving
<1>3. j \in DOMAIN disk /\ mem[j] = disk[j] /\ Idle(mem[j])
    BY <1>1, <1>2 DEF IInv, TableSound
<1>4. j \in Jobs
    BY <1>1 DEF IInv, TypeOK, StoreTypeOK, TableTypeOK
<1>5. JobSound(j, mem[j])
    BY <1>3 DEF IInv, StoreSound
<1>6. QED BY <1>1, <1>3, <1>4, <1>5

(* The run record the executor's answer fills in. *)
LEMMA ReturnedRun ==
    ASSUME IInv, NEW o \in Outcomes, ExecuteReturns(o)
    PROVE  run' \in RunRecords
<1>1. cur \in Jobs /\ mem[cur].lastRunAt \in Nat /\ mem[cur].lastScheduledFor \in Nat /\ now \in Nat
    BY BusyFacts DEF ExecuteReturns, Busy, JobRecords, IInv, TypeOK, CountersTypeOK
<1>2. StatusOf(o) \in Archivable
    BY DEF StatusOf, Outcomes, Archivable, IInv, TypeOK, LoopTypeOK
<1>3. QED BY <1>1, <1>2 DEF ExecuteReturns, RunRecords

LEMMA InitIInv == Init => IInv
<1> SUFFICES ASSUME Init PROVE IInv
    OBVIOUS
<1>1. DOMAIN NoJobs = {}
    BY DEF NoJobs
<1>2. StoreTypeOK /\ TableTypeOK /\ LoopTypeOK
    BY <1>1 DEF Init, StoreTypeOK, TableTypeOK, LoopTypeOK, PCs
<1>2a. BusTypeOK /\ CountersTypeOK
    BY BoundsAssumption DEF Init, BusTypeOK, CountersTypeOK
<1>3. IsFiniteSet({}) /\ Cardinality({}) = 0
    BY FS_EmptySet
<1>4. StoreSound
    BY <1>1, <1>3, BoundsAssumption DEF Init, StoreSound
<1>5. TableSound /\ StepSound /\ NeverInconsistent /\ OccurrencesAdvance
    BY <1>1 DEF Init, TableSound, StepSound, NeverInconsistent, OccurrencesAdvance, Serving, Busy,
           Finalizing, Locked
<1>6. QED BY <1>2, <1>2a, <1>4, <1>5 DEF IInv, TypeOK

-----------------------------------------------------------------------------
(* An API call changes the files, the table, the issued IDs and the wake   *)
(* token, and nothing of the Run loop.                                     *)
LEMMA CallFrame ==
    ASSUME Call
    PROVE  /\ pc \in Serving /\ ~Locked /\ calls < MaxCalls /\ calls' = calls + 1 /\ wake' = TRUE
           /\ UNCHANGED <<archive, transcript, running, pc, cur, run, fctx, timerAt, todo, ctxDone>>
           /\ UNCHANGED <<outq, inflight, ack, now, faults, started, intended, sent>>
<1>1. PICK j \in Jobs :
          \/ \E s \in Schedules, n \in BOOLEAN, t \in 1 .. MaxTime : Create(j, s, n, t)
          \/ \E r \in BOOLEAN, s \in Schedules, m \in BOOLEAN, n \in BOOLEAN : Update(j, r, s, m, n)
          \/ Delete(j)
    BY DEF Call
<1>2. ASSUME NEW s, NEW n, NEW t, Create(j, s, n, t)
      PROVE  /\ Callable /\ wake' = TRUE
             /\ UNCHANGED <<archive, transcript, running, pc, local, timerAt, todo, ctxDone,
                            outbound, now, faults, history>>
    BY <1>2 DEF Create, NotifyWake
<1>3. ASSUME NEW r, NEW s, NEW m, NEW n, Update(j, r, s, m, n)
      PROVE  /\ Callable /\ wake' = TRUE
             /\ UNCHANGED <<archive, transcript, running, pc, local, timerAt, todo, ctxDone,
                            outbound, now, faults, history>>
    BY <1>3 DEF Update, NotifyWake
<1>4. ASSUME Delete(j)
      PROVE  /\ Callable /\ wake' = TRUE
             /\ UNCHANGED <<archive, transcript, running, pc, local, timerAt, todo, ctxDone,
                            outbound, now, faults, history>>
    BY <1>4 DEF Delete, NotifyWake
<1>5. /\ Callable /\ wake' = TRUE
      /\ UNCHANGED <<archive, transcript, running, pc, local, timerAt, todo, ctxDone,
                     outbound, now, faults, history>>
    BY <1>1, <1>2, <1>3, <1>4
<1>6. QED BY <1>5 DEF Callable, local, outbound, history

-----------------------------------------------------------------------------
(* TypeOK, one part at a time. *)
LEMMA BusTypeStep == IInv /\ [Next]_vars => BusTypeOK'
<1> SUFFICES ASSUME IInv, [Next]_vars PROVE BusTypeOK'
    OBVIOUS
<1>1. BusTypeOK
    BY DEF IInv, TypeOK
<1>2. CASE Publish
  <2>1. mem[cur] = disk[cur] /\ RunID(mem[cur].pendingRun) \in RunIDs
    BY <1>2, MarkerFacts DEF Publish, Finalizing, Locked
  <2>2. QED BY <1>1, <1>2, <2>1 DEF Publish, BusTypeOK, Requests
<1>3. CASE PublishTimesOut
  <2>1. ASSUME NEW q \in Seq(Requests) PROVE Abandoned(q) \in Seq(Requests)
    <3>1. Len(q) \in Nat /\ DOMAIN q = 1 .. Len(q)
        OBVIOUS
    <3>2. ASSUME NEW i \in 1 .. Len(q) PROVE [q[i] EXCEPT !.live = FALSE] \in Requests
        <4>1. q[i] \in Requests
            OBVIOUS
        <4>2. QED BY <4>1 DEF Requests
    <3>3. Abandoned(q) = [i \in 1 .. Len(q) |-> [q[i] EXCEPT !.live = FALSE]]
        BY <3>1 DEF Abandoned
    <3>4. QED BY <3>1, <3>2, <3>3
  <2>2. QED BY <1>1, <1>3, <2>1 DEF PublishTimesOut, BusTypeOK
<1>4. CASE PublishAnswered
    BY <1>1, <1>4 DEF PublishAnswered, BusTypeOK
<1>4a. CASE OutboundTake
  <2>1. Head(outq) \in Requests /\ Tail(outq) \in Seq(Requests)
    BY <1>1, <1>4a, HeadTailProperties DEF OutboundTake, BusTypeOK
  <2>2. QED BY <1>1, <1>4a, <2>1 DEF OutboundTake, BusTypeOK
<1>5. ASSUME NEW d \in DeliveryResults, OutboundDeliver(d) PROVE BusTypeOK'
    BY <1>1, <1>5 DEF OutboundDeliver, Answer, BusTypeOK
<1>6. CASE Exit \/ Crash
  <2>1. <<>> \in Seq(Requests)
    OBVIOUS
  <2>2. outq' = <<>> /\ inflight' = <<>> /\ ack' = "none"
    BY <1>6 DEF Exit, Crash, ProcessGone
  <2>3. QED BY <2>1, <2>2 DEF BusTypeOK
<1>7. CASE UNCHANGED outbound
    BY <1>1, <1>7 DEF outbound, BusTypeOK
<1>8. CASE Call
    BY <1>7, <1>8, CallFrame DEF outbound
<1>9. CASE RunLoop
    BY <1>2, <1>3, <1>4, <1>7, <1>9
    DEF RunLoop, outbound, RunReturns, ResumePendingNotification, ClaimNextDue, GoToSleep, WakeUp,
        TimerFires, Execute, ExecuteReturns, PersistCompletion, MarkNotificationDelivered,
        RecordDelivered, RecordInterrupted, StoreNotificationResult, AppendRunRecord,
        ClearPendingRun, WriteRefused, FatalError
<1>10. CASE Reconcile \/ Tick \/ UNCHANGED vars
    BY <1>7, <1>10 DEF Reconcile, outbound, Boot, BootDone, BootKeep, BootInterrupt, BootAppend,
       BootClear, Tick, vars
<1>11. CASE OutboundWorker \/ Fault
    BY <1>4a, <1>5, <1>6, <1>7, <1>11
    DEF OutboundWorker, Fault, outbound, Stop, PersistDeadline, WriteFails, FatalError
<1>12. QED BY <1>8, <1>9, <1>10, <1>11 DEF Next

LEMMA CountersTypeStep == IInv /\ [Next]_vars => CountersTypeOK'
<1> SUFFICES ASSUME IInv, [Next]_vars PROVE CountersTypeOK'
    OBVIOUS
<1>1. CountersTypeOK /\ BusTypeOK
    BY DEF IInv, TypeOK
<1> DEFINE counters == <<now, calls, faults, started, intended, sent>>
<1>2. CASE Call
  <2>1. calls' = calls + 1 /\ calls < MaxCalls /\ UNCHANGED <<now, faults, started, intended, sent>>
    BY <1>2, CallFrame
  <2>2. QED BY <1>1, <2>1, BoundsAssumption DEF CountersTypeOK
<1>3. CASE Execute
  <2>1. cur \in Jobs /\ mem[cur].lastRunAt \in Nat /\ mem[cur].lastScheduledFor \in Nat
    BY <1>3, BusyFacts DEF Execute, Busy, JobRecords
  <2>2. QED BY <1>1, <1>3, <2>1 DEF Execute, CountersTypeOK
<1>4. CASE PersistCompletion
  <2>1. cur \in Jobs /\ run \in RunRecords /\ run.job = cur /\ run.startedAt <= now
    BY <1>4, BusyFacts, <1>1
    DEF PersistCompletion, Busy, IInv, StepSound, RunRecords, CountersTypeOK
  <2>2. RunID(run) \in RunIDs
    BY <1>1, <2>1, BoundsAssumption DEF RunID, RunIDs, RunRecords, Times, CountersTypeOK
  <2>3. QED BY <1>1, <1>4, <2>2 DEF PersistCompletion, CountersTypeOK
<1>5. ASSUME NEW d \in DeliveryResults, OutboundDeliver(d) PROVE CountersTypeOK'
  <2>1. inflight[1] \in Requests
    BY <1>1, <1>5 DEF OutboundDeliver, BusTypeOK
  <2>2. inflight[1].id \in RunIDs
    BY <2>1 DEF Requests
  <2>3. QED BY <1>1, <1>5, <2>2 DEF OutboundDeliver, CountersTypeOK
<1>6. CASE Fault
  <2>1. UNCHANGED <<now, calls, started, intended, sent>> /\ (UNCHANGED faults \/ FaultBudget)
    BY <1>6 DEF Fault, Stop, PersistDeadline, WriteFails, FatalError, Exit, Crash, ProcessGone,
       history
  <2>2. QED BY <1>1, <2>1, BoundsAssumption DEF FaultBudget, CountersTypeOK
<1>7. CASE Tick
    BY <1>1, <1>7, BoundsAssumption DEF Tick, history, CountersTypeOK
<1>8. CASE UNCHANGED counters
    BY <1>1, <1>8 DEF CountersTypeOK
<1>9. CASE RunLoop
    BY <1>3, <1>4, <1>8, <1>9
    DEF RunLoop, history, RunReturns, ResumePendingNotification, ClaimNextDue, GoToSleep, WakeUp,
        TimerFires, ExecuteReturns, Publish, PublishTimesOut, PublishAnswered,
        MarkNotificationDelivered, RecordDelivered, RecordInterrupted, StoreNotificationResult,
        AppendRunRecord, ClearPendingRun, WriteRefused, FatalError
<1>10. CASE Reconcile \/ OutboundTake \/ UNCHANGED vars
    BY <1>8, <1>10 DEF Reconcile, history, Boot, BootDone, BootKeep, BootInterrupt, BootAppend,
       BootClear, OutboundTake, vars
<1>11. QED BY <1>2, <1>5, <1>6, <1>7, <1>9, <1>10 DEF Next, OutboundWorker

LEMMA LoopTypeStep == IInv /\ [Next]_vars => LoopTypeOK'
<1> SUFFICES ASSUME IInv, [Next]_vars PROVE LoopTypeOK'
    OBVIOUS
<1>1. LoopTypeOK /\ StoreTypeOK /\ TableTypeOK /\ CountersTypeOK
    BY DEF IInv, TypeOK
<1> USE DEF local, PCs, Serving, Busy, Finalizing
<1>2. CASE Call
  <2>1. UNCHANGED <<pc, cur, run, fctx, timerAt, ctxDone>> /\ wake' = TRUE
    BY <1>2, CallFrame
  <2>2. QED BY <1>1, <2>1 DEF LoopTypeOK
<1>3. CASE RunReturns \/ WakeUp \/ TimerFires
  <2>1. /\ pc' \in {"stopped", "loop"} /\ UNCHANGED <<cur, run, fctx, ctxDone>>
        /\ timerAt' \in {0, timerAt} /\ (wake' = wake \/ wake' = FALSE)
    BY <1>3 DEF RunReturns, WakeUp, TimerFires
  <2>2. wake' \in BOOLEAN
    BY <1>1, <2>1, Zenon DEF LoopTypeOK
  <2>3. QED BY <1>1, <2>1, <2>2 DEF LoopTypeOK
<1>4. CASE ResumePendingNotification
  <2>1. PICK j \in PendingNotifications : cur' = j /\ pc' = FinalizeStep(mem[j])
    BY <1>4 DEF ResumePendingNotification
  <2>2. j \in Jobs /\ mem[j] \in JobRecords
    BY <1>1, <2>1 DEF PendingNotifications, StoreTypeOK, TableTypeOK
  <2>3. FinalizeStep(mem[j]) \in Finalizing
    BY <2>2 DEF FinalizeStep, JobRecords, Intents
  <2>4. QED BY <1>1, <1>4, <2>1, <2>2, <2>3 DEF ResumePendingNotification, LoopTypeOK
<1>5. CASE ClaimNextDue
  <2>1. cur' \in DOMAIN mem /\ pc' = "claimed" /\ UNCHANGED <<run, fctx, timerAt, wake, ctxDone>>
    BY <1>5 DEF ClaimNextDue, Due
  <2>2. cur' \in Jobs
    BY <1>1, <2>1 DEF StoreTypeOK, TableTypeOK
  <2>3. QED BY <1>1, <2>1, <2>2 DEF LoopTypeOK
<1>6. CASE GoToSleep
  <2>1. timerAt' \in Nat
    BY <1>1, <1>6, BoundsAssumption DEF GoToSleep, Waiting, TableTypeOK, JobRecords, CountersTypeOK
  <2>2. QED BY <1>1, <1>6, <2>1 DEF GoToSleep, LoopTypeOK
<1>7. CASE Execute
    BY <1>1, <1>7 DEF Execute, LoopTypeOK
<1>8. ASSUME NEW o \in Outcomes, ExecuteReturns(o) PROVE LoopTypeOK'
  <2>1. run' \in RunRecords
    BY <1>8, ReturnedRun
  <2>2. QED BY <1>1, <1>8, <2>1 DEF ExecuteReturns, LoopTypeOK
<1>9. CASE PersistCompletion
  <2> DEFINE x == Completed(mem[cur], run, ShouldNotify(mem[cur], run))
  <2>1. x \in JobRecords
    BY <1>9, PersistedSound DEF JobSound
  <2>2. pc' = FinalizeStep(x) /\ run' = NoRun /\ fctx' = "persist"
        /\ UNCHANGED <<cur, timerAt, wake, ctxDone>>
    BY <1>9 DEF PersistCompletion
  <2>3. FinalizeStep(x) \in Finalizing
    BY <2>1 DEF FinalizeStep, JobRecords, Intents
  <2>4. QED BY <1>1, <2>2, <2>3 DEF LoopTypeOK
<1>10. CASE Publish \/ PublishTimesOut \/ PublishAnswered
  <2>1. /\ pc' \in PCs /\ (cur' = cur \/ cur' = 0) /\ (fctx' = fctx \/ fctx' = "run")
        /\ UNCHANGED <<run, timerAt, wake, ctxDone>>
    BY <1>10 DEF Publish, PublishTimesOut, PublishAnswered, DeliveryFailed
  <2>2. QED BY <1>1, <2>1 DEF LoopTypeOK
<1>11. CASE \/ MarkNotificationDelivered \/ RecordDelivered \/ RecordInterrupted
            \/ StoreNotificationResult \/ AppendRunRecord \/ ClearPendingRun
  <2>1. /\ pc' \in PCs /\ (cur' = cur \/ cur' = 0) /\ (fctx' = fctx \/ fctx' = "run")
        /\ UNCHANGED <<run, timerAt, wake, ctxDone>>
    BY <1>11 DEF MarkNotificationDelivered, RecordDelivered, RecordInterrupted,
       StoreNotificationResult, AppendRunRecord, ClearPendingRun
  <2>2. QED BY <1>1, <2>1 DEF LoopTypeOK
<1>12. CASE WriteRefused \/ WriteFails
  <2>1. pc' = "stopped" /\ ctxDone' = TRUE /\ UNCHANGED <<cur, run, fctx, timerAt, wake>>
    BY <1>12 DEF WriteRefused, WriteFails, FatalError
  <2>2. QED BY <1>1, <2>1 DEF LoopTypeOK
<1>13. CASE OutboundWorker \/ Tick \/ UNCHANGED vars
    BY <1>1, <1>13 DEF OutboundWorker, OutboundTake, OutboundDeliver, Tick, vars, LoopTypeOK
<1>14. CASE Stop \/ PersistDeadline
  <2>1. /\ ctxDone' \in BOOLEAN /\ fctx' \in {fctx, "expired"}
        /\ UNCHANGED <<pc, cur, run, timerAt, wake>>
    BY <1>1, <1>14 DEF Stop, PersistDeadline, LoopTypeOK
  <2>2. QED BY <1>1, <2>1 DEF LoopTypeOK
<1>15. CASE Exit \/ Crash
  <2>1. /\ pc' = "down" /\ cur' = 0 /\ run' = NoRun /\ fctx' = "run" /\ timerAt' = 0
        /\ wake' = FALSE /\ ctxDone' = FALSE
    BY <1>15 DEF Exit, Crash, ProcessGone
  <2>2. QED BY <2>1 DEF LoopTypeOK
<1>16. CASE Reconcile
  <2>1. pc' \in PCs /\ UNCHANGED <<cur, run, fctx, timerAt, wake, ctxDone>>
    BY <1>1, <1>16 DEF Reconcile, Boot, BootDone, BootKeep, BootInterrupt, BootAppend, BootClear,
       BootReject, LoopTypeOK
  <2>2. QED BY <1>1, <2>1 DEF LoopTypeOK
<1>17. QED
    BY <1>2, <1>3, <1>4, <1>5, <1>6, <1>7, <1>8, <1>9, <1>10, <1>11, <1>12, <1>13, <1>14, <1>15,
       <1>16
    DEF Next, RunLoop, Fault

-----------------------------------------------------------------------------
(* The files that the writing steps produce are sound, alone and against   *)
(* the archive and the executions.                                         *)
FileOK(j, x) == JobSound(j, x) /\ ArchiveSound(j, x) /\ StartedSound(j, x)

LEMMA FilesAreOK ==
    ASSUME IInv, NEW j \in DOMAIN disk
    PROVE  FileOK(j, disk[j]) /\ j \in Jobs /\ disk[j].lastRunAt \in Nat
           /\ disk[j].lastScheduledFor \in Nat
BY DEF IInv, StoreSound, FileOK, TypeOK, StoreTypeOK, JobRecords

(* Rewriting a file without touching its run's identity. *)
LEMMA SameRunOK ==
    ASSUME IInv, NEW j \in DOMAIN disk, NEW x, JobSound(j, x),
           x.lastRunAt = disk[j].lastRunAt, x.lastScheduledFor = disk[j].lastScheduledFor,
           \/ disk[j].lastStatus = "running" \/ disk[j].pendingNotification # "none"
           \/ /\ x.lastStatus # "running" /\ x.pendingNotification = "none"
              /\ x.pendingRun = NoRun \/ x.pendingRun = disk[j].pendingRun
    PROVE  FileOK(j, x)
<1>1. ArchiveSound(j, disk[j]) /\ StartedSound(j, disk[j])
    BY FilesAreOK DEF FileOK
<1>2. StartedSound(j, x)
    BY <1>1 DEF StartedSound
<1>3. ArchiveSound(j, x)
    BY <1>1 DEF ArchiveSound
<1>4. QED BY <1>2, <1>3 DEF FileOK

LEMMA CreateWrites ==
    ASSUME IInv, NEW j \in Jobs, NEW s \in Schedules, NEW n \in BOOLEAN,
           NEW t \in 1 .. MaxTime, Create(j, s, n, t)
    PROVE  FileOK(j, NewJob(s, n, t)) /\ j \notin DOMAIN disk
<1>1. JobSound(j, NewJob(s, n, t))
    BY NewJobSound DEF IInv, Create
<1>2. j \notin issued
    BY DEF Create
<1>3. j \notin DOMAIN disk /\ (\A r \in archive : r.job # j) /\ (\A e \in started : e.job # j)
    BY <1>2 DEF IInv, TypeOK, StoreTypeOK, StoreSound
<1>4. QED BY <1>1, <1>3 DEF FileOK, ArchiveSound, StartedSound

LEMMA UpdateWrites ==
    ASSUME IInv, NEW j \in Jobs, NEW r \in BOOLEAN, NEW s \in Schedules, NEW m \in BOOLEAN,
           NEW n \in BOOLEAN, Update(j, r, s, m, n)
    PROVE  \E x : /\ FileOK(j, x) /\ Idle(x) /\ StoreJob(j, x) /\ mem' = Put(mem, j, x)
                  /\ j \in DOMAIN disk /\ j \in DOMAIN mem /\ j \notin running
<1>1. /\ j \in DOMAIN mem /\ j \in DOMAIN disk /\ j \notin running /\ mem[j] = disk[j]
      /\ Idle(mem[j])
    BY DEF Update, Callable, Mutable, IInv, TableSound
<1>2. JobSound(j, mem[j])
    BY <1>1, FilesAreOK DEF FileOK
<1> DEFINE a == IF r THEN Rescheduled(mem[j], s) ELSE mem[j]
           b == IF m THEN Repointed(a) ELSE a
           x == [b EXCEPT !.notify = n]
<1>3. JobSound(j, a) /\ Idle(a)
    BY <1>1, <1>2, RescheduledSound DEF Update, IInv
<1>4. /\ a.lastRunAt = disk[j].lastRunAt /\ a.lastScheduledFor = disk[j].lastScheduledFor
    BY <1>1, <1>2 DEF Rescheduled, JobSound, JobRecords
<1>5. Repointed(a) \in JobRecords /\ b \in JobRecords /\ x \in JobRecords
  <2>1. a \in JobRecords
    BY <1>3 DEF JobSound
  <2>2. Repointed(a) \in JobRecords
    BY <2>1 DEF Repointed, JobRecords
  <2>3. QED BY <2>1, <2>2 DEF JobRecords
<1>6. /\ x.lastRunAt = a.lastRunAt /\ x.lastScheduledFor = a.lastScheduledFor
      /\ x.pendingRun = a.pendingRun /\ x.pendingNotification = a.pendingNotification
      /\ x.lastStatus = a.lastStatus /\ x.kind = a.kind /\ x.cron = a.cron /\ x.done = a.done
      /\ x.nextFire = a.nextFire
  <2>1. a \in JobRecords
    BY <1>3 DEF JobSound
  <2>2. QED BY <2>1 DEF Repointed, JobRecords
<1>7. JobSound(j, x) /\ Idle(x)
    BY <1>3, <1>5, <1>6 DEF JobSound, Idle
<1>8. x.pendingNotification = "none" /\ x.pendingRun = NoRun /\ x.lastStatus # "running"
    BY <1>7 DEF JobSound, Idle, JobRecords, Intents
<1>9. FileOK(j, x)
    BY <1>1, <1>4, <1>6, <1>7, <1>8, SameRunOK
<1>10. StoreJob(j, x) /\ mem' = Put(mem, j, x)
    BY DEF Update
<1>11. QED BY <1>1, <1>7, <1>9, <1>10

LEMMA ClaimWrites ==
    ASSUME IInv, pc = "loop", NEW j \in Due
    PROVE  FileOK(j, Claimed(mem[j])) /\ Claimed(mem[j]).lastStatus = "running"
           /\ Claimed(mem[j]).pendingRun = NoRun
           /\ \A s \in started : s.job = j => s.startedAt # Claimed(mem[j]).lastRunAt
<1> DEFINE x == Claimed(mem[j])
<1>1. /\ JobSound(j, x) /\ x.lastRunAt > disk[j].lastRunAt
      /\ x.lastScheduledFor > disk[j].lastScheduledFor
      /\ x.lastStatus = "running" /\ x.pendingRun = NoRun
    BY DueFacts, ClaimedSound DEF IInv
<1>2. x.lastRunAt \in Nat /\ x.lastScheduledFor \in Nat
    BY <1>1 DEF JobSound, JobRecords
<1>3. /\ ArchiveSound(j, disk[j]) /\ StartedSound(j, disk[j]) /\ disk[j].lastRunAt \in Nat
      /\ disk[j].lastScheduledFor \in Nat
    BY DueFacts, FilesAreOK DEF FileOK
<1>4. /\ \A r \in archive : r.startedAt \in Nat
      /\ \A s \in started : s.startedAt \in Nat /\ s.scheduledFor \in Nat
    BY DEF IInv, TypeOK, StoreTypeOK, CountersTypeOK, RunRecords
<1> HIDE DEF x
<1>5. ArchiveSound(j, x)
    BY <1>1, <1>2, <1>3, <1>4 DEF ArchiveSound
<1>6. /\ StartedSound(j, x)
      /\ \A s \in started : s.job = j => s.startedAt # x.lastRunAt
    BY <1>1, <1>2, <1>3, <1>4 DEF StartedSound
<1>7. QED BY <1>1, <1>5, <1>6 DEF FileOK, x

LEMMA PersistWrites ==
    ASSUME IInv, PersistCompletion
    PROVE  LET x == Completed(mem[cur], run, ShouldNotify(mem[cur], run))
           IN  FileOK(cur, x) /\ x.pendingRun = run /\ x.pendingRun # NoRun
<1>1. pc \in Busy /\ cur \in DOMAIN disk /\ disk[cur].lastStatus = "running" /\ run \in RunRecords
    BY DEF PersistCompletion, Busy, IInv, StepSound
<1>2. QED BY <1>1, PersistedSound, SameRunOK, NoRunAssumption

LEMMA MarkWrites ==
    ASSUME IInv, pc = "marking"
    PROVE  LET x == [mem[cur] EXCEPT !.pendingNotification = "delivered"]
           IN  FileOK(cur, x) /\ x.pendingRun = disk[cur].pendingRun
               /\ x.pendingNotification = "delivered"
<1> DEFINE x == [mem[cur] EXCEPT !.pendingNotification = "delivered"]
<1>1. pc \in Finalizing /\ pc \in Busy /\ ~Locked
    BY DEF Busy, Finalizing, Locked
<1>2. /\ cur \in DOMAIN disk /\ mem[cur] = disk[cur] /\ JobSound(cur, disk[cur])
      /\ disk[cur] \in JobRecords
    BY <1>1, BusyFacts
<1>3. disk[cur].pendingNotification # "none" /\ disk[cur].pendingRun # NoRun
    BY <1>1 DEF IInv, StepSound
<1>4. x \in JobRecords
    BY <1>2 DEF JobRecords, Intents
<1>5. JobSound(cur, x)
    BY <1>2, <1>3, <1>4 DEF JobSound, JobRecords
<1>6. /\ x.lastRunAt = disk[cur].lastRunAt /\ x.lastScheduledFor = disk[cur].lastScheduledFor
      /\ x.pendingRun = disk[cur].pendingRun /\ x.pendingNotification = "delivered"
    BY <1>2 DEF JobRecords
<1>7. QED BY <1>2, <1>3, <1>5, <1>6, SameRunOK

LEMMA SettleWrites ==
    ASSUME IInv, pc \in {"archive", "archiveUndelivered"}
    PROVE  LET x == Settled(mem[cur], pc = "archiveUndelivered")
           IN  FileOK(cur, x) /\ x.pendingRun # NoRun /\ x.pendingNotification = "none"
<1> DEFINE u == pc = "archiveUndelivered"
           x == Settled(mem[cur], u)
<1>1. pc \in Finalizing /\ pc \in Busy /\ ~Locked /\ u \in BOOLEAN /\ TypeOK
    BY DEF Busy, Finalizing, Locked, IInv
<1>2. /\ cur \in Jobs /\ cur \in DOMAIN disk /\ mem[cur] = disk[cur] /\ JobSound(cur, mem[cur])
    BY <1>1, BusyFacts
<1>3. mem[cur].pendingRun # NoRun
    BY <1>1, <1>2 DEF IInv, StepSound
<1>4. /\ JobSound(cur, x) /\ x.pendingRun # NoRun /\ x.pendingNotification = "none"
      /\ x.lastRunAt = disk[cur].lastRunAt /\ x.lastScheduledFor = disk[cur].lastScheduledFor
      /\ x.lastStatus = disk[cur].lastStatus
      /\ disk[cur].pendingNotification = "none" => x = disk[cur]
  <2> HIDE DEF u
  <2>1. /\ JobSound(cur, x) /\ x.pendingRun # NoRun /\ x.pendingNotification = "none"
        /\ x.lastRunAt = mem[cur].lastRunAt /\ x.lastScheduledFor = mem[cur].lastScheduledFor
        /\ x.lastStatus = mem[cur].lastStatus
        /\ mem[cur].pendingNotification = "none" => x = mem[cur]
    BY <1>1, <1>2, <1>3, SettledSound, Zenon
  <2>2. QED BY <1>2, <2>1, Zenon
<1>5. disk[cur].lastStatus # "running"
    BY <1>2, <1>3 DEF JobSound
<1>6. FileOK(cur, x)
    BY <1>2, <1>4, <1>5, SameRunOK
<1>7. QED BY <1>4, <1>6

LEMMA ClearWrites ==
    ASSUME IInv, NEW j \in DOMAIN disk, disk[j].pendingRun # NoRun, ~disk[j].done,
           disk[j].pendingNotification = "none"
    PROVE  LET x == [disk[j] EXCEPT !.pendingRun = NoRun] IN FileOK(j, x) /\ Idle(x)
<1> DEFINE x == [disk[j] EXCEPT !.pendingRun = NoRun]
<1>1. j \in Jobs /\ JobSound(j, disk[j])
    BY FilesAreOK DEF FileOK
<1>2. JobSound(j, x) /\ Idle(x)
    BY <1>1, ClearedSound
<1>3. /\ x.lastRunAt = disk[j].lastRunAt /\ x.lastScheduledFor = disk[j].lastScheduledFor
      /\ x.pendingNotification = "none" /\ x.pendingRun = NoRun
    BY <1>1 DEF JobSound, JobRecords
<1>4. QED BY <1>2, <1>3, SameRunOK DEF Idle

LEMMA InterruptWrites ==
    ASSUME IInv, NEW j \in DOMAIN disk, disk[j].lastStatus = "running"
    PROVE  FileOK(j, Interrupted(j))
<1>1. JobSound(j, disk[j]) /\ TypeOK
    BY FilesAreOK DEF FileOK, IInv
<1>2. QED BY <1>1, InterruptedSound, SameRunOK

-----------------------------------------------------------------------------
(* The archive grows by the record of a run whose notification is settled. *)
LEMMA StoreAppend ==
    ASSUME IInv, NEW j \in DOMAIN disk, disk[j].pendingRun # NoRun,
           disk[j].pendingNotification = "none", ~Conflicts(disk[j].pendingRun),
           archive' = archive \cup {disk[j].pendingRun}, UNCHANGED <<disk, started, issued, now>>
    PROVE  StoreSound'
<1>1. /\ JobSound(j, disk[j]) /\ j \in issued /\ disk[j].pendingRun.job = j
      /\ disk[j].pendingRun.startedAt = disk[j].lastRunAt /\ disk[j].lastStatus # "running"
    BY DEF IInv, StoreSound, JobSound, TypeOK, StoreTypeOK
<1>2. disk[j].pendingRun.startedAt <= disk[j].lastRunAt
    BY <1>1 DEF JobSound, JobRecords
<1>3. ASSUME NEW k \in DOMAIN disk PROVE ArchiveSound(k, disk[k])'
  <2>1. ArchiveSound(k, disk[k])
    BY DEF IInv, StoreSound
  <2>2. QED BY <1>1, <1>2, <2>1 DEF ArchiveSound
<1>4. /\ \A k \in DOMAIN disk : JobSound(k, disk[k])' /\ StartedSound(k, disk[k])'
      /\ \A r \in archive' : r.job \in issued'
    BY <1>1 DEF IInv, StoreSound, JobSound, StartedSound
<1>5. QED BY <1>3, <1>4 DEF IInv, StoreSound

LEMMA StoreCreate ==
    ASSUME IInv, NEW j \in Jobs, NEW s \in Schedules, NEW n \in BOOLEAN,
           NEW t \in 1 .. MaxTime, Create(j, s, n, t)
    PROVE  StoreSound'
<1> DEFINE x == NewJob(s, n, t)
<1>1. FileOK(j, x) /\ j \notin DOMAIN disk
    BY CreateWrites
<1>2. /\ disk' = Put(disk, j, x) /\ UNCHANGED <<archive, started, now>> /\ issued \subseteq issued'
      /\ Cardinality(DOMAIN mem) < MaxJobs /\ DOMAIN mem = DOMAIN disk
    BY DEF Create, HasCapacity, StoreJob, history, Callable, IInv, TableSound
<1> HIDE DEF x
<1>3. /\ DOMAIN disk' = DOMAIN disk \cup {j} /\ disk'[j] = x
      /\ \A k \in DOMAIN disk : disk'[k] = disk[k]
    BY <1>1, <1>2 DEF Put
<1>4. IsFiniteSet(DOMAIN disk') /\ Cardinality(DOMAIN disk') <= MaxJobs
  <2>1. IsFiniteSet(DOMAIN disk) /\ Cardinality(DOMAIN disk) \in Nat
    BY FS_CardinalityType DEF IInv, StoreSound
  <2>2. /\ IsFiniteSet(DOMAIN disk \cup {j})
        /\ Cardinality(DOMAIN disk \cup {j}) = Cardinality(DOMAIN disk) + 1
    BY <1>1, <2>1, FS_AddElement
  <2>3. QED BY <1>2, <1>3, <2>1, <2>2, BoundsAssumption
<1>5. ASSUME NEW k \in DOMAIN disk'
      PROVE  JobSound(k, disk[k])' /\ ArchiveSound(k, disk[k])' /\ StartedSound(k, disk[k])'
  <2>1. JobSound(k, disk'[k]) /\ ArchiveSound(k, disk'[k]) /\ StartedSound(k, disk'[k])
    BY <1>1, <1>3 DEF FileOK, IInv, StoreSound
  <2>2. QED BY <1>2, <2>1 DEF JobSound, ArchiveSound, StartedSound
<1>6. QED BY <1>2, <1>4, <1>5 DEF IInv, StoreSound

(* Handing the claimed run to the executor. *)
LEMMA StoreExecute ==
    ASSUME IInv, Execute
    PROVE  StoreSound' /\ OccurrencesAdvance'
<1> DEFINE e == [job |-> cur, startedAt |-> mem[cur].lastRunAt,
                 scheduledFor |-> mem[cur].lastScheduledFor]
<1>1. /\ started' = started \cup {e} /\ UNCHANGED <<disk, archive, issued, now>>
    BY DEF Execute
<1>2. /\ cur \in DOMAIN disk /\ cur \in issued /\ mem[cur] = disk[cur]
      /\ StartedSound(cur, disk[cur])
      /\ \A s \in started : s.job = cur => s.startedAt # disk[cur].lastRunAt
    BY BusyFacts DEF Execute, Busy, Locked, IInv, StoreSound, StepSound, TypeOK, StoreTypeOK
<1>3. ASSUME NEW k \in DOMAIN disk PROVE StartedSound(k, disk[k])'
  <2>1. StartedSound(k, disk[k])
    BY DEF IInv, StoreSound
  <2>2. QED BY <1>1, <1>2, <2>1 DEF StartedSound
<1>4. StoreSound'
    BY <1>1, <1>2, <1>3 DEF IInv, StoreSound, JobSound, ArchiveSound
<1>5. \A s \in started : s.job = cur =>
          s.startedAt < e.startedAt /\ s.scheduledFor < e.scheduledFor
    BY <1>2 DEF StartedSound
<1>6. OccurrencesAdvance'
    BY <1>1, <1>5 DEF IInv, OccurrencesAdvance
<1>7. QED BY <1>4, <1>6

LEMMA StoreRewrite ==
    ASSUME IInv, NEW j \in DOMAIN disk, NEW x, FileOK(j, x), StoreJob(j, x),
           UNCHANGED <<archive, started, now, issued>>
    PROVE  StoreSound'
BY StorePut DEF IInv, FileOK

LEMMA StoreCall == IInv /\ Call => StoreSound'
<1> SUFFICES ASSUME IInv, Call PROVE StoreSound'
    OBVIOUS
<1>1. PICK j \in Jobs :
          \/ \E s \in Schedules, n \in BOOLEAN, t \in 1 .. MaxTime : Create(j, s, n, t)
          \/ \E r \in BOOLEAN, s \in Schedules, m \in BOOLEAN, n \in BOOLEAN : Update(j, r, s, m, n)
          \/ Delete(j)
    BY DEF Call
<1>2. ASSUME NEW r \in BOOLEAN, NEW s \in Schedules, NEW m \in BOOLEAN, NEW n \in BOOLEAN,
             Update(j, r, s, m, n)
      PROVE  StoreSound'
  <2>1. PICK x : FileOK(j, x) /\ StoreJob(j, x) /\ j \in DOMAIN disk
    BY <1>2, UpdateWrites
  <2>2. UNCHANGED <<archive, started, now, issued>>
    BY <1>2 DEF Update, history
  <2>3. QED BY <2>1, <2>2, StoreRewrite
<1>3. ASSUME Delete(j) PROVE StoreSound'
  <2>1. DeleteJob(j) /\ UNCHANGED <<archive, started, now, issued>>
    BY <1>3 DEF Delete, history
  <2>2. QED BY <2>1, StoreDrop DEF IInv
<1>4. QED BY <1>1, <1>2, <1>3, StoreCreate

LEMMA StoreRunLoop == IInv /\ RunLoop => StoreSound'
<1> SUFFICES ASSUME IInv, RunLoop PROVE StoreSound'
    OBVIOUS
<1>1. StoreSound /\ now \in Nat
    BY DEF IInv, TypeOK, CountersTypeOK
<1>2. CASE ClaimNextDue
  <2>1. PICK j \in Due : StoreJob(j, Claimed(mem[j]))
    BY <1>2 DEF ClaimNextDue
  <2>2. pc = "loop" /\ UNCHANGED <<archive, started, now, issued>>
    BY <1>2 DEF ClaimNextDue, history
  <2>3. j \in DOMAIN disk /\ FileOK(j, Claimed(mem[j]))
    BY <2>2, ClaimWrites, DueFacts
  <2>4. QED BY <2>1, <2>2, <2>3, StoreRewrite
<1>3. CASE PersistCompletion
  <2> DEFINE x == Completed(mem[cur], run, ShouldNotify(mem[cur], run))
  <2>1. StoreJob(cur, x) /\ UNCHANGED <<archive, started, now, issued>> /\ pc \in Busy
    BY <1>3 DEF PersistCompletion, Busy
  <2>2. FileOK(cur, x) /\ cur \in DOMAIN disk
    BY <1>3, <2>1, PersistWrites, BusyFacts
  <2>3. QED BY <2>1, <2>2, StoreRewrite
<1>4. CASE MarkNotificationDelivered
  <2> DEFINE x == [mem[cur] EXCEPT !.pendingNotification = "delivered"]
  <2>1. pc = "marking" /\ UNCHANGED <<archive, started, now, issued>>
        /\ (StoreJob(cur, x) \/ UNCHANGED disk)
    BY <1>4 DEF MarkNotificationDelivered, history
  <2>2. FileOK(cur, x) /\ cur \in DOMAIN disk
    BY <2>1, MarkWrites, BusyFacts DEF Busy, Finalizing
  <2> HIDE DEF x
  <2>3. QED BY <1>1, <2>1, <2>2, StoreRewrite, StoreFrame
<1>5. CASE StoreNotificationResult
  <2> DEFINE x == Settled(mem[cur], pc = "archiveUndelivered")
  <2>1. /\ pc \in {"archive", "archiveUndelivered"} /\ StoreJob(cur, x)
        /\ UNCHANGED <<archive, started, now, issued>>
    BY <1>5 DEF StoreNotificationResult, history
  <2>2. FileOK(cur, x) /\ cur \in DOMAIN disk
    BY <2>1, SettleWrites, BusyFacts DEF Busy, Finalizing
  <2>3. QED BY <2>1, <2>2, StoreRewrite
<1>6. CASE AppendRunRecord
  <2>1. /\ cur \in DOMAIN disk /\ disk[cur].pendingRun # NoRun
        /\ disk[cur].pendingNotification = "none"
    BY <1>6, BusyFacts DEF AppendRunRecord, Busy, Finalizing, IInv, StepSound, Locked
  <2>2. UNCHANGED <<disk, started, issued, now>>
    BY <1>6 DEF AppendRunRecord, history
  <2>3. \/ UNCHANGED archive
        \/ /\ ~Conflicts(disk[cur].pendingRun)
           /\ archive' = archive \cup {disk[cur].pendingRun}
    BY <1>6 DEF AppendRunRecord
  <2>4. QED BY <1>1, <2>1, <2>2, <2>3, StoreAppend, StoreFrame
<1>7. CASE ClearPendingRun
  <2>1. /\ cur \in DOMAIN disk /\ disk[cur].pendingRun # NoRun
        /\ disk[cur].pendingNotification = "none"
    BY <1>7, BusyFacts DEF ClearPendingRun, Busy, Finalizing, IInv, StepSound, Locked
  <2>2. UNCHANGED <<archive, started, now, issued>>
    BY <1>7 DEF ClearPendingRun, history
  <2>3. \/ DeleteJob(cur)
        \/ ~disk[cur].done /\ StoreJob(cur, [disk[cur] EXCEPT !.pendingRun = NoRun])
    BY <1>7 DEF ClearPendingRun
  <2>4. QED BY <1>1, <2>1, <2>2, <2>3, StoreDrop, ClearWrites, StoreRewrite
<1>8. CASE UNCHANGED <<disk, archive, started, issued, now>>
    BY <1>1, <1>8, StoreFrame
<1>9. QED
    BY <1>2, <1>3, <1>4, <1>5, <1>6, <1>7, <1>8, StoreExecute
    DEF RunLoop, history, RunReturns, ResumePendingNotification, GoToSleep, WakeUp, TimerFires,
        ExecuteReturns, Publish, PublishTimesOut, PublishAnswered, RecordDelivered,
        RecordInterrupted, WriteRefused, FatalError

LEMMA StoreReconcile == IInv /\ Reconcile => StoreSound'
<1> SUFFICES ASSUME IInv, Reconcile PROVE StoreSound'
    OBVIOUS
<1>1. StoreSound /\ now \in Nat /\ todo \subseteq DOMAIN disk
    BY DEF IInv, TypeOK, CountersTypeOK, TableTypeOK
<1>2. ASSUME NEW j \in Jobs, BootInterrupt(j) PROVE StoreSound'
  <2>1. /\ j \in DOMAIN disk /\ disk[j].lastStatus = "running" /\ StoreJob(j, Interrupted(j))
        /\ UNCHANGED <<archive, started, now, issued>>
    BY <1>1, <1>2 DEF BootInterrupt, NextLoaded, history
  <2>2. QED BY <2>1, InterruptWrites, StoreRewrite
<1>3. ASSUME NEW j \in Jobs, BootAppend(j) PROVE StoreSound'
  <2>1. /\ j \in DOMAIN disk /\ disk[j].pendingRun # NoRun
        /\ disk[j].pendingNotification = "none" /\ UNCHANGED <<disk, started, issued, now>>
    BY <1>1, <1>3 DEF BootAppend, BootFinishing, NextLoaded, history
  <2>2. \/ UNCHANGED archive
        \/ ~Conflicts(disk[j].pendingRun) /\ archive' = archive \cup {disk[j].pendingRun}
    BY <1>3 DEF BootAppend
  <2>3. QED BY <1>1, <2>1, <2>2, StoreAppend, StoreFrame
<1>4. ASSUME NEW j \in Jobs, BootClear(j) PROVE StoreSound'
  <2>1. /\ j \in DOMAIN disk /\ disk[j].pendingRun # NoRun
        /\ disk[j].pendingNotification = "none" /\ UNCHANGED <<archive, started, issued, now>>
    BY <1>1, <1>4 DEF BootClear, BootFinishing, NextLoaded, history
  <2>2. \/ DeleteJob(j)
        \/ ~disk[j].done /\ StoreJob(j, [disk[j] EXCEPT !.pendingRun = NoRun])
    BY <1>4 DEF BootClear
  <2>3. QED BY <1>1, <2>1, <2>2, StoreDrop, ClearWrites, StoreRewrite
<1>5. CASE UNCHANGED <<disk, archive, started, issued, now>>
    BY <1>1, <1>5, StoreFrame
<1>6. QED BY <1>2, <1>3, <1>4, <1>5 DEF Reconcile, Boot, BootDone, BootKeep, history

LEMMA StoreStep == IInv /\ [Next]_vars => StoreSound'
<1> SUFFICES ASSUME IInv, [Next]_vars PROVE StoreSound'
    OBVIOUS
<1>1. StoreSound /\ now \in Nat
    BY DEF IInv, TypeOK, CountersTypeOK
<1>2. CASE OutboundWorker \/ Fault \/ Tick \/ UNCHANGED vars
  <2>1. UNCHANGED <<disk, archive, started, issued>> /\ (now' = now \/ now' = now + 1)
    BY <1>2 DEF OutboundWorker, Fault, OutboundTake, OutboundDeliver, Stop, PersistDeadline,
       WriteFails, FatalError, Exit, Crash, ProcessGone, Tick, history, vars
  <2>2. QED BY <1>1, <2>1, StoreFrame
<1>3. QED BY <1>2, StoreCall, StoreRunLoop, StoreReconcile DEF Next

-----------------------------------------------------------------------------
(* The types of the files, the archive and the transcript. *)
LEMMA StoreTypeStep == IInv /\ [Next]_vars => StoreTypeOK'
<1> SUFFICES ASSUME IInv, [Next]_vars PROVE StoreTypeOK'
    OBVIOUS
<1>1. StoreTypeOK /\ DOMAIN disk \subseteq issued
    BY DEF IInv, TypeOK, StoreTypeOK
<1>2. \A j \in DOMAIN disk' : disk'[j] \in JobRecords
    BY StoreStep DEF StoreSound, JobSound
<1>3. ASSUME DOMAIN disk' \subseteq DOMAIN disk, UNCHANGED <<issued, archive, transcript>>
      PROVE  StoreTypeOK'
    BY <1>1, <1>2, <1>3 DEF StoreTypeOK
<1>4. ASSUME NEW j \in DOMAIN disk, disk[j].pendingRun # NoRun,
             archive' = archive \cup {disk[j].pendingRun}, UNCHANGED <<disk, issued, transcript>>
      PROVE  StoreTypeOK'
  <2>1. disk[j].pendingRun \in RunRecords
    BY <1>1, <1>4 DEF StoreTypeOK, JobRecords
  <2>2. QED BY <1>1, <1>2, <1>4, <2>1 DEF StoreTypeOK
<1>5. CASE Call
  <2>1. PICK j \in Jobs :
            \/ \E s \in Schedules, n \in BOOLEAN, t \in 1 .. MaxTime : Create(j, s, n, t)
            \/ \E r \in BOOLEAN, s \in Schedules, m \in BOOLEAN, n \in BOOLEAN :
                   Update(j, r, s, m, n)
            \/ Delete(j)
    BY <1>5 DEF Call
  <2>2. ASSUME NEW s, NEW n, NEW t, Create(j, s, n, t) PROVE StoreTypeOK'
    <3>1. /\ DOMAIN disk' = DOMAIN disk \cup {j} /\ issued' = issued \cup {j}
          /\ UNCHANGED <<archive, transcript>>
      BY <2>2 DEF Create, StoreJob, Put
    <3>2. QED BY <1>1, <1>2, <3>1 DEF StoreTypeOK
  <2>3. ASSUME NEW r \in BOOLEAN, NEW s \in Schedules, NEW m \in BOOLEAN, NEW n \in BOOLEAN,
               Update(j, r, s, m, n)
        PROVE  StoreTypeOK'
    <3>1. PICK x : StoreJob(j, x) /\ j \in DOMAIN disk
      BY <2>3, UpdateWrites
    <3>2. UNCHANGED <<issued, archive, transcript>>
      BY <2>3 DEF Update
    <3>3. QED BY <1>3, <3>1, <3>2 DEF StoreJob, Put
  <2>4. ASSUME Delete(j) PROVE StoreTypeOK'
    BY <1>3, <2>4 DEF Delete, DeleteJob, Drop
  <2>5. QED BY <2>1, <2>2, <2>3, <2>4
<1>6. CASE ClaimNextDue
  <2>1. PICK j \in Due : StoreJob(j, Claimed(mem[j]))
    BY <1>6 DEF ClaimNextDue
  <2>2. pc = "loop" /\ UNCHANGED <<issued, archive, transcript>>
    BY <1>6 DEF ClaimNextDue
  <2>3. QED BY <1>3, <2>1, <2>2, DueFacts DEF StoreJob, Put
<1>7. CASE PersistCompletion \/ MarkNotificationDelivered \/ StoreNotificationResult \/ ClearPendingRun
  <2>1. cur \in DOMAIN disk
    BY <1>7, BusyFacts DEF PersistCompletion, MarkNotificationDelivered, StoreNotificationResult,
       ClearPendingRun, Busy, Finalizing
  <2>2. UNCHANGED <<issued, archive, transcript>>
    BY <1>7 DEF PersistCompletion, MarkNotificationDelivered, StoreNotificationResult,
       ClearPendingRun
  <2>3. UNCHANGED disk \/ DeleteJob(cur) \/ \E x : StoreJob(cur, x)
    BY <1>7 DEF PersistCompletion, MarkNotificationDelivered, StoreNotificationResult,
       ClearPendingRun
  <2>4. QED BY <1>3, <2>1, <2>2, <2>3 DEF StoreJob, Put, DeleteJob, Drop
<1>8. CASE RecordDelivered
  <2>1. RunID(mem[cur].pendingRun) \in RunIDs
    BY <1>8, MarkerFacts DEF RecordDelivered, Finalizing, Locked
  <2>2. UNCHANGED <<issued, archive, disk>> /\ transcript' = transcript \cup {RunID(mem[cur].pendingRun)}
    BY <1>8 DEF RecordDelivered
  <2>3. QED BY <1>1, <1>2, <2>1, <2>2 DEF StoreTypeOK
<1>9. CASE AppendRunRecord
  <2>1. cur \in DOMAIN disk /\ disk[cur].pendingRun # NoRun
    BY <1>9, BusyFacts DEF AppendRunRecord, Busy, Finalizing, IInv, StepSound
  <2>2. UNCHANGED <<disk, issued, transcript>>
        /\ (UNCHANGED archive \/ archive' = archive \cup {disk[cur].pendingRun})
    BY <1>9 DEF AppendRunRecord
  <2>3. QED BY <1>3, <1>4, <2>1, <2>2
<1>10. CASE UNCHANGED <<disk, issued, archive, transcript>>
    BY <1>3, <1>10
<1>11. CASE RunLoop
    BY <1>6, <1>7, <1>8, <1>9, <1>10, <1>11
    DEF RunLoop, RunReturns, ResumePendingNotification, GoToSleep, WakeUp, TimerFires, Execute,
        ExecuteReturns, Publish, PublishTimesOut, PublishAnswered, RecordInterrupted,
        WriteRefused, FatalError
<1>12. ASSUME NEW j \in Jobs, BootInterrupt(j) \/ BootAppend(j) \/ BootClear(j) PROVE StoreTypeOK'
  <2>1. j \in DOMAIN disk
    BY <1>12 DEF BootInterrupt, BootAppend, BootClear, BootFinishing, NextLoaded, IInv, TypeOK,
       TableTypeOK
  <2>2. CASE BootInterrupt(j) \/ BootClear(j)
    <3>1. UNCHANGED <<issued, archive, transcript>> /\ (DeleteJob(j) \/ \E x : StoreJob(j, x))
      BY <2>2 DEF BootInterrupt, BootClear
    <3>2. QED BY <1>3, <2>1, <3>1 DEF StoreJob, Put, DeleteJob, Drop
  <2>3. CASE BootAppend(j)
    <3>1. /\ disk[j].pendingRun # NoRun /\ UNCHANGED <<disk, issued, transcript>>
          /\ UNCHANGED archive \/ archive' = archive \cup {disk[j].pendingRun}
      BY <2>3 DEF BootAppend, BootFinishing
    <3>2. QED BY <1>3, <1>4, <2>1, <3>1
  <2>4. QED BY <1>12, <2>2, <2>3
<1>13. CASE Reconcile
    BY <1>10, <1>12, <1>13 DEF Reconcile, Boot, BootDone, BootKeep
<1>14. CASE OutboundWorker \/ Fault \/ Tick \/ UNCHANGED vars
    BY <1>10, <1>14 DEF OutboundWorker, Fault, OutboundTake, OutboundDeliver, Stop,
       PersistDeadline, WriteFails, FatalError, Exit, Crash, ProcessGone, Tick, vars
<1>15. QED BY <1>5, <1>11, <1>13, <1>14 DEF Next

(* Executions keep advancing. *)
LEMMA OccurrencesStep == IInv /\ [Next]_vars => OccurrencesAdvance'
<1> SUFFICES ASSUME IInv, [Next]_vars PROVE OccurrencesAdvance'
    OBVIOUS
<1>1. CASE UNCHANGED started
    BY <1>1 DEF IInv, OccurrencesAdvance
<1>2. CASE RunLoop
    BY <1>1, <1>2, StoreExecute
    DEF RunLoop, history, RunReturns, ResumePendingNotification, ClaimNextDue, GoToSleep, WakeUp,
        TimerFires, ExecuteReturns, PersistCompletion, Publish, PublishTimesOut, PublishAnswered,
        MarkNotificationDelivered, RecordDelivered, RecordInterrupted, StoreNotificationResult,
        AppendRunRecord, ClearPendingRun, WriteRefused, FatalError
<1>3. CASE Call
    BY <1>1, <1>3, CallFrame
<1>4. CASE OutboundWorker \/ Reconcile \/ Fault \/ Tick \/ UNCHANGED vars
    BY <1>1, <1>4 DEF OutboundWorker, Reconcile, Fault, OutboundTake, OutboundDeliver, Stop,
       PersistDeadline, WriteFails, FatalError, Exit, Crash, ProcessGone, Tick, vars, history,
       Boot, BootDone, BootKeep, BootInterrupt, BootAppend, BootClear
<1>5. QED BY <1>2, <1>3, <1>4 DEF Next

-----------------------------------------------------------------------------
(* The manager's table and the step the scheduler goroutine is in. *)
ManagerOK == TableTypeOK /\ TableSound /\ StepSound /\ NeverInconsistent

(* A sound file passes validateStoredJob and meets no other record of its  *)
(* run in the archive.                                                     *)
LEMMA SoundJobAccepted ==
    ASSUME IInv, NEW j \in DOMAIN disk
    PROVE  StoredJobOK(j)
<1>1. JobSound(j, disk[j])
    BY FilesAreOK DEF FileOK
<1>2. QED BY <1>1 DEF JobSound, JobRecords, Kinds, StoredJobOK

LEMMA NoConflict ==
    ASSUME IInv, NEW j \in DOMAIN disk, disk[j].pendingRun # NoRun
    PROVE  ~Conflicts(disk[j].pendingRun)
<1>1. JobSound(j, disk[j]) /\ ArchiveSound(j, disk[j])
    BY FilesAreOK DEF FileOK
<1>2. disk[j].pendingRun.job = j /\ disk[j].pendingRun.startedAt = disk[j].lastRunAt
    BY <1>1 DEF JobSound
<1>3. ASSUME NEW a \in archive, RunID(a) = RunID(disk[j].pendingRun) PROVE a = disk[j].pendingRun
    BY <1>1, <1>2, <1>3 DEF ArchiveSound, RunID
<1>4. QED BY <1>3 DEF Conflicts

(* Steps that leave the files, the table and the step alone. *)
LEMMA ManagerFrame ==
    ASSUME IInv, UNCHANGED <<disk, mem, running, todo, pc, cur, run, archive, started, issued>>,
           now' \in Nat, now' >= now
    PROVE  ManagerOK'
<1>1. now \in Nat
    BY DEF IInv, TypeOK, CountersTypeOK
<1>2. TableTypeOK' /\ TableSound' /\ NeverInconsistent'
    BY DEF IInv, TypeOK, TableTypeOK, TableSound, Locked, NeverInconsistent
<1>3. StepSound'
    BY <1>1 DEF IInv, StepSound, Locked, RunRecords
<1>4. QED BY <1>2, <1>3 DEF ManagerOK

(* The process stops serving: nothing is promised of the table. *)
LEMMA ManagerStops ==
    ASSUME IInv, pc' = "stopped", UNCHANGED <<disk, mem, running, todo, issued>>
    PROVE  ManagerOK'
BY DEF IInv, TypeOK, TableTypeOK, TableSound, StepSound, NeverInconsistent, ManagerOK, Serving, Busy,
       Finalizing, Locked

LEMMA ManagerGone ==
    ASSUME IInv, ProcessGone
    PROVE  ManagerOK'
<1>1. pc' = "down" /\ mem' = NoJobs /\ running' = {} /\ todo' = {} /\ UNCHANGED <<disk, issued>>
    BY DEF ProcessGone
<1>2. DOMAIN NoJobs = {}
    BY DEF NoJobs
<1>3. QED
    BY <1>1, <1>2 DEF TableTypeOK, TableSound, StepSound, NeverInconsistent, ManagerOK, Serving,
       Busy, Finalizing, Locked

(* The table and the files stay while the goroutine moves on, outside the  *)
(* locked steps.                                                           *)
LEMMA ManagerMoves ==
    ASSUME IInv, pc \in Serving, ~Locked, pc' \in Serving, ~Locked',
           UNCHANGED <<disk, mem, running, todo, issued>>
    PROVE  TableTypeOK' /\ TableSound' /\ NeverInconsistent'
BY DEF IInv, TypeOK, TableTypeOK, TableSound, NeverInconsistent, Serving, Busy, Finalizing, Locked

(* The loop, the timer and the wake token. *)
LEMMA ManagerIdles ==
    ASSUME IInv, RunReturns \/ GoToSleep \/ WakeUp \/ TimerFires
    PROVE  ManagerOK'
<1>1. /\ pc \in {"loop", "sleep"} /\ pc' \in {"loop", "sleep", "stopped"}
      /\ UNCHANGED <<disk, mem, running, todo, issued>>
    BY DEF RunReturns, GoToSleep, WakeUp, TimerFires
<1>2. CASE pc' = "stopped"
    BY <1>1, <1>2, ManagerStops
<1>3. CASE pc' \in {"loop", "sleep"}
  <2>1. pc \in Serving /\ pc' \in Serving /\ ~Locked /\ ~Locked'
    BY <1>1, <1>3 DEF Serving, Locked
  <2>2. TableTypeOK' /\ TableSound' /\ NeverInconsistent'
    BY <1>1, <2>1, ManagerMoves
  <2>3. StepSound'
    BY <1>3 DEF StepSound, Busy, Finalizing, Locked
  <2>4. QED BY <2>2, <2>3 DEF ManagerOK
<1>4. QED BY <1>1, <1>2, <1>3

(* finalizePendingRun begins on a job of the table. *)
LEMMA FinalizeBegins ==
    ASSUME NEW x \in JobRecords, x.pendingNotification # "none" => x.pendingRun # NoRun
    PROVE  /\ FinalizeStep(x) \in {"publishing", "recording", "archive"}
           /\ FinalizeStep(x) \in {"publishing", "recording"} => x.pendingNotification # "none"
BY DEF FinalizeStep, JobRecords, Intents

LEMMA ManagerResumes == IInv /\ ResumePendingNotification => ManagerOK'
<1> SUFFICES ASSUME IInv, ResumePendingNotification PROVE ManagerOK'
    OBVIOUS
<1>1. /\ pc = "loop" /\ UNCHANGED <<disk, mem, running, todo, issued>>
    BY DEF ResumePendingNotification
<1>2. PICK j \in PendingNotifications : cur' = j /\ pc' = FinalizeStep(mem[j])
    BY DEF ResumePendingNotification
<1>3. /\ j \in DOMAIN mem /\ mem[j].pendingRun # NoRun /\ mem[j].pendingNotification # "none"
      /\ j \in DOMAIN disk /\ mem[j] = disk[j] /\ j \in running /\ mem[j] \in JobRecords
    BY <1>1 DEF PendingNotifications, IInv, TableSound, Serving, Idle, Locked, TypeOK, TableTypeOK
<1>4. pc' \in {"publishing", "recording", "archive"}
    BY <1>2, <1>3, FinalizeBegins
<1>5. pc \in Serving /\ pc' \in Serving /\ ~Locked /\ ~Locked'
    BY <1>1, <1>4 DEF Serving, Busy, Finalizing, Locked
<1>6. TableTypeOK' /\ TableSound' /\ NeverInconsistent'
    BY <1>1, <1>5, ManagerMoves
<1>7. StepSound'
    BY <1>1, <1>2, <1>3, <1>4, <1>5 DEF StepSound, Busy, Finalizing
<1>8. QED BY <1>6, <1>7 DEF ManagerOK

LEMMA ManagerFinalizes ==
    ASSUME IInv, Publish \/ PublishTimesOut \/ PublishAnswered \/ RecordDelivered \/ RecordInterrupted
    PROVE  ManagerOK'
<1>1. /\ pc \in {"publishing", "awaiting", "recording"}
      /\ \/ pc' \in {"awaiting", "archiveUndelivered", "marking", "archive"} /\ cur' = cur
         \/ pc' = "loop"
      /\ UNCHANGED <<disk, mem, running, todo, issued>>
    BY DEF Publish, PublishTimesOut, PublishAnswered, RecordDelivered, RecordInterrupted,
       DeliveryFailed, local
<1>2. pc \in Serving /\ pc' \in Serving /\ ~Locked /\ ~Locked' /\ pc \in Busy
    BY <1>1 DEF Serving, Busy, Finalizing, Locked
<1>3. TableTypeOK' /\ TableSound' /\ NeverInconsistent'
    BY <1>1, <1>2, ManagerMoves
<1>4. /\ cur \in running /\ cur \in DOMAIN disk /\ disk[cur].pendingRun # NoRun
      /\ disk[cur].pendingNotification # "none"
    BY <1>1, <1>2 DEF IInv, StepSound, Finalizing
<1>5. StepSound'
    BY <1>1, <1>2, <1>4 DEF StepSound, Busy, Finalizing
<1>6. QED BY <1>3, <1>5 DEF ManagerOK

LEMMA ManagerExecutes ==
    ASSUME IInv, Execute \/ \E o \in Outcomes : ExecuteReturns(o)
    PROVE  ManagerOK'
<1>1. /\ pc \in {"claimed", "executing"} /\ pc' \in {"executing", "executed"}
      /\ UNCHANGED <<disk, mem, running, todo, issued, cur, now>>
    BY DEF Execute, ExecuteReturns, local
<1>2. pc \in Serving /\ pc' \in Serving /\ ~Locked /\ ~Locked' /\ pc \in Busy
    BY <1>1 DEF Serving, Busy, Finalizing, Locked
<1>3. TableTypeOK' /\ TableSound' /\ NeverInconsistent'
    BY <1>1, <1>2, ManagerMoves
<1>4. /\ cur \in running /\ cur \in DOMAIN disk /\ disk[cur].lastStatus = "running"
      /\ mem[cur] = disk[cur] /\ disk[cur].lastRunAt \in Nat /\ disk[cur].lastRunAt <= now
    BY <1>1, <1>2, BusyFacts DEF IInv, StepSound, JobSound, JobRecords
<1>5. CASE Execute
  <2>1. pc' = "executing"
    BY <1>5 DEF Execute
  <2>2. StepSound'
    BY <1>1, <1>2, <1>4, <2>1 DEF StepSound, Busy, Finalizing
  <2>3. QED BY <1>3, <2>2 DEF ManagerOK
<1>6. ASSUME NEW o \in Outcomes, ExecuteReturns(o) PROVE ManagerOK'
  <2>1. /\ pc' = "executed" /\ run'.job = cur /\ run'.startedAt = mem[cur].lastRunAt
        /\ run'.finishedAt = now
    BY <1>6 DEF ExecuteReturns
  <2>2. run' \in RunRecords /\ now \in Nat
    BY <1>6, ReturnedRun DEF IInv, TypeOK, CountersTypeOK
  <2>3. StepSound'
    BY <1>1, <1>2, <1>4, <2>1, <2>2 DEF StepSound, Busy, Finalizing
  <2>4. QED BY <1>3, <2>3 DEF ManagerOK
<1>7. QED BY <1>5, <1>6

(* Writing file and table entry together, outside the locked steps. *)
LEMMA ManagerWrites ==
    ASSUME IInv, pc \in Serving, ~Locked, pc' \in Serving, ~Locked',
           NEW j \in DOMAIN disk, NEW x \in JobRecords, StoreJob(j, x), mem' = Put(mem, j, x),
           UNCHANGED <<todo, issued>>, running' = running \/ running' = running \cup {j},
           j \in running' \/ Idle(x)
    PROVE  /\ TableTypeOK' /\ TableSound' /\ NeverInconsistent'
           /\ DOMAIN disk' = DOMAIN disk /\ disk'[j] = x
           /\ \A k \in DOMAIN disk : k # j => disk'[k] = disk[k]
<1>1. /\ DOMAIN mem = DOMAIN disk /\ todo = {} /\ running \subseteq DOMAIN mem
      /\ DOMAIN mem \subseteq issued
      /\ \A k \in DOMAIN mem : mem[k] = disk[k] /\ mem[k] \in JobRecords
      /\ \A k \in DOMAIN mem : k \notin running => Idle(mem[k])
    BY DEF IInv, TableSound, TypeOK, TableTypeOK
<1>2. /\ DOMAIN disk' = DOMAIN disk /\ disk'[j] = x
      /\ \A k \in DOMAIN disk : k # j => disk'[k] = disk[k]
    BY DEF StoreJob, Put
<1>3. /\ DOMAIN mem' = DOMAIN disk /\ mem'[j] = x
      /\ \A k \in DOMAIN disk : k # j => mem'[k] = mem[k]
    BY <1>1 DEF Put
<1>4. TableTypeOK'
    BY <1>1, <1>2, <1>3 DEF TableTypeOK
<1>5. TableSound'
    BY <1>1, <1>2, <1>3 DEF TableSound, Serving, Busy, Finalizing
<1>6. NeverInconsistent'
    BY DEF NeverInconsistent, Serving, Busy, Finalizing
<1>7. QED BY <1>2, <1>4, <1>5, <1>6

LEMMA ManagerClaims == IInv /\ ClaimNextDue => ManagerOK'
<1> SUFFICES ASSUME IInv, ClaimNextDue PROVE ManagerOK'
    OBVIOUS
<1>1. PICK j \in Due : /\ StoreJob(j, Claimed(mem[j])) /\ mem' = Put(mem, j, Claimed(mem[j]))
                       /\ running' = running \cup {j} /\ cur' = j
    BY DEF ClaimNextDue
<1>2. pc = "loop" /\ pc' = "claimed" /\ UNCHANGED <<todo, issued, started, now>>
    BY DEF ClaimNextDue, history
<1> DEFINE x == Claimed(mem[j])
<1>3. /\ FileOK(j, x) /\ x.lastStatus = "running" /\ j \in DOMAIN disk
      /\ \A s \in started : s.job = j => s.startedAt # x.lastRunAt
    BY <1>2, ClaimWrites, DueFacts
<1>4. x \in JobRecords
    BY <1>3 DEF FileOK, JobSound
<1> HIDE DEF x
<1>5. pc \in Serving /\ pc' \in Serving /\ ~Locked /\ ~Locked' /\ j \in running'
    BY <1>1, <1>2 DEF Serving, Busy, Locked
<1>6. /\ TableTypeOK' /\ TableSound' /\ NeverInconsistent'
      /\ DOMAIN disk' = DOMAIN disk /\ disk'[j] = x
    BY <1>1, <1>2, <1>3, <1>4, <1>5, ManagerWrites DEF x
<1>7. StepSound'
    BY <1>1, <1>2, <1>3, <1>5, <1>6 DEF StepSound, Busy, Finalizing
<1>8. QED BY <1>6, <1>7 DEF ManagerOK

LEMMA ManagerPersists == IInv /\ PersistCompletion => ManagerOK'
<1> SUFFICES ASSUME IInv, PersistCompletion PROVE ManagerOK'
    OBVIOUS
<1> DEFINE x == Completed(mem[cur], run, ShouldNotify(mem[cur], run))
<1>1. /\ pc = "executed" /\ StoreJob(cur, x) /\ mem' = Put(mem, cur, x) /\ pc' = FinalizeStep(x)
      /\ UNCHANGED <<running, todo, issued, cur>>
    BY DEF PersistCompletion
<1>2. FileOK(cur, x) /\ x.pendingRun # NoRun
    BY PersistWrites
<1>3. x \in JobRecords
    BY <1>2 DEF FileOK, JobSound
<1>4. cur \in running /\ cur \in DOMAIN disk
    BY <1>1, BusyFacts DEF Busy
<1> HIDE DEF x
<1>5. /\ pc' \in {"publishing", "recording", "archive"}
      /\ pc' \in {"publishing", "recording"} => x.pendingNotification # "none"
    BY <1>1, <1>2, <1>3, FinalizeBegins
<1>6. pc \in Serving /\ pc' \in Serving /\ ~Locked /\ ~Locked'
    BY <1>1, <1>5 DEF Serving, Busy, Finalizing, Locked
<1>7. /\ TableTypeOK' /\ TableSound' /\ NeverInconsistent'
      /\ DOMAIN disk' = DOMAIN disk /\ disk'[cur] = x
    BY <1>1, <1>3, <1>4, <1>6, ManagerWrites
<1>8. StepSound'
    BY <1>1, <1>2, <1>4, <1>5, <1>6, <1>7 DEF StepSound, Busy, Finalizing
<1>9. QED BY <1>7, <1>8 DEF ManagerOK

LEMMA ManagerMarks == IInv /\ MarkNotificationDelivered => ManagerOK'
<1> SUFFICES ASSUME IInv, MarkNotificationDelivered PROVE ManagerOK'
    OBVIOUS
<1> DEFINE x == [mem[cur] EXCEPT !.pendingNotification = "delivered"]
<1>1. pc = "marking"
    BY DEF MarkNotificationDelivered
<1>2. /\ FileOK(cur, x) /\ x.pendingRun = disk[cur].pendingRun
      /\ x.pendingNotification = "delivered"
    BY <1>1, MarkWrites
<1>3. /\ cur \in running /\ cur \in DOMAIN disk /\ cur \in DOMAIN mem /\ mem[cur] = disk[cur]
      /\ disk[cur].pendingRun # NoRun /\ disk[cur].pendingNotification # "none"
    BY <1>1, BusyFacts DEF Busy, Finalizing, Locked, IInv, StepSound
<1>4. HasIntent(cur)
    BY <1>3 DEF HasIntent
<1>5. /\ StoreJob(cur, x) /\ mem' = Put(mem, cur, x) /\ pc' = "recording"
      /\ UNCHANGED <<running, todo, issued, cur>>
    BY <1>4 DEF MarkNotificationDelivered, local
<1>6. x \in JobRecords
    BY <1>2 DEF FileOK, JobSound
<1> HIDE DEF x
<1>7. pc \in Serving /\ pc' \in Serving /\ ~Locked /\ ~Locked'
    BY <1>1, <1>5 DEF Serving, Busy, Finalizing, Locked
<1>8. /\ TableTypeOK' /\ TableSound' /\ NeverInconsistent'
      /\ DOMAIN disk' = DOMAIN disk /\ disk'[cur] = x
    BY <1>3, <1>5, <1>6, <1>7, ManagerWrites
<1>9. StepSound'
    BY <1>2, <1>3, <1>5, <1>7, <1>8 DEF StepSound, Busy, Finalizing
<1>10. QED BY <1>8, <1>9 DEF ManagerOK

(* finishPendingRun, under the lock: the file runs ahead of the table. *)
LEMMA ManagerStoresResult == IInv /\ StoreNotificationResult => ManagerOK'
<1> SUFFICES ASSUME IInv, StoreNotificationResult PROVE ManagerOK'
    OBVIOUS
<1> DEFINE x == Settled(mem[cur], pc = "archiveUndelivered")
<1>1. /\ pc \in {"archive", "archiveUndelivered"} /\ StoreJob(cur, x) /\ pc' = "append"
      /\ UNCHANGED <<mem, running, todo, issued, cur>>
    BY DEF StoreNotificationResult, local
<1>2. x.pendingRun # NoRun /\ x.pendingNotification = "none"
    BY <1>1, SettleWrites
<1>3. cur \in running /\ cur \in DOMAIN disk
    BY <1>1, BusyFacts DEF Busy, Finalizing
<1> HIDE DEF x
<1>4. /\ DOMAIN disk' = DOMAIN disk /\ disk'[cur] = x
      /\ \A k \in DOMAIN disk : k # cur => disk'[k] = disk[k]
    BY <1>1, <1>3 DEF StoreJob, Put
<1>5. pc \in Serving /\ ~Locked /\ Locked' /\ pc' \in Serving
    BY <1>1 DEF Serving, Busy, Finalizing, Locked
<1>6. TableTypeOK' /\ NeverInconsistent'
    BY <1>1, <1>4 DEF IInv, TypeOK, TableTypeOK, NeverInconsistent
<1>7. TableSound'
    BY <1>1, <1>3, <1>4, <1>5 DEF IInv, TableSound, Serving, Busy, Finalizing
<1>8. StepSound'
    BY <1>1, <1>2, <1>3, <1>4 DEF StepSound, Busy, Finalizing, Locked
<1>9. QED BY <1>6, <1>7, <1>8 DEF ManagerOK

LEMMA ManagerAppends == IInv /\ AppendRunRecord => ManagerOK'
<1> SUFFICES ASSUME IInv, AppendRunRecord PROVE ManagerOK'
    OBVIOUS
<1>1. /\ cur \in running /\ cur \in DOMAIN disk /\ disk[cur].pendingRun # NoRun
      /\ disk[cur].pendingNotification = "none" /\ pc = "append"
    BY BusyFacts DEF AppendRunRecord, Busy, Finalizing, IInv, StepSound, Locked
<1>2. ~Conflicts(disk[cur].pendingRun)
    BY <1>1, NoConflict
<1>3. /\ pc' = "clear" /\ archive' = archive \cup {disk[cur].pendingRun}
      /\ UNCHANGED <<disk, mem, running, todo, issued, cur>>
    BY <1>2 DEF AppendRunRecord, local
<1>4. TableTypeOK' /\ NeverInconsistent'
    BY <1>3 DEF IInv, TypeOK, TableTypeOK, NeverInconsistent
<1>5. TableSound'
    BY <1>1, <1>3 DEF IInv, TableSound, Serving, Busy, Finalizing, Locked
<1>6. StepSound'
    BY <1>1, <1>3 DEF StepSound, Busy, Finalizing, Locked
<1>7. QED BY <1>4, <1>5, <1>6 DEF ManagerOK

LEMMA ManagerClears == IInv /\ ClearPendingRun => ManagerOK'
<1> SUFFICES ASSUME IInv, ClearPendingRun PROVE ManagerOK'
    OBVIOUS
<1>1. /\ pc = "clear" /\ pc' = "loop" /\ running' = running \ {cur} /\ UNCHANGED <<todo, issued>>
    BY DEF ClearPendingRun
<1>2. /\ cur \in running /\ cur \in DOMAIN disk /\ disk[cur].pendingRun # NoRun
      /\ disk[cur].pendingNotification = "none" /\ DOMAIN mem = DOMAIN disk
      /\ todo = {} /\ running \subseteq DOMAIN mem /\ DOMAIN mem \subseteq issued
      /\ \A k \in DOMAIN mem : k # cur => mem[k] = disk[k]
      /\ \A k \in DOMAIN mem : mem[k] \in JobRecords
      /\ \A k \in DOMAIN mem : k \notin running => Idle(mem[k])
    BY <1>1, BusyFacts DEF Busy, Finalizing, Serving, IInv, StepSound, TableSound, TypeOK, TableTypeOK,
       Locked
<1>3. NeverInconsistent' /\ StepSound'
    BY <1>1 DEF NeverInconsistent, StepSound, Busy, Finalizing, Locked
<1>4. CASE DeleteJob(cur) /\ mem' = Drop(mem, cur)
  <2>1. /\ DOMAIN disk' = DOMAIN disk \ {cur} /\ DOMAIN mem' = DOMAIN disk \ {cur}
        /\ \A k \in DOMAIN disk \ {cur} : disk'[k] = disk[k] /\ mem'[k] = mem[k]
    BY <1>2, <1>4 DEF DeleteJob, Drop
  <2>2. TableTypeOK'
    BY <1>1, <1>2, <2>1 DEF TableTypeOK
  <2>3. TableSound'
    BY <1>1, <1>2, <2>1 DEF TableSound, Serving
  <2>4. QED BY <1>3, <2>2, <2>3 DEF ManagerOK
<1> DEFINE x == [disk[cur] EXCEPT !.pendingRun = NoRun]
<1>5. CASE ~disk[cur].done /\ StoreJob(cur, x) /\ mem' = Put(mem, cur, x)
  <2>1. FileOK(cur, x) /\ Idle(x)
    BY <1>2, <1>5, ClearWrites
  <2>2. x \in JobRecords
    BY <2>1 DEF FileOK, JobSound
  <2> HIDE DEF x
  <2>3. /\ DOMAIN disk' = DOMAIN disk /\ DOMAIN mem' = DOMAIN disk
        /\ disk'[cur] = x /\ mem'[cur] = x
        /\ \A k \in DOMAIN disk : k # cur => disk'[k] = disk[k] /\ mem'[k] = mem[k]
    BY <1>2, <1>5 DEF StoreJob, Put
  <2>4. TableTypeOK'
    BY <1>1, <1>2, <2>2, <2>3 DEF TableTypeOK
  <2>5. TableSound'
    BY <1>1, <1>2, <2>1, <2>3 DEF TableSound, Serving
  <2>6. QED BY <1>3, <2>4, <2>5 DEF ManagerOK
<1>6. QED BY <1>4, <1>5 DEF ClearPendingRun

(* API calls leave the job the goroutine works on alone. *)
LEMMA StepKept ==
    ASSUME IInv, ~Locked, UNCHANGED <<running, pc, cur, run, archive, started, now>>,
           pc \in Busy => cur \in DOMAIN disk' /\ disk'[cur] = disk[cur]
    PROVE  StepSound'
BY DEF IInv, StepSound, Busy, Finalizing, Locked

LEMMA ManagerCreates ==
    ASSUME IInv, NEW j \in Jobs, NEW s \in Schedules, NEW n \in BOOLEAN,
           NEW t \in 1 .. MaxTime, Create(j, s, n, t)
    PROVE  ManagerOK'
<1> DEFINE x == NewJob(s, n, t)
<1>1. /\ pc \in Serving /\ ~Locked /\ disk' = Put(disk, j, x) /\ mem' = Put(mem, j, x)
      /\ issued' = issued \cup {j} /\ UNCHANGED <<running, pc, cur, run, archive, started, now, todo>>
    BY DEF Create, Callable, StoreJob, local, history
<1>2. FileOK(j, x) /\ j \notin DOMAIN disk
    BY CreateWrites
<1>3. x \in JobRecords /\ Idle(x)
    BY <1>2, NewJobSound DEF FileOK, JobSound, IInv, Create
<1> HIDE DEF x
<1>4. /\ DOMAIN mem = DOMAIN disk /\ todo = {} /\ running \subseteq DOMAIN mem
      /\ DOMAIN mem \subseteq issued
      /\ \A k \in DOMAIN mem : mem[k] = disk[k] /\ mem[k] \in JobRecords
      /\ \A k \in DOMAIN mem : k \notin running => Idle(mem[k])
    BY <1>1 DEF IInv, TableSound, TypeOK, TableTypeOK
<1>5. /\ DOMAIN disk' = DOMAIN disk \cup {j} /\ DOMAIN mem' = DOMAIN disk \cup {j}
      /\ disk'[j] = x /\ mem'[j] = x
      /\ \A k \in DOMAIN disk : disk'[k] = disk[k] /\ mem'[k] = mem[k]
    BY <1>1, <1>2, <1>4 DEF Put
<1>6. TableTypeOK'
    BY <1>1, <1>3, <1>4, <1>5 DEF TableTypeOK
<1>7. TableSound'
    BY <1>1, <1>3, <1>4, <1>5 DEF TableSound, Serving, Busy, Finalizing
<1>8. StepSound'
    BY <1>1, <1>5, StepKept, BusyFacts
<1>9. NeverInconsistent'
    BY <1>1 DEF IInv, NeverInconsistent
<1>10. QED BY <1>6, <1>7, <1>8, <1>9 DEF ManagerOK

LEMMA ManagerUpdates ==
    ASSUME IInv, NEW j \in Jobs, NEW r \in BOOLEAN, NEW s \in Schedules, NEW m \in BOOLEAN,
           NEW n \in BOOLEAN, Update(j, r, s, m, n)
    PROVE  ManagerOK'
<1>1. PICK x : /\ FileOK(j, x) /\ Idle(x) /\ StoreJob(j, x) /\ mem' = Put(mem, j, x)
               /\ j \in DOMAIN disk /\ j \in DOMAIN mem /\ j \notin running
    BY UpdateWrites
<1>2. /\ pc \in Serving /\ ~Locked
      /\ UNCHANGED <<running, pc, cur, run, archive, started, now, todo, issued>>
    BY DEF Update, Callable, local, history
<1>3. x \in JobRecords
    BY <1>1 DEF FileOK, JobSound
<1>4. ~Locked'
    BY <1>2 DEF Locked
<1>5. /\ TableTypeOK' /\ TableSound' /\ NeverInconsistent' /\ DOMAIN disk' = DOMAIN disk
      /\ \A k \in DOMAIN disk : k # j => disk'[k] = disk[k]
    BY <1>1, <1>2, <1>3, <1>4, ManagerWrites
<1>6. StepSound'
    BY <1>1, <1>2, <1>5, StepKept, BusyFacts
<1>7. QED BY <1>5, <1>6 DEF ManagerOK

LEMMA ManagerDeletes ==
    ASSUME IInv, NEW j \in Jobs, Delete(j)
    PROVE  ManagerOK'
<1>1. /\ pc \in Serving /\ ~Locked /\ disk' = Drop(disk, j) /\ mem' = Drop(mem, j)
      /\ j \in DOMAIN mem /\ j \notin running
      /\ UNCHANGED <<running, pc, cur, run, archive, started, now, todo, issued>>
    BY DEF Delete, Callable, Mutable, DeleteJob, local, history
<1>2. /\ DOMAIN mem = DOMAIN disk /\ todo = {} /\ running \subseteq DOMAIN mem
      /\ DOMAIN mem \subseteq issued
      /\ \A k \in DOMAIN mem : mem[k] = disk[k] /\ mem[k] \in JobRecords
      /\ \A k \in DOMAIN mem : k \notin running => Idle(mem[k])
    BY <1>1 DEF IInv, TableSound, TypeOK, TableTypeOK
<1>3. /\ DOMAIN disk' = DOMAIN disk \ {j} /\ DOMAIN mem' = DOMAIN disk \ {j}
      /\ \A k \in DOMAIN disk \ {j} : disk'[k] = disk[k] /\ mem'[k] = mem[k]
    BY <1>1, <1>2 DEF Drop
<1>4. TableTypeOK'
    BY <1>1, <1>2, <1>3 DEF TableTypeOK
<1>5. TableSound'
    BY <1>1, <1>2, <1>3 DEF TableSound, Serving, Busy, Finalizing
<1>6. StepSound'
    BY <1>1, <1>3, StepKept, BusyFacts
<1>7. NeverInconsistent'
    BY <1>1 DEF IInv, NeverInconsistent
<1>8. QED BY <1>4, <1>5, <1>6, <1>7 DEF ManagerOK

LEMMA ManagerCalled == IInv /\ Call => ManagerOK'
BY ManagerCreates, ManagerUpdates, ManagerDeletes DEF Call

-----------------------------------------------------------------------------
(* NewManager, one loaded job at a time. *)
LEMMA BootTable ==
    ASSUME IInv, pc = "boot"
    PROVE  /\ DOMAIN mem = DOMAIN disk \ todo /\ todo \subseteq DOMAIN disk
           /\ running \subseteq DOMAIN mem /\ DOMAIN mem \subseteq issued
           /\ \A k \in DOMAIN mem : mem[k] = disk[k] /\ mem[k] \in JobRecords
           /\ \A k \in DOMAIN mem : k \notin running => Idle(mem[k])
BY DEF IInv, TableSound, TypeOK, TableTypeOK, Locked

LEMMA BootAccepts ==
    ASSUME IInv, NEW j \in todo, BootReject(j)
    PROVE  pc' = pc
<1>1. j \in DOMAIN disk
    BY DEF IInv, TypeOK, TableTypeOK
<1>2. QED BY <1>1, SoundJobAccepted DEF BootReject

LEMMA ManagerBoots == IInv /\ (Boot \/ BootDone) => ManagerOK'
<1> SUFFICES ASSUME IInv, Boot \/ BootDone PROVE ManagerOK'
    OBVIOUS
<1>1. CASE Boot
  <2>1. /\ pc = "down" /\ pc' = "boot" /\ todo' = DOMAIN disk
        /\ UNCHANGED <<disk, mem, running, issued>> /\ DOMAIN mem = {}
    BY <1>1 DEF Boot, IInv, TableSound
  <2>2. QED BY <2>1 DEF IInv, TypeOK, TableTypeOK, TableSound, StepSound, NeverInconsistent,
           ManagerOK, Serving, Busy, Finalizing, Locked
<1>2. CASE BootDone
  <2>1. pc = "boot" /\ todo = {} /\ UNCHANGED <<disk, mem, running, todo, issued>>
    BY <1>2 DEF BootDone
  <2>2. DOMAIN mem = DOMAIN disk
    BY <2>1, BootTable
  <2>3. Cardinality(DOMAIN mem) \in Nat /\ Cardinality(DOMAIN mem) <= MaxJobs
    BY <2>2, FS_CardinalityType DEF IInv, StoreSound
  <2>4. pc' = "loop"
    BY <1>2, <2>3, BoundsAssumption DEF BootDone
  <2>5. TableTypeOK' /\ NeverInconsistent' /\ StepSound'
    BY <2>1, <2>4 DEF IInv, TypeOK, TableTypeOK, NeverInconsistent, StepSound, Busy, Finalizing, Locked
  <2>6. TableSound'
    BY <2>1, <2>2, <2>4, BootTable DEF TableSound, Serving
  <2>7. QED BY <2>5, <2>6 DEF ManagerOK
<1>3. QED BY <1>1, <1>2

LEMMA ManagerReconciles ==
    ASSUME IInv, NEW j \in Jobs, BootKeep(j) \/ BootInterrupt(j) \/ BootAppend(j) \/ BootClear(j)
    PROVE  ManagerOK'
<1>1. pc = "boot" /\ j \in todo /\ UNCHANGED issued
    BY DEF BootKeep, BootInterrupt, BootAppend, BootClear, BootFinishing, NextLoaded
<1>2. /\ DOMAIN mem = DOMAIN disk \ todo /\ todo \subseteq DOMAIN disk
      /\ running \subseteq DOMAIN mem /\ DOMAIN mem \subseteq issued /\ DOMAIN disk \subseteq issued
      /\ \A k \in DOMAIN mem : mem[k] = disk[k] /\ mem[k] \in JobRecords
      /\ \A k \in DOMAIN mem : k \notin running => Idle(mem[k])
      /\ j \in DOMAIN disk /\ disk[j] \in JobRecords
    BY <1>1, BootTable DEF IInv, TypeOK, StoreTypeOK
<1>3. ASSUME pc' = "boot" PROVE StepSound' /\ NeverInconsistent'
    BY <1>3 DEF StepSound, NeverInconsistent, Busy, Finalizing, Locked
<1>4. CASE BootKeep(j)
  <2>1. /\ pc' = "boot" /\ todo' = todo \ {j} /\ mem' = Put(mem, j, disk[j]) /\ UNCHANGED disk
    BY <1>1, <1>4, BootAccepts DEF BootKeep
  <2>2. /\ running' = running \cup {j} \/ (running' = running /\ Idle(disk[j]))
    BY <1>4 DEF BootKeep, Idle
  <2>3. /\ DOMAIN mem' = DOMAIN mem \cup {j} /\ mem'[j] = disk[j]
        /\ \A k \in DOMAIN mem : k # j => mem'[k] = mem[k]
    BY <2>1 DEF Put
  <2>4. TableTypeOK'
    BY <1>1, <1>2, <2>1, <2>2, <2>3 DEF TableTypeOK
  <2>5. TableSound'
    BY <1>1, <1>2, <2>1, <2>2, <2>3 DEF TableSound, Serving, Busy, Finalizing
  <2>6. QED BY <1>3, <2>1, <2>4, <2>5 DEF ManagerOK
<1>5. CASE BootInterrupt(j)
  <2>1. /\ pc' = "boot" /\ UNCHANGED <<mem, running, todo>> /\ disk' = Put(disk, j, Interrupted(j))
    BY <1>1, <1>5, BootAccepts DEF BootInterrupt, StoreJob
  <2>2. /\ DOMAIN disk' = DOMAIN disk
        /\ \A k \in DOMAIN disk : k # j => disk'[k] = disk[k]
    BY <1>2, <2>1 DEF Put
  <2>3. TableTypeOK'
    BY <1>1, <1>2, <2>1, <2>2 DEF TableTypeOK
  <2>4. TableSound'
    BY <1>1, <1>2, <2>1, <2>2 DEF TableSound, Serving, Busy, Finalizing
  <2>5. QED BY <1>3, <2>1, <2>3, <2>4 DEF ManagerOK
<1>6. CASE BootAppend(j)
  <2>1. ~Conflicts(disk[j].pendingRun)
    BY <1>2, <1>6, NoConflict DEF BootAppend, BootFinishing
  <2>2. pc' = "boot" /\ UNCHANGED <<disk, mem, running, todo>>
    BY <1>1, <1>6, <2>1, BootAccepts DEF BootAppend
  <2>3. TableTypeOK'
    BY <1>1, <1>2, <2>2 DEF TableTypeOK
  <2>4. TableSound'
    BY <1>1, <1>2, <2>2 DEF TableSound, Serving, Busy, Finalizing
  <2>5. QED BY <1>3, <2>2, <2>3, <2>4 DEF ManagerOK
<1> DEFINE x == [disk[j] EXCEPT !.pendingRun = NoRun]
<1>7. CASE BootClear(j)
  <2>1. /\ pc' = "boot" /\ todo' = todo \ {j} /\ UNCHANGED running
        /\ disk[j].pendingRun # NoRun /\ disk[j].pendingNotification = "none"
    BY <1>1, <1>7, BootAccepts DEF BootClear, BootFinishing
  <2>2. CASE DeleteJob(j) /\ UNCHANGED mem
    <3>1. /\ DOMAIN disk' = DOMAIN disk \ {j}
          /\ \A k \in DOMAIN disk \ {j} : disk'[k] = disk[k]
      BY <2>2 DEF DeleteJob, Drop
    <3>2. TableTypeOK'
      BY <1>1, <1>2, <2>1, <2>2, <3>1 DEF TableTypeOK
    <3>3. TableSound'
      BY <1>1, <1>2, <2>1, <2>2, <3>1 DEF TableSound, Serving, Busy, Finalizing
    <3>4. QED BY <1>3, <2>1, <3>2, <3>3 DEF ManagerOK
  <2>3. CASE ~disk[j].done /\ StoreJob(j, x) /\ mem' = Put(mem, j, x)
    <3>1. FileOK(j, x) /\ Idle(x)
      BY <1>2, <2>1, <2>3, ClearWrites
    <3>2. x \in JobRecords
      BY <3>1 DEF FileOK, JobSound
    <3> HIDE DEF x
    <3>3. /\ DOMAIN disk' = DOMAIN disk /\ DOMAIN mem' = DOMAIN mem \cup {j}
          /\ disk'[j] = x /\ mem'[j] = x
          /\ \A k \in DOMAIN disk : k # j => disk'[k] = disk[k]
          /\ \A k \in DOMAIN mem : k # j => mem'[k] = mem[k]
      BY <1>2, <2>3 DEF StoreJob, Put
    <3>4. TableTypeOK'
      BY <1>1, <1>2, <2>1, <3>2, <3>3 DEF TableTypeOK
    <3>5. TableSound'
      BY <1>1, <1>2, <2>1, <3>1, <3>3 DEF TableSound, Serving, Busy, Finalizing
    <3>6. QED BY <1>3, <2>1, <3>4, <3>5 DEF ManagerOK
  <2>4. QED BY <1>7, <2>2, <2>3 DEF BootClear
<1>8. QED BY <1>4, <1>5, <1>6, <1>7

LEMMA ManagerStep == IInv /\ [Next]_vars => ManagerOK'
<1> SUFFICES ASSUME IInv, [Next]_vars PROVE ManagerOK'
    OBVIOUS
<1>1. CASE RunLoop
  <2>1. CASE WriteRefused
    BY <2>1, ManagerStops DEF WriteRefused, FatalError
  <2>2. QED
    BY <1>1, <2>1, ManagerIdles, ManagerResumes, ManagerClaims, ManagerExecutes, ManagerPersists,
       ManagerFinalizes, ManagerMarks, ManagerStoresResult, ManagerAppends, ManagerClears
    DEF RunLoop
<1>2. CASE Reconcile
    BY <1>2, ManagerBoots, ManagerReconciles DEF Reconcile
<1>3. CASE OutboundWorker \/ Stop \/ PersistDeadline \/ Tick \/ UNCHANGED vars
  <2>1. /\ UNCHANGED <<disk, mem, running, todo, pc, cur, run, archive, started, issued>>
        /\ now' = now \/ now' = now + 1
    BY <1>3 DEF OutboundWorker, OutboundTake, OutboundDeliver, Stop, PersistDeadline, Tick, local,
       history, vars
  <2>2. now \in Nat
    BY DEF IInv, TypeOK, CountersTypeOK
  <2>3. QED BY <2>1, <2>2, ManagerFrame
<1>4. CASE WriteFails \/ Exit \/ Crash
    BY <1>4, ManagerStops, ManagerGone DEF WriteFails, FatalError, Exit, Crash
<1>5. QED BY <1>1, <1>2, <1>3, <1>4, ManagerCalled DEF Next, Fault

-----------------------------------------------------------------------------
LEMMA IInvStep == IInv /\ [Next]_vars => IInv'
BY StoreTypeStep, LoopTypeStep, BusTypeStep, CountersTypeStep, StoreStep, ManagerStep,
   OccurrencesStep
DEF IInv, TypeOK, ManagerOK

(* IInv is an invariant of the scheduler: every file is one NewManager     *)
(* accepts, no archive write conflicts, and the table follows the files,   *)
(* across every interleaving of calls, runs, stops and crashes.            *)
THEOREM InductiveInvariant == Spec => []IInv
BY InitIInv, IInvStep, PTL DEF Spec

(* The state of the store, the manager and the bus keeps its type. *)
THEOREM TypeCorrect == Spec => []TypeOK
<1>1. IInv => TypeOK
    BY DEF IInv
<1>2. QED BY InductiveInvariant, <1>1, PTL

(* NewManager never rejects what the manager stored, no run record meets   *)
(* another one of its identity, and no intent is missing when its delivery *)
(* is marked (manager.go:142, 186, 205, 1005; store.go:253).               *)
THEOREM NeverInconsistentCorrect == Spec => []NeverInconsistent
<1>1. IInv => NeverInconsistent
    BY DEF IInv
<1>2. QED BY InductiveInvariant, <1>1, PTL

(* A job's executions have growing start times and strictly later          *)
(* occurrences: claimNextDue runs no occurrence twice, over reschedules    *)
(* and crashes too.                                                        *)
THEOREM OccurrencesAdvanceCorrect == Spec => []OccurrencesAdvance
<1>1. IInv => OccurrencesAdvance
    BY DEF IInv
<1>2. QED BY InductiveInvariant, <1>1, PTL

(* The table of a serving manager is what is on disk, but for the job      *)
(* finishPendingRun holds the lock on, and the job at work is in it, so    *)
(* that executeClaimed always finds its job still there.                   *)
THEOREM TableMatchesStoreCorrect == Spec => []TableMatchesStore
<1>1. IInv => TableMatchesStore
  <2> SUFFICES ASSUME IInv, pc \in Serving
               PROVE  /\ DOMAIN mem = DOMAIN disk
                      /\ \A j \in DOMAIN mem : mem[j] = disk[j] \/ (j = cur /\ Locked)
                      /\ pc \in Busy => cur \in running /\ cur \in DOMAIN mem
    BY DEF TableMatchesStore
  <2>1. QED BY BusyFacts DEF IInv, TableSound
<1>2. QED BY InductiveInvariant, <1>1, PTL

-----------------------------------------------------------------------------
(* The notifications, and the refinement of RunLedger. *)


(* The kinds of change, of the file of one job or of the archive. *)
NewFile(j, x) ==
    /\ j \in Jobs /\ j \notin issued /\ disk' = Put(disk, j, x)
    /\ x.pendingRun = NoRun /\ x.pendingNotification = "none" /\ x.lastStatus = "pending"
    /\ ~x.unavailableNotified

Edited(j, x) ==
    /\ j \in DOMAIN disk /\ disk' = Put(disk, j, x) /\ Idle(disk[j]) /\ Idle(x)
    /\ x.pendingNotification = "none" /\ x.lastRunAt = disk[j].lastRunAt
    /\ x.unavailableNotified => disk[j].unavailableNotified
    /\ \/ x.lastStatus = "pending"
       \/ x.lastStatus = disk[j].lastStatus /\ x.kind = disk[j].kind /\ x.done = disk[j].done

Removed(j) == j \in DOMAIN disk /\ disk' = Drop(disk, j) /\ Idle(disk[j])

Taken(j) ==
    /\ j \in DOMAIN disk /\ disk' = Put(disk, j, Claimed(disk[j])) /\ Idle(disk[j])
    /\ ~disk[j].done /\ disk[j].nextFire <= now

Filed(j) ==
    /\ j \in DOMAIN disk /\ disk[j].pendingRun # NoRun /\ disk[j].pendingNotification = "none"
    /\ archive' = archive \cup {disk[j].pendingRun}

Cleared(j) ==
    /\ j \in DOMAIN disk /\ disk[j].pendingRun # NoRun /\ disk[j].pendingNotification = "none"
    /\ disk[j].pendingRun \in archive
    /\ \/ disk' = Drop(disk, j)
       \/ ~disk[j].done /\ disk' = Put(disk, j, [disk[j] EXCEPT !.pendingRun = NoRun])

Abandons(j) ==
    /\ j \in DOMAIN disk /\ disk[j].pendingRun = NoRun /\ disk[j].lastStatus = "running"
    /\ disk' = Put(disk, j, Interrupted(j))

OnFile(j) == (\E x : NewFile(j, x) \/ Edited(j, x)) \/ Removed(j) \/ Taken(j) \/ Cleared(j) \/ Abandons(j)

OnStore ==
    \/ UNCHANGED <<disk, archive, transcript, intended>>
    \/ UNCHANGED <<archive, transcript, intended, sent>> /\ \E j \in Jobs : OnFile(j)
    \/ UNCHANGED <<disk, transcript, intended, sent>> /\ \E j \in Jobs : Filed(j)
    \/ PersistCompletion \/ MarkNotificationDelivered \/ RecordDelivered \/ StoreNotificationResult

LEMMA CallOnStore == IInv /\ Call => OnStore
<1> SUFFICES ASSUME IInv, Call PROVE OnStore
    OBVIOUS
<1>0. UNCHANGED <<archive, transcript, intended, sent>>
    BY CallFrame
<1>1. PICK j \in Jobs :
          \/ \E s \in Schedules, n \in BOOLEAN, t \in 1 .. MaxTime : Create(j, s, n, t)
          \/ \E r \in BOOLEAN, s \in Schedules, m \in BOOLEAN, n \in BOOLEAN : Update(j, r, s, m, n)
          \/ Delete(j)
    BY DEF Call
<1>2. ASSUME NEW s \in Schedules, NEW n \in BOOLEAN, NEW t \in 1 .. MaxTime, Create(j, s, n, t)
      PROVE  NewFile(j, NewJob(s, n, t))
    BY <1>2 DEF Create, StoreJob, NewFile, NewJob
<1>3. ASSUME NEW r \in BOOLEAN, NEW s \in Schedules, NEW m \in BOOLEAN, NEW n \in BOOLEAN,
             Update(j, r, s, m, n)
      PROVE  \E x : Edited(j, x)
  <2>1. /\ j \in DOMAIN mem /\ j \in DOMAIN disk /\ mem[j] = disk[j] /\ Idle(mem[j])
    BY <1>3 DEF Update, Callable, Mutable, IInv, TableSound
  <2>2. JobSound(j, mem[j]) /\ mem[j] \in JobRecords
    BY <2>1, FilesAreOK DEF FileOK, JobSound
  <2> DEFINE a == IF r THEN Rescheduled(mem[j], s) ELSE mem[j]
             b == IF m THEN Repointed(a) ELSE a
             x == [b EXCEPT !.notify = n]
  <2>3. disk' = Put(disk, j, x)
    BY <1>3 DEF Update, StoreJob
  <2>4. JobSound(j, a) /\ Idle(a)
    BY <1>3, <2>1, <2>2, RescheduledSound DEF Update, IInv
  <2>5. /\ a \in JobRecords /\ a.lastRunAt = mem[j].lastRunAt
        /\ a.unavailableNotified = mem[j].unavailableNotified
        /\ \/ a.lastStatus = "pending"
           \/ a.lastStatus = mem[j].lastStatus /\ a.kind = mem[j].kind /\ a.done = mem[j].done
    BY <2>2, <2>4 DEF Rescheduled, JobSound, JobRecords
  <2> HIDE DEF a
  <2>6. /\ x.lastRunAt = a.lastRunAt /\ x.lastStatus = a.lastStatus /\ x.kind = a.kind /\ x.done = a.done
        /\ x.pendingRun = a.pendingRun /\ x.pendingNotification = a.pendingNotification
        /\ x.unavailableNotified => a.unavailableNotified
    BY <2>5 DEF Repointed, JobRecords
  <2>7. a.pendingNotification = "none"
    BY <2>4 DEF JobSound, Idle
  <2> HIDE DEF x
  <2>8. Edited(j, x)
    BY <2>1, <2>3, <2>4, <2>5, <2>6, <2>7 DEF Edited, Idle
  <2>9. QED BY <2>8
<1>4. ASSUME Delete(j) PROVE Removed(j)
    BY <1>4 DEF Delete, DeleteJob, Removed, Callable, Mutable, IInv, TableSound
<1>5. OnFile(j)
    BY <1>1, <1>2, <1>3, <1>4 DEF OnFile
<1>6. QED BY <1>0, <1>5 DEF OnStore

LEMMA RunLoopOnStore == IInv /\ RunLoop => OnStore
<1> SUFFICES ASSUME IInv, RunLoop PROVE OnStore
    OBVIOUS
<1>1. CASE ClaimNextDue
  <2>1. PICK j \in Due : disk' = Put(disk, j, Claimed(mem[j]))
    BY <1>1 DEF ClaimNextDue, StoreJob
  <2>2. pc = "loop" /\ UNCHANGED <<archive, transcript, intended, sent>>
    BY <1>1 DEF ClaimNextDue, history
  <2>3. Taken(j) /\ j \in Jobs
    BY <2>1, <2>2, DueFacts DEF Taken
  <2>4. QED BY <2>2, <2>3 DEF OnStore, OnFile
<1>2. CASE AppendRunRecord
  <2>1. /\ cur \in DOMAIN disk /\ cur \in Jobs /\ disk[cur].pendingRun # NoRun
        /\ disk[cur].pendingNotification = "none"
    BY <1>2, BusyFacts DEF AppendRunRecord, Busy, Finalizing, IInv, StepSound, Locked
  <2>2. ~Conflicts(disk[cur].pendingRun)
    BY <2>1, NoConflict
  <2>3. Filed(cur) /\ UNCHANGED <<disk, transcript, intended, sent>>
    BY <1>2, <2>1, <2>2 DEF AppendRunRecord, Filed, history
  <2>4. QED BY <2>1, <2>3 DEF OnStore
<1>3. CASE ClearPendingRun
  <2>1. /\ cur \in DOMAIN disk /\ cur \in Jobs /\ disk[cur].pendingRun # NoRun
        /\ disk[cur].pendingNotification = "none" /\ disk[cur].pendingRun \in archive
    BY <1>3, BusyFacts DEF ClearPendingRun, Busy, Finalizing, IInv, StepSound, Locked
  <2>2. Cleared(cur) /\ UNCHANGED <<archive, transcript, intended, sent>>
    BY <1>3, <2>1 DEF ClearPendingRun, Cleared, history, DeleteJob, StoreJob
  <2>3. QED BY <2>1, <2>2 DEF OnStore, OnFile
<1>4. CASE UNCHANGED <<disk, archive, transcript, intended>>
    BY <1>4 DEF OnStore
<1>5. QED
    BY <1>1, <1>2, <1>3, <1>4
    DEF RunLoop, OnStore, history, RunReturns, ResumePendingNotification, GoToSleep, WakeUp, TimerFires,
        Execute, ExecuteReturns, Publish, PublishTimesOut, PublishAnswered, RecordInterrupted,
        WriteRefused, FatalError

LEMMA ReconcileOnStore == IInv /\ Reconcile => OnStore
<1> SUFFICES ASSUME IInv, Reconcile PROVE OnStore
    OBVIOUS
<1>1. todo \subseteq DOMAIN disk
    BY DEF IInv, TypeOK, TableTypeOK
<1>2. ASSUME NEW j \in Jobs, BootInterrupt(j) PROVE OnStore
  <2>1. Abandons(j) /\ UNCHANGED <<archive, transcript, intended, sent>>
    BY <1>1, <1>2 DEF BootInterrupt, NextLoaded, history, Abandons, StoreJob
  <2>2. QED BY <2>1 DEF OnStore, OnFile
<1>3. ASSUME NEW j \in Jobs, BootAppend(j) PROVE OnStore
  <2>1. j \in DOMAIN disk /\ disk[j].pendingRun # NoRun /\ disk[j].pendingNotification = "none"
    BY <1>1, <1>3 DEF BootAppend, BootFinishing, NextLoaded
  <2>2. ~Conflicts(disk[j].pendingRun)
    BY <2>1, NoConflict
  <2>3. Filed(j) /\ UNCHANGED <<disk, transcript, intended, sent>>
    BY <1>3, <2>1, <2>2 DEF BootAppend, Filed, history
  <2>4. QED BY <2>3 DEF OnStore
<1>4. ASSUME NEW j \in Jobs, BootClear(j) PROVE OnStore
  <2>1. Cleared(j) /\ UNCHANGED <<archive, transcript, intended, sent>>
    BY <1>1, <1>4 DEF BootClear, BootFinishing, NextLoaded, history, Cleared, DeleteJob, StoreJob
  <2>2. QED BY <2>1 DEF OnStore, OnFile
<1>5. CASE UNCHANGED <<disk, archive, transcript, intended>>
    BY <1>5 DEF OnStore
<1>6. QED BY <1>2, <1>3, <1>4, <1>5 DEF Reconcile, Boot, BootDone, BootKeep, history

(* Whatever the manager, the bus and the process do, the durable state     *)
(* changes in one of these ways.                                           *)
LEMMA DurableSteps == IInv /\ [Next]_vars => OnStore
<1> SUFFICES ASSUME IInv, [Next]_vars PROVE OnStore
    OBVIOUS
<1>1. CASE OutboundWorker \/ Fault \/ Tick \/ UNCHANGED vars
    BY <1>1 DEF OnStore, OutboundWorker, Fault, OutboundTake, OutboundDeliver, Stop, PersistDeadline,
       WriteFails, FatalError, Exit, Crash, ProcessGone, Tick, history, vars
<1>2. QED BY <1>1, CallOnStore, RunLoopOnStore, ReconcileOnStore DEF Next

-----------------------------------------------------------------------------
(* What the writes of the scheduler goroutine leave in the file of cur. *)
PersistedFile(x) ==
    /\ disk' = Put(disk, cur, x) /\ x.pendingRun = run
    /\ x.lastRunAt = disk[cur].lastRunAt /\ x.lastStatus = run.status /\ x.kind = disk[cur].kind
    /\ x.done \/ run.status = "model_unavailable" \/ ~disk[cur].done
    /\ x.unavailableNotified => disk[cur].unavailableNotified
    /\ pc' = FinalizeStep(x)
    /\ \/ x.pendingNotification = "none" /\ UNCHANGED intended
       \/ x.pendingNotification = "intent" /\ intended' = intended \cup {RunID(run)}

LEMMA PersistStep ==
    ASSUME IInv, PersistCompletion
    PROVE  /\ cur \in DOMAIN disk /\ disk[cur].pendingRun = NoRun /\ disk[cur].lastStatus = "running"
           /\ run \in RunRecords /\ RunID(run) = <<cur, disk[cur].lastRunAt>> /\ RunID(run) \in RunIDs
           /\ UNCHANGED <<archive, transcript, sent>>
           /\ \E x : PersistedFile(x)
<1> DEFINE x == Completed(mem[cur], run, ShouldNotify(mem[cur], run))
<1>1. pc \in Busy /\ ~Locked /\ pc = "executed"
    BY DEF PersistCompletion, Busy, Locked
<1>2. /\ cur \in Jobs /\ cur \in DOMAIN disk /\ mem[cur] = disk[cur] /\ disk[cur] \in JobRecords
      /\ JobSound(cur, disk[cur])
    BY <1>1, BusyFacts
<1>3. /\ disk[cur].lastStatus = "running" /\ run \in RunRecords /\ run.job = cur
      /\ run.startedAt = disk[cur].lastRunAt
    BY <1>1 DEF IInv, StepSound
<1>4. disk[cur].pendingRun = NoRun
    BY <1>2, <1>3 DEF JobSound
<1>5. RunID(run) \in RunIDs /\ RunID(run) = <<cur, disk[cur].lastRunAt>>
    BY <1>2, <1>3, BoundsAssumption
    DEF RunID, RunIDs, RunRecords, Times, JobSound, IInv, TypeOK, CountersTypeOK
<1>6. /\ x.pendingRun = run /\ x.lastRunAt = disk[cur].lastRunAt /\ x.lastStatus = run.status
      /\ x.kind = disk[cur].kind
      /\ x.done \/ run.status = "model_unavailable" \/ ~disk[cur].done
      /\ x.unavailableNotified => disk[cur].unavailableNotified
      /\ x.pendingNotification = "none" \/ x.pendingNotification = "intent"
    BY <1>2 DEF Completed, Retries, JobRecords
<1>7. /\ disk' = Put(disk, cur, x) /\ UNCHANGED <<archive, transcript, sent>>
      /\ pc' = FinalizeStep(x)
      /\ intended' = IF x.pendingNotification = "intent" THEN intended \cup {RunID(run)} ELSE intended
    BY DEF PersistCompletion, StoreJob
<1> HIDE DEF x
<1>8. PersistedFile(x)
    BY <1>6, <1>7 DEF PersistedFile
<1>9. QED BY <1>2, <1>3, <1>4, <1>5, <1>7, <1>8

LEMMA MarkStep ==
    ASSUME IInv, MarkNotificationDelivered
    PROVE  /\ cur \in DOMAIN disk /\ pc = "marking" /\ pc' = "recording"
           /\ disk' = Put(disk, cur, [disk[cur] EXCEPT !.pendingNotification = "delivered"])
           /\ disk[cur].pendingRun # NoRun /\ disk[cur] \in JobRecords
           /\ UNCHANGED <<archive, transcript, intended, sent, cur, outq, inflight, ack>>
<1>1. pc = "marking" /\ pc \in Finalizing /\ pc \in Busy /\ ~Locked
    BY DEF MarkNotificationDelivered, Busy, Finalizing, Locked
<1>2. cur \in DOMAIN disk /\ mem[cur] = disk[cur] /\ cur \in DOMAIN mem /\ disk[cur] \in JobRecords
    BY <1>1, BusyFacts
<1>3. disk[cur].pendingRun # NoRun /\ disk[cur].pendingNotification # "none"
    BY <1>1 DEF IInv, StepSound
<1>4. HasIntent(cur)
    BY <1>2, <1>3 DEF HasIntent
<1>5. QED BY <1>1, <1>2, <1>3, <1>4 DEF MarkNotificationDelivered, StoreJob, history, local, outbound

LEMMA RecordStep ==
    ASSUME IInv, RecordDelivered
    PROVE  /\ cur \in DOMAIN disk /\ pc = "recording" /\ pc' = "archive"
           /\ transcript' = transcript \cup {CurID}
           /\ UNCHANGED <<disk, archive, intended, sent, cur, outq, inflight, ack>>
<1>1. pc = "recording" /\ pc \in Finalizing /\ pc \in Busy /\ ~Locked
    BY DEF RecordDelivered, Busy, Finalizing, Locked
<1>2. cur \in DOMAIN disk /\ mem[cur] = disk[cur]
    BY <1>1, BusyFacts
<1>3. QED BY <1>1, <1>2 DEF RecordDelivered, CurID, history, local, outbound

LEMMA SettleStep ==
    ASSUME IInv, StoreNotificationResult
    PROVE  /\ cur \in DOMAIN disk /\ pc \in {"archive", "archiveUndelivered"} /\ pc' = "append"
           /\ disk[cur] \in JobRecords /\ disk[cur].pendingRun \in RunRecords
           /\ disk[cur].pendingRun # NoRun
           /\ disk' = Put(disk, cur, Settled(disk[cur], pc = "archiveUndelivered"))
           /\ UNCHANGED <<archive, transcript, intended, sent, cur, outq, inflight, ack>>
<1>1. pc \in {"archive", "archiveUndelivered"} /\ pc \in Finalizing /\ pc \in Busy /\ ~Locked
    BY DEF StoreNotificationResult, Busy, Finalizing, Locked
<1>2. cur \in DOMAIN disk /\ mem[cur] = disk[cur] /\ disk[cur] \in JobRecords
    BY <1>1, BusyFacts
<1>3. disk[cur].pendingRun \in RunRecords /\ disk[cur].pendingRun # NoRun
    BY <1>1, MarkerFacts, NoRunAssumption
<1>4. QED BY <1>1, <1>2, <1>3 DEF StoreNotificationResult, StoreJob, history, local, outbound

-----------------------------------------------------------------------------
(* The records of a run: no step takes one away, and only the result of    *)
(* its own notification changes one, never its status.                     *)
LEMMA ArchiveRecord ==
    ASSUME NEW CONSTANT r, r \in archive', NEW CONSTANT id, RunID(r) = id PROVE r \in RecordsOf(id)'
BY DEF RecordsOf

LEMMA FileRecord ==
    ASSUME NEW j \in DOMAIN disk', disk'[j].pendingRun # NoRun,
           NEW CONSTANT id, RunID(disk'[j].pendingRun) = id
    PROVE  disk'[j].pendingRun \in RecordsOf(id)'
BY DEF RecordsOf, Marked

LEMMA RecordOrigin ==
    ASSUME NEW CONSTANT id, NEW CONSTANT r, r \in RecordsOf(id)
    PROVE  /\ RunID(r) = id
           /\ \/ r \in archive
              \/ \E j \in DOMAIN disk : disk[j].pendingRun # NoRun /\ r = disk[j].pendingRun
BY DEF RecordsOf, Marked

LEMMA RecordsKept ==
    ASSUME IInv, [Next]_vars, NEW CONSTANT id, NEW CONSTANT r, r \in RecordsOf(id)
    PROVE  \/ r \in RecordsOf(id)'
           \/ /\ StoreNotificationResult /\ id = CurID /\ r = disk[cur].pendingRun
              /\ disk[cur].pendingNotification # "none"
              /\ disk'[cur].pendingRun \in RecordsOf(id)'
              /\ disk'[cur].pendingRun.status = r.status
              /\ disk'[cur].pendingRun.notifyError = (pc = "archiveUndelivered")
<1>1. RunID(r) = id
    BY RecordOrigin
<1>2. archive \subseteq archive'
    BY DurableSteps DEF OnStore, Filed, PersistCompletion, MarkNotificationDelivered, RecordDelivered,
       StoreNotificationResult
<1>3. CASE r \in archive
    BY <1>1, <1>2, <1>3, ArchiveRecord
<1>4. ASSUME NEW k \in DOMAIN disk, disk[k].pendingRun # NoRun, r = disk[k].pendingRun
      PROVE  \/ r \in archive' \/ (k \in DOMAIN disk' /\ disk'[k].pendingRun = r)
             \/ StoreNotificationResult /\ k = cur
  <2>1. CASE UNCHANGED disk
    BY <1>4, <2>1
  <2>2. ASSUME NEW j \in Jobs, NEW x, NewFile(j, x)
        PROVE  k \in DOMAIN disk' /\ disk'[k].pendingRun = r
    <3>1. k # j
      BY <2>2 DEF NewFile, IInv, TypeOK, StoreTypeOK
    <3>2. QED BY <1>4, <2>2, <3>1 DEF NewFile, Put
  <2>3. ASSUME NEW j \in Jobs, NEW x, Edited(j, x)
        PROVE  k \in DOMAIN disk' /\ disk'[k].pendingRun = r
    <3>1. k # j
      BY <1>4, <2>3 DEF Edited, Idle
    <3>2. QED BY <1>4, <2>3, <3>1 DEF Edited, Put
  <2>4. ASSUME NEW j \in Jobs, Removed(j) PROVE k \in DOMAIN disk' /\ disk'[k].pendingRun = r
    <3>1. k # j
      BY <1>4, <2>4 DEF Removed, Idle
    <3>2. QED BY <1>4, <2>4, <3>1 DEF Removed, Drop
  <2>5. ASSUME NEW j \in Jobs, Taken(j) PROVE k \in DOMAIN disk' /\ disk'[k].pendingRun = r
    <3>1. k # j
      BY <1>4, <2>5 DEF Taken, Idle
    <3>2. QED BY <1>4, <2>5, <3>1 DEF Taken, Put
  <2>6. ASSUME NEW j \in Jobs, Cleared(j), UNCHANGED archive
        PROVE  r \in archive' \/ (k \in DOMAIN disk' /\ disk'[k].pendingRun = r)
    <3>1. CASE k = j
      BY <1>4, <2>6, <3>1 DEF Cleared
    <3>2. CASE k # j
      BY <1>4, <2>6, <3>2 DEF Cleared, Put, Drop
    <3>3. QED BY <3>1, <3>2
  <2>7. ASSUME NEW j \in Jobs, Abandons(j) PROVE k \in DOMAIN disk' /\ disk'[k].pendingRun = r
    <3>1. k # j
      BY <1>4, <2>7 DEF Abandons
    <3>2. QED BY <1>4, <2>7, <3>1 DEF Abandons, Put
  <2>8. CASE PersistCompletion
    <3>1. \E x : disk' = Put(disk, cur, x)
      BY <2>8 DEF PersistCompletion, StoreJob
    <3>2. k # cur
      BY <1>4, <2>8, PersistStep
    <3>3. QED BY <1>4, <3>1, <3>2 DEF Put
  <2>9. CASE MarkNotificationDelivered
    BY <1>4, <2>9, MarkStep DEF Put, JobRecords
  <2>10. CASE StoreNotificationResult
    BY <1>4, <2>10, SettleStep DEF Put
  <2>11. CASE RecordDelivered
    BY <2>1, <2>11, RecordStep
  <2>12. QED
    BY <2>1, <2>2, <2>3, <2>4, <2>5, <2>6, <2>7, <2>8, <2>9, <2>10, <2>11, DurableSteps
    DEF OnStore, OnFile
<1>5. ASSUME StoreNotificationResult, cur \in DOMAIN disk, r = disk[cur].pendingRun
      PROVE  \/ r \in RecordsOf(id)'
             \/ /\ id = CurID /\ disk[cur].pendingNotification # "none"
                /\ disk'[cur].pendingRun \in RecordsOf(id)'
                /\ disk'[cur].pendingRun.status = r.status
                /\ disk'[cur].pendingRun.notifyError = (pc = "archiveUndelivered")
  <2>1. /\ cur \in DOMAIN disk' /\ disk'[cur] = Settled(disk[cur], pc = "archiveUndelivered")
        /\ disk[cur] \in JobRecords /\ r \in RunRecords /\ r # NoRun
    BY <1>5, SettleStep DEF Put
  <2>2. CASE disk[cur].pendingNotification = "none"
    <3>1. disk'[cur].pendingRun = r
      BY <1>5, <2>1, <2>2 DEF Settled
    <3>2. QED BY <1>1, <2>1, <3>1, FileRecord
  <2>3. CASE disk[cur].pendingNotification # "none"
    <3>1. disk'[cur].pendingRun = [r EXCEPT !.notifyError = (pc = "archiveUndelivered")]
      BY <1>5, <2>1, <2>3 DEF Settled, JobRecords
    <3>2. /\ disk'[cur].pendingRun.status = r.status /\ RunID(disk'[cur].pendingRun) = id
          /\ disk'[cur].pendingRun.notifyError = (pc = "archiveUndelivered")
          /\ disk'[cur].pendingRun \in RunRecords
      BY <1>1, <2>1, <3>1 DEF RunRecords, RunID
    <3>3. QED BY <1>1, <1>5, <2>1, <2>3, <3>2, FileRecord, NoRunAssumption DEF CurID
  <2>4. QED BY <2>2, <2>3
<1>6. QED BY <1>1, <1>3, <1>4, <1>5, RecordOrigin, ArchiveRecord, FileRecord

(* The file of a one-shot that is armed after it ran was already so, but   *)
(* for the run that found its model unavailable.                           *)
LEMMA ArmedFile ==
    ASSUME IInv, [Next]_vars, NEW CONSTANT j, j \in DOMAIN disk',
           disk'[j].kind = "oneshot", ~disk'[j].done, disk'[j].lastStatus # "pending"
    PROVE  \/ PersistCompletion /\ j = cur /\ run.status = "model_unavailable"
           \/ /\ j \in DOMAIN disk /\ disk'[j].lastRunAt = disk[j].lastRunAt
              /\ disk[j].kind = "oneshot" /\ ~disk[j].done /\ disk[j].lastStatus # "pending"
<1> DEFINE Before == /\ j \in DOMAIN disk /\ disk'[j].lastRunAt = disk[j].lastRunAt
                     /\ disk[j].kind = "oneshot" /\ ~disk[j].done /\ disk[j].lastStatus # "pending"
<1>0. ASSUME NEW k, k # j, j \in DOMAIN disk, disk'[j] = disk[j] PROVE Before
    BY <1>0
<1>1. CASE UNCHANGED disk
    BY <1>1
<1>2. ASSUME NEW k \in Jobs, NEW x, NewFile(k, x) PROVE Before
    BY <1>2 DEF NewFile, Put
<1>3. ASSUME NEW k \in Jobs, NEW x, Edited(k, x) PROVE Before
    BY <1>3 DEF Edited, Put
<1>4. ASSUME NEW k \in Jobs, Removed(k) PROVE Before
    BY <1>4 DEF Removed, Drop
<1>5. ASSUME NEW k \in Jobs, Taken(k) PROVE Before
  <2>1. CASE j = k
    <3>1. disk[k] \in JobRecords /\ disk'[k] = Claimed(disk[k])
      BY <1>5, <2>1, FilesAreOK DEF FileOK, JobSound, Taken, Put
    <3>2. disk'[k].kind = disk[k].kind /\ disk'[k].done = (disk[k].kind = "oneshot")
      BY <3>1 DEF Claimed, JobRecords
    <3>3. QED BY <2>1, <3>2
  <2>2. CASE j # k
    BY <1>5, <2>2 DEF Taken, Put
  <2>3. QED BY <2>1, <2>2
<1>6. ASSUME NEW k \in Jobs, Cleared(k) PROVE Before
  <2>1. disk[k] \in JobRecords
    BY <1>6, FilesAreOK DEF FileOK, JobSound, Cleared
  <2>2. QED BY <1>6, <2>1 DEF Cleared, Put, Drop, JobRecords
<1>7. ASSUME NEW k \in Jobs, Abandons(k) PROVE Before
  <2>1. disk[k] \in JobRecords
    BY <1>7, FilesAreOK DEF FileOK, JobSound, Abandons
  <2>2. QED BY <1>7, <2>1 DEF Abandons, Put, JobRecords, Interrupted
<1>8. CASE PersistCompletion
  <2>1. PICK x : PersistedFile(x)
    BY <1>8, PersistStep
  <2>2. cur \in DOMAIN disk /\ disk[cur].lastStatus = "running"
    BY <1>8, PersistStep
  <2>3. QED BY <1>8, <2>1, <2>2 DEF Put, PersistedFile
<1>9. CASE MarkNotificationDelivered
    BY <1>9, MarkStep DEF Put, JobRecords
<1>10. CASE StoreNotificationResult
  <2> DEFINE x == Settled(disk[cur], pc = "archiveUndelivered")
  <2>1. disk' = Put(disk, cur, x) /\ cur \in DOMAIN disk /\ disk[cur] \in JobRecords
    BY <1>10, SettleStep
  <2>2. /\ x.kind = disk[cur].kind /\ x.done = disk[cur].done /\ x.lastStatus = disk[cur].lastStatus
        /\ x.lastRunAt = disk[cur].lastRunAt
    BY <2>1 DEF Settled, JobRecords
  <2> HIDE DEF x
  <2>3. QED BY <2>1, <2>2 DEF Put
<1>11. CASE RecordDelivered
    BY <1>1, <1>11, RecordStep
<1>12. QED
    BY <1>1, <1>2, <1>3, <1>4, <1>5, <1>6, <1>7, <1>8, <1>9, <1>10, <1>11, DurableSteps
    DEF OnStore, OnFile

LEMMA RetryStep == DInv /\ [Next]_vars => OnlyUnavailableOneShotsRetry'
<1> SUFFICES ASSUME DInv, [Next]_vars, NEW CONSTANT j, j \in DOMAIN disk',
                    disk'[j].kind = "oneshot", ~disk'[j].done, disk'[j].lastStatus # "pending"
             PROVE  (\E r \in RecordsOf(<<j, disk[j].lastRunAt>>) : r.status = "model_unavailable")'
    BY DEF OnlyUnavailableOneShotsRetry
<1>0. IInv
    BY DEF DInv
<1>1. PICK id : id = <<j, disk'[j].lastRunAt>>
    OBVIOUS
<1>2. \E r \in RecordsOf(id)' : r.status = "model_unavailable"
  <2>1. CASE PersistCompletion /\ j = cur /\ run.status = "model_unavailable"
    <3>1. /\ cur \in DOMAIN disk' /\ disk'[cur].pendingRun = run /\ run # NoRun
          /\ RunID(run) = <<cur, disk[cur].lastRunAt>> /\ disk'[cur].lastRunAt = disk[cur].lastRunAt
      <4>1. PICK x : PersistedFile(x)
        BY <1>0, <2>1, PersistStep
      <4>2. RunID(run) = <<cur, disk[cur].lastRunAt>> /\ run # NoRun /\ cur \in DOMAIN disk
        BY <1>0, <2>1, PersistStep, NoRunAssumption
      <4>3. QED BY <4>1, <4>2 DEF Put, PersistedFile
    <3>2. disk'[cur].pendingRun \in RecordsOf(id)'
      BY <1>1, <2>1, <3>1, FileRecord
    <3>3. QED BY <2>1, <3>1, <3>2
  <2>2. CASE /\ j \in DOMAIN disk /\ disk'[j].lastRunAt = disk[j].lastRunAt
             /\ disk[j].kind = "oneshot" /\ ~disk[j].done /\ disk[j].lastStatus # "pending"
    <3>1. PICK r \in RecordsOf(id) : r.status = "model_unavailable"
      BY <1>1, <2>2 DEF DInv, OnlyUnavailableOneShotsRetry
    <3>2. QED BY <1>0, <3>1, RecordsKept
  <2>3. QED BY <1>0, <2>1, <2>2, ArmedFile
<1>3. QED BY <1>1, <1>2 DEF RecordsOf, Marked

-----------------------------------------------------------------------------
(* The result of a notification, in the record of its run. *)
LEMMA SettledRecord ==
    ASSUME IInv, StoreNotificationResult, disk[cur].pendingNotification # "none",
           NEW CONSTANT id, id = CurID
    PROVE  /\ cur \in DOMAIN disk' /\ disk'[cur].pendingRun \in RecordsOf(id)'
           /\ disk'[cur].pendingRun.status = disk[cur].pendingRun.status
           /\ disk'[cur].pendingRun.notifyError = (pc = "archiveUndelivered")
           /\ disk'[cur].pendingNotification = "none"
           /\ disk'[cur].unavailableNotified =>
                 \/ disk[cur].unavailableNotified
                 \/ pc # "archiveUndelivered" /\ disk[cur].pendingRun.status = "model_unavailable"
<1> DEFINE r == disk[cur].pendingRun
           u == pc = "archiveUndelivered"
<1>1. /\ cur \in DOMAIN disk' /\ disk'[cur] = Settled(disk[cur], u)
      /\ disk[cur] \in JobRecords /\ r \in RunRecords /\ r # NoRun
    BY SettleStep DEF Put
<1>2. /\ disk'[cur].pendingRun = [r EXCEPT !.notifyError = u] /\ disk'[cur].pendingNotification = "none"
      /\ disk'[cur].unavailableNotified = (disk[cur].unavailableNotified \/ (~u /\ r.status = "model_unavailable"))
    BY <1>1 DEF Settled, JobRecords
<1>3. /\ disk'[cur].pendingRun.status = r.status /\ RunID(disk'[cur].pendingRun) = id
      /\ disk'[cur].pendingRun.notifyError = u /\ disk'[cur].pendingRun \in RunRecords
    BY <1>1, <1>2 DEF RunRecords, RunID, CurID
<1>4. disk'[cur].pendingRun \in RecordsOf(id)'
    BY <1>1, <1>3, FileRecord, NoRunAssumption
<1>5. QED BY <1>1, <1>2, <1>3, <1>4

(* A notification that is owed or acknowledged stays in its job's file     *)
(* until its result is stored.                                             *)
LEMMA OwedKept ==
    ASSUME IInv, [Next]_vars, NEW k \in DOMAIN disk, disk[k].pendingNotification # "none"
    PROVE  \/ StoreNotificationResult /\ k = cur
           \/ /\ k \in DOMAIN disk' /\ disk'[k].pendingRun = disk[k].pendingRun
              /\ disk'[k].pendingNotification # "none"
<1>0. disk[k].pendingRun # NoRun /\ k \in issued
    BY FilesAreOK DEF FileOK, JobSound, IInv, TypeOK, StoreTypeOK
<1> DEFINE Same == k \in DOMAIN disk' /\ disk'[k] = disk[k]
<1>1. CASE UNCHANGED disk
    BY <1>1
<1>2. ASSUME NEW j \in Jobs, NEW x, NewFile(j, x) PROVE Same
    BY <1>0, <1>2 DEF NewFile, Put
<1>3. ASSUME NEW j \in Jobs, NEW x, Edited(j, x) PROVE Same
    BY <1>0, <1>3 DEF Edited, Put, Idle
<1>4. ASSUME NEW j \in Jobs, Removed(j) PROVE Same
    BY <1>0, <1>4 DEF Removed, Drop, Idle
<1>5. ASSUME NEW j \in Jobs, Taken(j) PROVE Same
    BY <1>0, <1>5 DEF Taken, Put, Idle
<1>6. ASSUME NEW j \in Jobs, Cleared(j) PROVE Same
    BY <1>0, <1>6 DEF Cleared, Put, Drop
<1>7. ASSUME NEW j \in Jobs, Abandons(j) PROVE Same
    BY <1>0, <1>7 DEF Abandons, Put
<1>8. CASE PersistCompletion
  <2>1. PICK x : PersistedFile(x)
    BY <1>8, PersistStep
  <2>2. k # cur
    BY <1>0, <1>8, PersistStep
  <2>3. QED BY <2>1, <2>2 DEF PersistedFile, Put
<1>9. CASE MarkNotificationDelivered
    BY <1>9, MarkStep DEF Put, JobRecords
<1>10. CASE StoreNotificationResult
    BY <1>10, SettleStep DEF Put
<1>11. CASE RecordDelivered
    BY <1>1, <1>11, RecordStep
<1>12. QED
    BY <1>1, <1>2, <1>3, <1>4, <1>5, <1>6, <1>7, <1>8, <1>9, <1>10, <1>11, DurableSteps
    DEF OnStore, OnFile

(* Where the notification of a file comes from. *)
LEMMA NoteOrigin ==
    ASSUME IInv, [Next]_vars, NEW CONSTANT k, k \in DOMAIN disk', disk'[k].pendingNotification # "none"
    PROVE  \/ /\ k \in DOMAIN disk /\ disk'[k].pendingRun = disk[k].pendingRun
              /\ disk'[k].pendingNotification = disk[k].pendingNotification
           \/ /\ MarkNotificationDelivered /\ k = cur /\ k \in DOMAIN disk
              /\ disk'[k].pendingRun = disk[k].pendingRun /\ disk'[k].pendingNotification = "delivered"
           \/ /\ PersistCompletion /\ k = cur /\ disk'[k].pendingRun = run
              /\ disk'[k].pendingNotification = "intent"
<1> DEFINE Same == k \in DOMAIN disk /\ disk'[k] = disk[k]
<1>1. CASE UNCHANGED disk
    BY <1>1
<1>2. ASSUME NEW j \in Jobs, NEW x, NewFile(j, x) PROVE Same
    BY <1>2 DEF NewFile, Put
<1>3. ASSUME NEW j \in Jobs, NEW x, Edited(j, x) PROVE Same
    BY <1>3 DEF Edited, Put
<1>4. ASSUME NEW j \in Jobs, Removed(j) PROVE Same
    BY <1>4 DEF Removed, Drop
<1>5. ASSUME NEW j \in Jobs, Taken(j) PROVE Same
  <2>1. disk[j] \in JobRecords /\ disk[j].pendingNotification = "none"
    BY <1>5, FilesAreOK DEF FileOK, JobSound, Taken, Idle
  <2>2. Claimed(disk[j]).pendingNotification = "none"
    BY <2>1 DEF Claimed, JobRecords
  <2>3. QED BY <1>5, <2>2 DEF Taken, Put
<1>6. ASSUME NEW j \in Jobs, Cleared(j) PROVE Same
  <2>1. disk[j] \in JobRecords
    BY <1>6, FilesAreOK DEF FileOK, JobSound, Cleared
  <2>2. QED BY <1>6, <2>1 DEF Cleared, Put, Drop, JobRecords
<1>7. ASSUME NEW j \in Jobs, Abandons(j) PROVE Same
  <2>1. disk[j] \in JobRecords /\ disk[j].pendingNotification = "none"
    BY <1>7, FilesAreOK DEF FileOK, JobSound, Abandons
  <2>2. Interrupted(j).pendingNotification = "none"
    BY <2>1 DEF Interrupted, JobRecords
  <2>3. QED BY <1>7, <2>2 DEF Abandons, Put
<1>8. CASE PersistCompletion
  <2>1. PICK x : PersistedFile(x)
    BY <1>8, PersistStep
  <2>2. QED BY <1>8, <2>1, PersistStep DEF PersistedFile, Put
<1>9. CASE MarkNotificationDelivered
    BY <1>9, MarkStep DEF Put, JobRecords
<1>10. CASE StoreNotificationResult
  <2> DEFINE x == Settled(disk[cur], pc = "archiveUndelivered")
  <2>1. disk' = Put(disk, cur, x) /\ cur \in DOMAIN disk /\ disk[cur] \in JobRecords
    BY <1>10, SettleStep
  <2>2. x.pendingNotification = "none"
    BY <2>1 DEF Settled, JobRecords
  <2> HIDE DEF x
  <2>3. QED BY <2>1, <2>2 DEF Put
<1>11. CASE RecordDelivered
    BY <1>1, <1>11, RecordStep
<1>12. QED
    BY <1>1, <1>2, <1>3, <1>4, <1>5, <1>6, <1>7, <1>8, <1>9, <1>10, <1>11, DurableSteps
    DEF OnStore, OnFile

(* Only the outbound worker's delivery sends a message. *)
LEMMA SentSteps ==
    ASSUME IInv, [Next]_vars PROVE UNCHANGED sent \/ \E d \in DeliveryResults : OutboundDeliver(d)
<1>1. CASE Call
    BY <1>1, CallFrame
<1>2. CASE RunLoop
    BY <1>2
    DEF RunLoop, history, RunReturns, ResumePendingNotification, ClaimNextDue, GoToSleep, WakeUp,
        TimerFires, Execute, ExecuteReturns, PersistCompletion, Publish, PublishTimesOut,
        PublishAnswered, MarkNotificationDelivered, RecordDelivered, RecordInterrupted,
        StoreNotificationResult, AppendRunRecord, ClearPendingRun, WriteRefused, FatalError
<1>3. CASE Reconcile \/ Fault \/ Tick \/ OutboundTake \/ UNCHANGED vars
    BY <1>3 DEF Reconcile, Fault, history, Boot, BootDone, BootKeep, BootInterrupt, BootAppend,
       BootClear, OutboundTake, Stop, PersistDeadline, WriteFails, FatalError, Exit, Crash,
       ProcessGone, Tick, vars
<1>4. QED BY <1>1, <1>2, <1>3 DEF Next, OutboundWorker

LEMMA HistoryGrows ==
    ASSUME IInv, [Next]_vars
    PROVE  /\ transcript \subseteq transcript' /\ transcript \subseteq RunIDs
           /\ \A id \in RunIDs : sent[id] \in Nat /\ sent'[id] \in Nat /\ sent'[id] >= sent[id]
<1>1. transcript \subseteq transcript'
    BY DurableSteps DEF OnStore, PersistCompletion, MarkNotificationDelivered, RecordDelivered,
       StoreNotificationResult
<1>2. transcript \subseteq RunIDs /\ sent \in [RunIDs -> Nat] /\ BusTypeOK
    BY DEF IInv, TypeOK, StoreTypeOK, CountersTypeOK
<1>3. ASSUME NEW d \in DeliveryResults, OutboundDeliver(d)
      PROVE  \A id \in RunIDs : sent'[id] \in Nat /\ sent'[id] >= sent[id]
  <2>0. inflight[1] \in Requests
    BY <1>2, <1>3 DEF OutboundDeliver, BusTypeOK
  <2>1. inflight[1].id \in RunIDs
    BY <2>0 DEF Requests
  <2>2. sent' = sent \/ sent' = [sent EXCEPT ![inflight[1].id] = @ + 1]
    BY <1>3 DEF OutboundDeliver
  <2>3. QED BY <1>2, <2>1, <2>2
<1>4. QED BY <1>1, <1>2, <1>3, SentSteps

LEMMA KeyedStep == DInv /\ [Next]_vars => ArchiveKeyed'
<1> SUFFICES ASSUME DInv, [Next]_vars PROVE ArchiveKeyed'
    OBVIOUS
<1>1. IInv /\ ArchiveKeyed
    BY DEF DInv
<1>2. CASE UNCHANGED archive
    BY <1>1, <1>2 DEF ArchiveKeyed
<1>3. ASSUME NEW j \in Jobs, Filed(j) PROVE ArchiveKeyed'
  <2>1. ~Conflicts(disk[j].pendingRun) /\ archive' = archive \cup {disk[j].pendingRun}
    BY <1>1, <1>3, NoConflict DEF Filed
  <2>2. QED BY <1>1, <2>1 DEF ArchiveKeyed, Conflicts
<1>4. QED
    BY <1>1, <1>2, <1>3, DurableSteps
    DEF OnStore, PersistCompletion, MarkNotificationDelivered, RecordDelivered, StoreNotificationResult

LEMMA IntentStep == DInv /\ [Next]_vars => IntentNeverLost'
<1> SUFFICES ASSUME DInv, [Next]_vars, NEW CONSTANT id, id \in intended'
             PROVE  \/ Marked(id[1], id)' /\ disk'[id[1]].pendingNotification # "none"
                    \/ \E r \in RecordsOf(id)' : r.notifyError \/ id \in transcript'
    BY DEF IntentNeverLost
<1>0. IInv /\ DeliverySound /\ IntentNeverLost
    BY DEF DInv, NotificationsAreTrue
<1>1. CASE id \notin intended
  <2>1. PersistCompletion
    BY <1>0, <1>1, DurableSteps DEF OnStore, MarkNotificationDelivered, RecordDelivered,
       StoreNotificationResult, history
  <2>2. PICK x : PersistedFile(x)
    BY <1>0, <2>1, PersistStep
  <2>3. x.pendingNotification = "intent" /\ id = RunID(run)
    BY <1>1, <2>2 DEF PersistedFile
  <2>4. /\ cur \in DOMAIN disk /\ run # NoRun /\ id[1] = cur
    BY <1>0, <2>1, <2>3, PersistStep, NoRunAssumption
  <2>5. cur \in DOMAIN disk' /\ disk'[cur].pendingRun = run /\ disk'[cur].pendingNotification = "intent"
    BY <2>2, <2>3, <2>4 DEF PersistedFile, Put
  <2>6. QED BY <2>3, <2>4, <2>5 DEF Marked
<1>2. CASE Marked(id[1], id) /\ disk[id[1]].pendingNotification # "none"
  <2> DEFINE k == id[1]
  <2>1. k \in DOMAIN disk /\ disk[k].pendingRun # NoRun /\ RunID(disk[k].pendingRun) = id
    BY <1>2 DEF Marked
  <2>2. CASE StoreNotificationResult /\ k = cur
    <3>1. id = CurID
      BY <2>1, <2>2 DEF CurID
    <3>2. /\ disk'[cur].pendingRun \in RecordsOf(id)'
          /\ disk'[cur].pendingRun.notifyError = (pc = "archiveUndelivered")
      BY <1>0, <1>2, <2>2, <3>1, SettledRecord
    <3>3. pc \in {"archive", "archiveUndelivered"} /\ transcript' = transcript
      BY <1>0, <2>2, SettleStep
    <3>4. pc = "archive" => id \in transcript
      BY <1>0, <1>2, <2>2, <3>1 DEF DeliverySound, NotePlaced, DeliveredSent
    <3>5. QED BY <3>2, <3>3, <3>4
  <2>3. CASE /\ k \in DOMAIN disk' /\ disk'[k].pendingRun = disk[k].pendingRun
             /\ disk'[k].pendingNotification # "none"
    BY <2>1, <2>3 DEF Marked
  <2>4. QED BY <1>0, <1>2, <2>1, <2>2, <2>3, OwedKept
<1>3. ASSUME NEW r, r \in RecordsOf(id), r.notifyError \/ id \in transcript
      PROVE  \E q \in RecordsOf(id)' : q.notifyError \/ id \in transcript'
  <2>1. transcript \subseteq transcript'
    BY <1>0, HistoryGrows
  <2>2. CASE r \in RecordsOf(id)'
    BY <1>3, <2>1, <2>2
  <2>3. CASE StoreNotificationResult /\ id = CurID /\ disk[cur].pendingNotification # "none"
    <3>1. /\ disk'[cur].pendingRun \in RecordsOf(id)'
          /\ disk'[cur].pendingRun.notifyError = (pc = "archiveUndelivered")
      BY <1>0, <2>3, SettledRecord
    <3>2. pc \in {"archive", "archiveUndelivered"}
      BY <1>0, <2>3, SettleStep
    <3>3. pc = "archive" => id \in transcript
      BY <1>0, <2>3 DEF DeliverySound, NotePlaced, DeliveredSent
    <3>4. QED BY <2>1, <3>1, <3>2, <3>3
  <2>4. QED BY <1>0, <1>3, <2>2, <2>3, RecordsKept
<1>4. QED BY <1>0, <1>1, <1>2, <1>3 DEF IntentNeverLost

LEMMA RecordedStep == DInv /\ [Next]_vars => RecordedWasDelivered'
<1> SUFFICES ASSUME DInv, [Next]_vars, NEW CONSTANT id, id \in transcript' PROVE sent'[id] > 0
    BY DEF RecordedWasDelivered
<1>0. IInv /\ DeliverySound /\ RecordedWasDelivered
    BY DEF DInv, NotificationsAreTrue
<1>1. CASE id \in transcript
    BY <1>0, <1>1, HistoryGrows DEF RecordedWasDelivered
<1>2. CASE id \notin transcript
  <2>1. RecordDelivered
    BY <1>0, <1>2, DurableSteps DEF OnStore, MarkNotificationDelivered, PersistCompletion,
       StoreNotificationResult
  <2>2. id = CurID /\ cur \in DOMAIN disk /\ pc = "recording" /\ sent' = sent
    BY <1>0, <1>2, <2>1, RecordStep
  <2>3. QED BY <1>0, <2>2 DEF DeliverySound, NotePlaced, DeliveredSent, CurID
<1>3. QED BY <1>1, <1>2

(* A latch that suppresses notifications was set before, or is set now     *)
(* with the result of a delivered one.                                     *)
LEMMA LatchOrigin ==
    ASSUME IInv, [Next]_vars, NEW CONSTANT k, k \in DOMAIN disk', disk'[k].unavailableNotified
    PROVE  \/ k \in DOMAIN disk /\ disk[k].unavailableNotified
           \/ /\ StoreNotificationResult /\ k = cur /\ k \in DOMAIN disk
              /\ disk[cur].pendingNotification # "none" /\ pc = "archive"
              /\ disk[cur].pendingRun.status = "model_unavailable"
<1> DEFINE Before == k \in DOMAIN disk /\ disk[k].unavailableNotified
<1>1. CASE UNCHANGED disk
    BY <1>1
<1>2. ASSUME NEW j \in Jobs, NEW x, NewFile(j, x) PROVE Before
    BY <1>2 DEF NewFile, Put
<1>3. ASSUME NEW j \in Jobs, NEW x, Edited(j, x) PROVE Before
    BY <1>3 DEF Edited, Put
<1>4. ASSUME NEW j \in Jobs, Removed(j) PROVE Before
    BY <1>4 DEF Removed, Drop
<1>5. ASSUME NEW j \in Jobs, Taken(j) PROVE Before
  <2>1. disk[j] \in JobRecords
    BY <1>5, FilesAreOK DEF FileOK, JobSound, Taken
  <2>2. Claimed(disk[j]).unavailableNotified = disk[j].unavailableNotified
    BY <2>1 DEF Claimed, JobRecords
  <2>3. QED BY <1>5, <2>2 DEF Taken, Put
<1>6. ASSUME NEW j \in Jobs, Cleared(j) PROVE Before
  <2>1. disk[j] \in JobRecords
    BY <1>6, FilesAreOK DEF FileOK, JobSound, Cleared
  <2>2. QED BY <1>6, <2>1 DEF Cleared, Put, Drop, JobRecords
<1>7. ASSUME NEW j \in Jobs, Abandons(j) PROVE Before
  <2>1. disk[j] \in JobRecords
    BY <1>7, FilesAreOK DEF FileOK, JobSound, Abandons
  <2>2. Interrupted(j).unavailableNotified = FALSE
    BY <2>1 DEF Interrupted, JobRecords
  <2>3. QED BY <1>7, <2>2 DEF Abandons, Put
<1>8. CASE PersistCompletion
  <2>1. PICK x : PersistedFile(x)
    BY <1>8, PersistStep
  <2>2. QED BY <1>8, <2>1, PersistStep DEF PersistedFile, Put
<1>9. CASE MarkNotificationDelivered
    BY <1>9, MarkStep DEF Put, JobRecords
<1>10. CASE StoreNotificationResult
  <2>1. /\ disk' = Put(disk, cur, Settled(disk[cur], pc = "archiveUndelivered"))
        /\ cur \in DOMAIN disk /\ pc \in {"archive", "archiveUndelivered"}
    BY <1>10, SettleStep
  <2>2. CASE k # cur
    BY <2>1, <2>2 DEF Put
  <2>3. CASE k = cur /\ disk[cur].pendingNotification = "none"
    BY <2>1, <2>3 DEF Put, Settled
  <2>4. CASE k = cur /\ disk[cur].pendingNotification # "none"
    <3>1. \/ disk[cur].unavailableNotified
          \/ pc # "archiveUndelivered" /\ disk[cur].pendingRun.status = "model_unavailable"
      BY <1>10, <2>4, SettledRecord
    <3>2. QED BY <1>10, <2>1, <2>4, <3>1
  <2>5. QED BY <2>2, <2>3, <2>4
<1>11. CASE RecordDelivered
    BY <1>1, <1>11, RecordStep
<1>12. QED
    BY <1>1, <1>2, <1>3, <1>4, <1>5, <1>6, <1>7, <1>8, <1>9, <1>10, <1>11, DurableSteps
    DEF OnStore, OnFile

LEMMA SuppressionStep == DInv /\ [Next]_vars => SuppressionWasEarned'
<1> SUFFICES ASSUME DInv, [Next]_vars, NEW CONSTANT j, j \in DOMAIN disk', disk'[j].unavailableNotified
             PROVE  \E id \in transcript' :
                        id[1] = j /\ \E r \in RecordsOf(id)' : r.status = "model_unavailable"
    BY DEF SuppressionWasEarned
<1>0. IInv /\ DeliverySound /\ SuppressionWasEarned /\ transcript \subseteq transcript'
    BY HistoryGrows DEF DInv, NotificationsAreTrue
<1>1. CASE j \in DOMAIN disk /\ disk[j].unavailableNotified
  <2>1. PICK id \in transcript :
            id[1] = j /\ \E r \in RecordsOf(id) : r.status = "model_unavailable"
    BY <1>0, <1>1 DEF SuppressionWasEarned
  <2>2. PICK r \in RecordsOf(id) : r.status = "model_unavailable"
    BY <2>1
  <2>3. \E q \in RecordsOf(id)' : q.status = "model_unavailable"
    BY <1>0, <2>2, RecordsKept
  <2>4. QED BY <1>0, <2>1, <2>3
<1>2. CASE /\ StoreNotificationResult /\ j = cur /\ j \in DOMAIN disk
           /\ disk[cur].pendingNotification # "none" /\ pc = "archive"
           /\ disk[cur].pendingRun.status = "model_unavailable"
  <2>1. PICK id : id = CurID
    OBVIOUS
  <2>2. id \in transcript /\ id[1] = j
    BY <1>0, <1>2, <2>1, FilesAreOK DEF DeliverySound, NotePlaced, DeliveredSent, CurID, RunID, FileOK, JobSound
  <2>3. \E q \in RecordsOf(id)' : q.status = "model_unavailable"
    BY <1>0, <1>2, <2>1, SettledRecord
  <2>4. QED BY <1>0, <2>2, <2>3
<1>3. QED BY <1>0, <1>1, <1>2, LatchOrigin

-----------------------------------------------------------------------------
(* The steps as the notification sees them: the scheduler goroutine stays  *)
(* where it is, or goes where no notification is in progress, or takes one *)
(* of the steps of finalizePendingRun.                                     *)
Elsewhere == {"loop", "sleep", "stopped", "down", "boot", "inconsistent", "claimed", "executing",
              "append", "clear"}

Rests ==
    /\ UNCHANGED <<pc, cur, run, transcript>> /\ (pc \in Busy => disk'[cur] = disk[cur])
    /\ UNCHANGED <<outq, inflight, ack>> \/ (OutboundWorker /\ UNCHANGED disk)

Leaves ==
    \/ pc' \in Elsewhere /\ pc # "awaiting" /\ UNCHANGED <<outq, inflight, ack>>
    \/ ProcessGone

LEMMA CallRests == IInv /\ Call => Rests
<1> SUFFICES ASSUME IInv, Call PROVE Rests
    OBVIOUS
<1>1. UNCHANGED <<pc, cur, run, transcript, outq, inflight, ack>>
    BY CallFrame
<1>2. ASSUME pc \in Busy PROVE disk'[cur] = disk[cur]
  <2>1. cur \in running /\ cur \in DOMAIN disk /\ cur \in issued
    BY <1>2, BusyFacts DEF IInv, TypeOK, StoreTypeOK
  <2>2. PICK j \in Jobs :
            \/ \E s \in Schedules, n \in BOOLEAN, t \in 1 .. MaxTime : Create(j, s, n, t)
            \/ \E r \in BOOLEAN, s \in Schedules, m \in BOOLEAN, n \in BOOLEAN : Update(j, r, s, m, n)
            \/ Delete(j)
    BY DEF Call
  <2>3. ASSUME NEW s, NEW n, NEW t, Create(j, s, n, t) PROVE disk'[cur] = disk[cur]
    BY <2>1, <2>3 DEF Create, StoreJob, Put
  <2>4. ASSUME NEW r, NEW s, NEW m, NEW n, Update(j, r, s, m, n) PROVE disk'[cur] = disk[cur]
    <3>1. j # cur /\ \E x : disk' = Put(disk, j, x)
      BY <2>1, <2>4 DEF Update, Mutable, StoreJob
    <3>2. QED BY <2>1, <3>1 DEF Put
  <2>5. ASSUME Delete(j) PROVE disk'[cur] = disk[cur]
    BY <2>1, <2>5 DEF Delete, Mutable, DeleteJob, Drop
  <2>6. QED BY <2>2, <2>3, <2>4, <2>5
<1>3. QED BY <1>1, <1>2 DEF Rests

LEMMA NoteSteps ==
    ASSUME IInv, [Next]_vars
    PROVE  \/ Rests \/ Leaves \/ ResumePendingNotification \/ (\E o \in Outcomes : ExecuteReturns(o))
           \/ PersistCompletion \/ Publish \/ PublishTimesOut \/ PublishAnswered
           \/ MarkNotificationDelivered \/ RecordDelivered
<1>1. CASE RunReturns \/ ClaimNextDue \/ GoToSleep \/ WakeUp \/ TimerFires \/ Execute
    BY <1>1 DEF Leaves, Elsewhere, outbound, RunReturns, ClaimNextDue, GoToSleep, WakeUp, TimerFires, Execute
<1>2. CASE \/ RecordInterrupted \/ StoreNotificationResult \/ AppendRunRecord \/ ClearPendingRun
           \/ WriteRefused \/ WriteFails
    BY <1>2 DEF Leaves, Elsewhere, outbound, RecordInterrupted, StoreNotificationResult, AppendRunRecord,
       ClearPendingRun, WriteRefused, WriteFails, FatalError
<1>3. CASE Exit \/ Crash
    BY <1>3 DEF Exit, Crash, Leaves
<1>4. CASE Reconcile
    BY <1>4 DEF Reconcile, Leaves, Elsewhere, outbound, Boot, BootDone, BootKeep, BootInterrupt, BootAppend,
       BootClear, BootReject, BootFinishing, NextLoaded
<1>5. CASE OutboundWorker
    BY <1>5 DEF OutboundWorker, Rests, OutboundTake, OutboundDeliver, local
<1>6. CASE Stop \/ PersistDeadline \/ Tick \/ UNCHANGED vars
    BY <1>6 DEF Rests, Stop, PersistDeadline, Tick, vars, local, outbound
<1>7. QED BY <1>1, <1>2, <1>3, <1>4, <1>5, <1>6, CallRests DEF Next, RunLoop, Fault

(* The marker of a file is that of its job's latest run. *)
LEMMA MarkerID ==
    ASSUME IInv, NEW j \in DOMAIN disk, disk[j].pendingRun # NoRun
    PROVE  /\ disk[j].pendingRun \in RunRecords
           /\ RunID(disk[j].pendingRun) = <<j, disk[j].lastRunAt>>
           /\ RunID(disk[j].pendingRun) \in RunIDs
<1>1. JobSound(j, disk[j]) /\ j \in Jobs /\ disk[j] \in JobRecords
    BY FilesAreOK DEF FileOK, JobSound, IInv, TypeOK, StoreTypeOK
<1>2. disk[j].pendingRun \in RunRecords /\ RunID(disk[j].pendingRun) = <<j, disk[j].lastRunAt>>
    BY <1>1 DEF JobSound, JobRecords, RunID
<1>3. disk[j].lastRunAt \in Times
    BY <1>1, BoundsAssumption DEF JobSound, JobRecords, Times, IInv, TypeOK, CountersTypeOK
<1>4. QED BY <1>1, <1>2, <1>3 DEF RunIDs

(* The job at work while its run is finalized. *)
LEMMA CurFacts ==
    ASSUME IInv, pc \in Finalizing
    PROVE  cur \in DOMAIN disk /\ disk[cur].pendingRun # NoRun /\ CurID \in RunIDs
<1>1. cur \in DOMAIN disk /\ disk[cur].pendingRun # NoRun
    BY DEF IInv, StepSound, Busy
<1>2. QED BY <1>1, MarkerID DEF CurID

(* ResumePendingNotification takes up a job whose file is the table's. *)
LEMMA ResumeStep ==
    ASSUME IInv, ResumePendingNotification
    PROVE  /\ pc = "loop" /\ cur' \in DOMAIN disk /\ pc' = FinalizeStep(disk[cur'])
           /\ disk[cur'].pendingNotification \in {"intent", "delivered"}
           /\ UNCHANGED <<disk, archive, transcript, run, outq, inflight, ack, sent>>
<1>1. PICK j \in PendingNotifications : cur' = j /\ pc' = FinalizeStep(mem[j])
    BY DEF ResumePendingNotification
<1>2. pc = "loop" /\ UNCHANGED <<disk, archive, transcript, run, outq, inflight, ack, sent>>
    BY DEF ResumePendingNotification, outbound, history
<1>3. j \in DOMAIN disk /\ mem[j] = disk[j] /\ mem[j].pendingNotification # "none"
    BY <1>1, <1>2 DEF PendingNotifications, IInv, TableSound, Serving, Locked
<1>4. disk[j].pendingNotification \in Intents
    BY <1>3, FilesAreOK DEF FileOK, JobSound, JobRecords
<1>5. QED BY <1>1, <1>2, <1>3, <1>4 DEF Intents

LEMMA PlacedStep == DInv /\ [Next]_vars => NotePlaced'
<1> SUFFICES ASSUME DInv, [Next]_vars PROVE NotePlaced'
    OBVIOUS
<1>0. IInv /\ NotePlaced
    BY DEF DInv, DeliverySound
<1>1. CASE Rests
    BY <1>0, <1>1 DEF Rests, NotePlaced, CurID, Busy, Finalizing
<1>2. CASE Leaves
    BY <1>2 DEF Leaves, Elsewhere, ProcessGone, NotePlaced
<1>3. CASE ResumePendingNotification
    BY <1>0, <1>3, ResumeStep DEF NotePlaced, FinalizeStep
<1>4. CASE \E o \in Outcomes : ExecuteReturns(o)
    BY <1>4 DEF ExecuteReturns, NotePlaced
<1>5. CASE PersistCompletion
  <2>1. PICK x : PersistedFile(x)
    BY <1>0, <1>5, PersistStep
  <2>2. cur \in DOMAIN disk /\ cur' = cur
    BY <1>0, <1>5, PersistStep DEF PersistCompletion
  <2>3. disk'[cur].pendingNotification = x.pendingNotification /\ pc' = FinalizeStep(x)
    BY <2>1, <2>2 DEF PersistedFile, Put
  <2>4. QED BY <2>1, <2>2, <2>3 DEF PersistedFile, NotePlaced, FinalizeStep
<1>6. CASE Publish \/ PublishTimesOut \/ PublishAnswered
    BY <1>0, <1>6 DEF Publish, PublishTimesOut, PublishAnswered, DeliveryFailed, NotePlaced, local
<1>7. CASE MarkNotificationDelivered
    BY <1>0, <1>7, MarkStep DEF NotePlaced, Put, JobRecords
<1>8. CASE RecordDelivered
    BY <1>0, <1>8, RecordStep DEF NotePlaced, CurID
<1>9. QED BY <1>0, <1>1, <1>2, <1>3, <1>4, <1>5, <1>6, <1>7, <1>8, NoteSteps

LEMMA AnswerStep == DInv /\ [Next]_vars => AnswerTrue'
<1> SUFFICES ASSUME DInv, [Next]_vars, pc' = "marking" \/ ack' = "ok" PROVE sent'[CurID'] > 0
    BY DEF AnswerTrue
<1>0. IInv /\ AnswerTrue /\ QueueSound
    BY DEF DInv, DeliverySound
<1>1. ack # "none" => pc = "awaiting"
    BY <1>0 DEF QueueSound, AnswerIsLast
<1>2. ASSUME pc \in {"marking", "awaiting"}, UNCHANGED cur, disk'[cur] = disk[cur],
             pc = "marking" \/ ack = "ok"
      PROVE  sent'[CurID'] > 0
  <2>1. CurID' = CurID /\ CurID \in RunIDs
    BY <1>0, <1>2, CurFacts DEF Finalizing, CurID
  <2>2. sent[CurID] > 0 /\ sent'[CurID] >= sent[CurID] /\ sent[CurID] \in Nat /\ sent'[CurID] \in Nat
    BY <1>0, <1>2, <2>1, HistoryGrows DEF AnswerTrue
  <2>3. QED BY <2>1, <2>2
<1>3. CASE Rests
  <2>1. CASE UNCHANGED ack
    BY <1>1, <1>2, <1>3, <2>1 DEF Rests, Busy, Finalizing
  <2>2. ASSUME NEW d \in DeliveryResults, OutboundDeliver(d), ack' # ack PROVE sent'[CurID'] > 0
    <3>1. inflight # <<>> /\ inflight[1].live /\ UNCHANGED <<pc, cur, disk>>
      BY <1>3, <2>2 DEF OutboundDeliver, local
    <3>2. pc = "awaiting" /\ ack = "none" /\ inflight[1].id = CurID
      BY <1>0, <3>1 DEF QueueSound, LastIsLive, Awaited
    <3>3. ack' = "ok" /\ d = "sent" /\ sent' = [sent EXCEPT ![CurID] = @ + 1]
      BY <2>2, <3>1, <3>2 DEF OutboundDeliver, Answer, DeliveryResults
    <3>4. CurID' = CurID /\ CurID \in RunIDs /\ sent \in [RunIDs -> Nat]
      BY <1>0, <3>1, <3>2, CurFacts DEF Finalizing, CurID, IInv, TypeOK, CountersTypeOK
    <3>5. QED BY <3>3, <3>4
  <2>3. QED BY <1>3, <2>1, <2>2 DEF Rests, OutboundWorker, OutboundTake
<1>4. CASE Leaves
    BY <1>1, <1>4 DEF Leaves, Elsewhere, ProcessGone
<1>5. CASE ResumePendingNotification
    BY <1>0, <1>1, <1>5, ResumeStep DEF FinalizeStep
<1>6. CASE \E o \in Outcomes : ExecuteReturns(o)
    BY <1>1, <1>6 DEF ExecuteReturns, outbound
<1>7. CASE PersistCompletion
  <2>1. PICK x : PersistedFile(x)
    BY <1>0, <1>7, PersistStep
  <2>2. pc' # "marking" /\ ack' = ack /\ pc = "executed"
    BY <1>7, <2>1 DEF PersistedFile, FinalizeStep, PersistCompletion, outbound
  <2>3. QED BY <1>1, <2>2
<1>8. CASE Publish \/ PublishTimesOut
    BY <1>8 DEF Publish, PublishTimesOut, DeliveryFailed
<1>9. CASE PublishAnswered
    BY <1>2, <1>9 DEF PublishAnswered, DeliveryFailed
<1>10. CASE MarkNotificationDelivered
    BY <1>0, <1>1, <1>10, MarkStep
<1>11. CASE RecordDelivered
    BY <1>0, <1>1, <1>11, RecordStep
<1>12. QED BY <1>0, <1>3, <1>4, <1>5, <1>6, <1>7, <1>8, <1>9, <1>10, <1>11, NoteSteps

LEMMA DeliveredStep == DInv /\ [Next]_vars => DeliveredSent'
<1> SUFFICES ASSUME DInv, [Next]_vars, NEW CONSTANT k, k \in DOMAIN disk',
                    disk'[k].pendingNotification = "delivered"
             PROVE  sent'[RunID(disk'[k].pendingRun)] > 0
    BY DEF DeliveredSent
<1>0. IInv /\ AnswerTrue /\ DeliveredSent
    BY DEF DInv, DeliverySound
<1>1. /\ k \in DOMAIN disk /\ disk'[k].pendingRun = disk[k].pendingRun
      /\ \/ disk[k].pendingNotification = "delivered"
         \/ MarkNotificationDelivered /\ k = cur
    BY <1>0, NoteOrigin
<1>2. disk[k].pendingRun # NoRun /\ sent[RunID(disk[k].pendingRun)] > 0
  <2>1. CASE disk[k].pendingNotification = "delivered"
    BY <1>0, <1>1, <2>1, FilesAreOK DEF DeliveredSent, FileOK, JobSound
  <2>2. CASE MarkNotificationDelivered /\ k = cur
    BY <1>0, <2>2, MarkStep DEF AnswerTrue, CurID
  <2>3. QED BY <1>1, <2>1, <2>2
<1>3. PICK id : id = RunID(disk[k].pendingRun)
    OBVIOUS
<1>4. id \in RunIDs
    BY <1>0, <1>1, <1>2, <1>3, MarkerID
<1>5. sent[id] \in Nat /\ sent'[id] \in Nat /\ sent'[id] >= sent[id]
    BY <1>0, <1>4, HistoryGrows
<1>6. QED BY <1>1, <1>2, <1>3, <1>5

LEMMA NoErrorStep == DInv /\ [Next]_vars => NoErrorYet'
<1> SUFFICES ASSUME DInv, [Next]_vars PROVE NoErrorYet'
    OBVIOUS
<1>0. IInv /\ NoErrorYet
    BY DEF DInv, DeliverySound
<1>1. ASSUME pc' = "executed" PROVE ~run'.notifyError
  <2>1. CASE Rests
    BY <1>0, <1>1, <2>1 DEF Rests, NoErrorYet
  <2>2. CASE \E o \in Outcomes : ExecuteReturns(o)
    BY <2>2 DEF ExecuteReturns
  <2>3. CASE PersistCompletion
    <3>1. PICK x : PersistedFile(x)
      BY <1>0, <2>3, PersistStep
    <3>2. QED BY <1>1, <3>1 DEF PersistedFile, FinalizeStep
  <2>4. CASE ResumePendingNotification
    BY <1>0, <1>1, <2>4, ResumeStep DEF FinalizeStep
  <2>5. CASE Leaves \/ Publish \/ PublishTimesOut \/ PublishAnswered
    BY <1>1, <2>5 DEF Leaves, Elsewhere, ProcessGone, Publish, PublishTimesOut, PublishAnswered, DeliveryFailed
  <2>6. CASE MarkNotificationDelivered \/ RecordDelivered
    BY <1>0, <1>1, <2>6, MarkStep, RecordStep
  <2>7. QED BY <1>0, <2>1, <2>2, <2>3, <2>4, <2>5, <2>6, NoteSteps
<1>2. ASSUME NEW CONSTANT k, k \in DOMAIN disk', disk'[k].pendingNotification # "none"
      PROVE  ~disk'[k].pendingRun.notifyError
  <2>1. CASE PersistCompletion /\ disk'[k].pendingRun = run
    BY <1>0, <2>1 DEF PersistCompletion, NoErrorYet
  <2>2. CASE /\ k \in DOMAIN disk /\ disk'[k].pendingRun = disk[k].pendingRun
             /\ disk[k].pendingNotification # "none"
    BY <1>0, <2>2 DEF NoErrorYet
  <2>3. CASE MarkNotificationDelivered /\ k = cur
    <3>1. disk[cur].pendingNotification # "none" /\ cur \in DOMAIN disk
      BY <1>0, <2>3, MarkStep DEF DInv, DeliverySound, NotePlaced
    <3>2. disk'[cur].pendingRun = disk[cur].pendingRun
      BY <1>0, <2>3, MarkStep DEF Put, JobRecords
    <3>3. QED BY <1>0, <2>3, <3>1, <3>2 DEF NoErrorYet
  <2>4. QED BY <1>0, <1>2, <2>1, <2>2, <2>3, NoteOrigin
<1>3. QED BY <1>1, <1>2 DEF NoErrorYet

(* What the steps do to the bus. *)
BusKept == UNCHANGED <<outq, inflight, ack>>

LEMMA BusSteps ==
    ASSUME DInv, [Next]_vars
    PROVE  \/ BusKept /\ pc' = pc /\ (pc = "awaiting" => CurID' = CurID)
           \/ BusKept /\ pc # "awaiting" /\ pc' # "awaiting" /\ pc' # "marking"
           \/ outq' = <<>> /\ inflight' = <<>> /\ ack' = "none"
           \/ /\ OutboundTake \/ \E d \in DeliveryResults : OutboundDeliver(d)
              /\ UNCHANGED <<disk, pc, cur>>
           \/ Publish \/ PublishTimesOut
<1>0. IInv /\ QueueSound
    BY DEF DInv
<1>1. CASE Rests
    BY <1>1 DEF Rests, BusKept, OutboundWorker, Busy, Finalizing, CurID
<1>2. CASE Leaves
    BY <1>2 DEF Leaves, Elsewhere, ProcessGone, BusKept
<1>3. CASE ResumePendingNotification
    BY <1>0, <1>3, ResumeStep DEF FinalizeStep, BusKept
<1>4. CASE \E o \in Outcomes : ExecuteReturns(o)
    BY <1>4 DEF ExecuteReturns, BusKept, outbound
<1>5. CASE PersistCompletion
  <2>1. PICK x : PersistedFile(x)
    BY <1>0, <1>5, PersistStep
  <2>2. pc' # "marking" /\ pc' # "awaiting" /\ BusKept /\ pc = "executed"
    BY <1>5, <2>1 DEF PersistedFile, FinalizeStep, PersistCompletion, outbound, BusKept
  <2>3. QED BY <2>2
<1>6. CASE PublishAnswered
    BY <1>0, <1>6 DEF PublishAnswered, QueueSound, AnswerIsLast
<1>7. CASE MarkNotificationDelivered
    BY <1>0, <1>7, MarkStep DEF BusKept
<1>8. CASE RecordDelivered
    BY <1>0, <1>8, RecordStep DEF BusKept
<1>9. QED BY <1>0, <1>1, <1>2, <1>3, <1>4, <1>5, <1>6, <1>7, <1>8, NoteSteps

LEMMA QueueTypes ==
    ASSUME IInv
    PROVE  /\ outq \in Seq(Requests) /\ inflight \in Seq(Requests) /\ Len(outq) \in Nat
           /\ \A i \in 1 .. Len(outq) : outq[i] \in Requests /\ outq[i].id \in RunIDs
           /\ \A i \in 1 .. Len(inflight) : inflight[i] \in Requests /\ inflight[i].id \in RunIDs
<1>1. outq \in Seq(Requests) /\ inflight \in Seq(Requests)
    BY DEF IInv, TypeOK, BusTypeOK
<1>2. \A q \in Requests : q.id \in RunIDs
    BY DEF Requests
<1>3. QED BY <1>1, <1>2

LEMMA TakeStep ==
    ASSUME DInv, OutboundTake
    PROVE  /\ inflight = <<>> /\ outq # <<>> /\ inflight' = <<outq[1]>> /\ UNCHANGED ack
           /\ Len(outq') = Len(outq) - 1 /\ \A i \in 1 .. Len(outq') : outq'[i] = outq[i + 1]
           /\ Len(outq') = 0 => outq' = <<>>
<1>1. outq \in Seq(Requests)
    BY QueueTypes DEF DInv
<1>2. QED BY <1>1 DEF OutboundTake

LEMMA AbandonedQueue ==
    ASSUME NEW q \in Seq(Requests)
    PROVE  /\ Abandoned(q) \in Seq(Requests) /\ Len(Abandoned(q)) = Len(q)
           /\ \A i \in 1 .. Len(q) : Abandoned(q)[i].id = q[i].id /\ ~Abandoned(q)[i].live
<1>1. DOMAIN Abandoned(q) = 1 .. Len(q) /\ Len(q) \in Nat
    BY DEF Abandoned
<1>2. ASSUME NEW i \in 1 .. Len(q)
      PROVE  Abandoned(q)[i].id = q[i].id /\ ~Abandoned(q)[i].live /\ Abandoned(q)[i] \in Requests
  <2>1. q[i] \in Requests
    OBVIOUS
  <2>2. Abandoned(q)[i] = [q[i] EXCEPT !.live = FALSE]
    BY i \in DOMAIN q DEF Abandoned
  <2>3. QED BY <2>1, <2>2 DEF Requests
<1>3. Abandoned(q) = [i \in 1 .. Len(q) |-> Abandoned(q)[i]]
    BY DEF Abandoned
<1>4. Abandoned(q) \in Seq(Requests) /\ Len(Abandoned(q)) = Len(q)
    BY <1>1, <1>2, <1>3
<1>5. QED BY <1>2, <1>4

LEMMA LiveStep == DInv /\ [Next]_vars => LastIsLive'
<1> SUFFICES ASSUME DInv, [Next]_vars PROVE LastIsLive'
    OBVIOUS
<1>0. IInv /\ LastIsLive /\ AnswerIsLast
    BY DEF DInv, QueueSound
<1>1. CASE BusKept /\ pc' = pc /\ (pc = "awaiting" => CurID' = CurID)
    BY <1>0, <1>1 DEF LastIsLive, Awaited, BusKept
<1>2. CASE BusKept /\ pc # "awaiting"
    BY <1>0, <1>2 DEF LastIsLive, Awaited, BusKept
<1>3. CASE outq' = <<>> /\ inflight' = <<>>
    BY <1>3 DEF LastIsLive
<1>4. CASE OutboundTake /\ UNCHANGED <<disk, pc, cur>>
  <2>1. CurID' = CurID
    BY <1>4 DEF CurID
  <2>2. Len(outq) \in Nat /\ outq # <<>> /\ Len(outq) # 0
    BY <1>0, <1>4, QueueTypes, TakeStep
  <2>3. Awaited(outq[1]) /\ (outq[1].live => 1 = Len(outq))
    <3>1. 1 \in 1 .. Len(outq)
      BY <2>2
    <3>2. QED BY <1>0, <3>1 DEF LastIsLive
  <2>4. /\ Awaited(inflight[1])' /\ Len(inflight') = 1 /\ (inflight'[1].live => outq' = <<>>)
    BY <1>4, <2>1, <2>2, <2>3, TakeStep DEF Awaited
  <2>5. ASSUME NEW i \in 1 .. Len(outq') PROVE Awaited(outq[i])' /\ (outq'[i].live => i = Len(outq'))
    <3>1. i + 1 \in 1 .. Len(outq) /\ outq'[i] = outq[i + 1]
      BY <1>4, <2>2, TakeStep
    <3>2. Awaited(outq[i + 1]) /\ (outq[i + 1].live => i + 1 = Len(outq))
      BY <1>0, <3>1 DEF LastIsLive
    <3>3. QED BY <1>4, <2>1, <2>2, <3>1, <3>2, TakeStep DEF Awaited
  <2>6. QED BY <2>4, <2>5 DEF LastIsLive
<1>5. ASSUME NEW d \in DeliveryResults, OutboundDeliver(d), UNCHANGED <<disk, pc, cur>> PROVE LastIsLive'
  <2>1. CurID' = CurID /\ inflight' = <<>> /\ outq' = outq
    BY <1>5 DEF CurID, OutboundDeliver
  <2>2. CASE inflight[1].live
    BY <1>0, <1>5, <2>1, <2>2 DEF LastIsLive, OutboundDeliver
  <2>3. CASE ~inflight[1].live
    BY <1>0, <1>5, <2>1, <2>3 DEF LastIsLive, OutboundDeliver, Awaited
  <2>4. QED BY <2>2, <2>3
<1>6. CASE Publish
  <2>1. /\ pc = "publishing" /\ UNCHANGED <<disk, cur, inflight>> /\ pc' = "awaiting" /\ ack' = "none"
        /\ outq' = Append(outq, [id |-> RunID(mem[cur].pendingRun), live |-> TRUE])
    BY <1>6 DEF Publish, local
  <2>2. mem[cur] = disk[cur]
    BY <1>0, <2>1, BusyFacts DEF Busy, Finalizing, Locked
  <2>3. RunID(mem[cur].pendingRun) = CurID'
    BY <2>1, <2>2 DEF CurID
  <2>4. \A i \in 1 .. Len(outq) : ~outq[i].live
    BY <1>0, <2>1 DEF LastIsLive, Awaited
  <2>5. inflight = <<>> \/ (Len(inflight) = 1 /\ ~inflight[1].live)
    BY <1>0, <2>1 DEF LastIsLive, Awaited
  <2>6. outq \in Seq(Requests) /\ Len(outq) \in Nat
    BY <1>0, QueueTypes
  <2>7. Len(outq') = Len(outq) + 1 /\ (\A i \in 1 .. Len(outq) : outq'[i] = outq[i])
    BY <2>1, <2>6
  <2>8. outq'[Len(outq) + 1] = [id |-> CurID', live |-> TRUE]
    BY <2>1, <2>3, <2>6
  <2>9. QED BY <2>1, <2>4, <2>5, <2>6, <2>7, <2>8 DEF LastIsLive, Awaited
<1>7. CASE PublishTimesOut
  <2>1. outq' = Abandoned(outq) /\ inflight' = Abandoned(inflight)
    BY <1>7 DEF PublishTimesOut
  <2>2. Len(outq') = Len(outq) /\ \A i \in 1 .. Len(outq') : ~outq'[i].live
    BY <1>0, <2>1, QueueTypes, AbandonedQueue
  <2>3. Len(inflight') = Len(inflight) /\ inflight' \in Seq(Requests) /\ \A i \in 1 .. Len(inflight') : ~inflight'[i].live
    BY <1>0, <2>1, QueueTypes, AbandonedQueue
  <2>4. inflight = <<>> \/ Len(inflight) = 1
    BY <1>0 DEF LastIsLive
  <2>5. inflight' = <<>> \/ (Len(inflight') = 1 /\ ~inflight'[1].live)
    BY <2>3, <2>4
  <2>6. QED BY <2>2, <2>5 DEF LastIsLive, Awaited
<1>8. QED BY <1>1, <1>2, <1>3, <1>4, <1>5, <1>6, <1>7, BusSteps

LEMMA AnswerLastStep == DInv /\ [Next]_vars => AnswerIsLast'
<1> SUFFICES ASSUME DInv, [Next]_vars PROVE AnswerIsLast'
    OBVIOUS
<1>0. IInv /\ LastIsLive /\ AnswerIsLast
    BY DEF DInv, QueueSound
<1>1. CASE BusKept /\ pc' = pc
    BY <1>0, <1>1 DEF AnswerIsLast, BusKept
<1>2. CASE BusKept /\ pc # "awaiting" /\ pc' # "marking"
    BY <1>0, <1>2 DEF AnswerIsLast, BusKept
<1>3. CASE outq' = <<>> /\ inflight' = <<>> /\ ack' = "none"
    BY <1>3 DEF AnswerIsLast
<1>4. CASE OutboundTake /\ UNCHANGED <<disk, pc, cur>>
    BY <1>0, <1>4, TakeStep DEF AnswerIsLast
<1>5. ASSUME NEW d \in DeliveryResults, OutboundDeliver(d), UNCHANGED <<disk, pc, cur>>
      PROVE  AnswerIsLast'
    BY <1>0, <1>5 DEF AnswerIsLast, LastIsLive, Awaited, OutboundDeliver
<1>6. CASE Publish
    BY <1>6 DEF Publish, AnswerIsLast
<1>7. CASE PublishTimesOut
    BY <1>7 DEF PublishTimesOut, DeliveryFailed, AnswerIsLast
<1>8. QED BY <1>1, <1>2, <1>3, <1>4, <1>5, <1>6, <1>7, BusSteps

LEMMA GoneStep == DInv /\ [Next]_vars => DeliveredIsGone'
<1> SUFFICES ASSUME DInv, [Next]_vars, NEW CONSTANT k, k \in DOMAIN disk',
                    disk'[k].pendingNotification = "delivered"
             PROVE  /\ \A i \in 1 .. Len(outq') : outq'[i].id # RunID(disk'[k].pendingRun)
                    /\ \A i \in 1 .. Len(inflight') : inflight'[i].id # RunID(disk'[k].pendingRun)
    BY DEF DeliveredIsGone
<1>0. IInv /\ NotePlaced /\ AnswerIsLast /\ DeliveredIsGone
    BY DEF DInv, QueueSound, DeliverySound
<1>1. CASE MarkNotificationDelivered
    BY <1>0, <1>1, MarkStep DEF AnswerIsLast
<1>2. CASE ~MarkNotificationDelivered
  <2>1. /\ k \in DOMAIN disk /\ disk'[k].pendingRun = disk[k].pendingRun
        /\ disk[k].pendingNotification = "delivered"
    BY <1>0, <1>2, NoteOrigin
  <2>2. PICK id : id = RunID(disk[k].pendingRun)
    OBVIOUS
  <2>3. /\ \A i \in 1 .. Len(outq) : outq[i].id # id
        /\ \A i \in 1 .. Len(inflight) : inflight[i].id # id
    BY <1>0, <2>1, <2>2 DEF DeliveredIsGone
  <2>4. outq \in Seq(Requests) /\ inflight \in Seq(Requests) /\ Len(outq) \in Nat
    BY <1>0, QueueTypes
  <2> SUFFICES /\ \A i \in 1 .. Len(outq') : outq'[i].id # id
               /\ \A i \in 1 .. Len(inflight') : inflight'[i].id # id
    BY <2>1, <2>2
  <2>5. CASE BusKept
    BY <2>3, <2>5 DEF BusKept
  <2>6. CASE outq' = <<>> /\ inflight' = <<>>
    BY <2>6
  <2>7. CASE OutboundTake
    <3>1. Len(outq) # 0 /\ 1 \in 1 .. Len(outq)
      BY <2>4, <2>7, TakeStep
    <3>2. \A i \in 1 .. Len(outq') : i + 1 \in 1 .. Len(outq)
      BY <2>4, <2>7, TakeStep
    <3>3. inflight' = <<outq[1]>> /\ \A i \in 1 .. Len(outq') : outq'[i] = outq[i + 1]
      BY <2>7, TakeStep
    <3>4. \A i \in 1 .. Len(inflight') : inflight'[i] = outq[1]
      BY <3>3
    <3>5. QED BY <2>3, <3>1, <3>2, <3>3, <3>4
  <2>8. ASSUME NEW d \in DeliveryResults, OutboundDeliver(d)
        PROVE  outq' = outq /\ inflight' = <<>>
    BY <2>8 DEF OutboundDeliver
  <2>9. CASE Publish
    <3>1. /\ pc = "publishing" /\ inflight' = inflight
          /\ outq' = Append(outq, [id |-> RunID(mem[cur].pendingRun), live |-> TRUE])
      BY <2>9 DEF Publish
    <3>2. mem[cur] = disk[cur] /\ cur \in DOMAIN disk /\ disk[cur].pendingRun # NoRun
      BY <1>0, <3>1, BusyFacts, CurFacts DEF Busy, Finalizing, Locked
    <3>3. disk[k].pendingRun # NoRun /\ k # cur
      BY <1>0, <2>1, <3>1, FilesAreOK DEF NotePlaced, FileOK, JobSound
    <3>4. id[1] = k /\ RunID(mem[cur].pendingRun)[1] = cur
      BY <1>0, <2>1, <2>2, <3>2, <3>3, MarkerID
    <3>5. RunID(mem[cur].pendingRun) # id
      BY <3>3, <3>4
    <3>6. QED BY <2>3, <2>4, <3>1, <3>5
  <2>10. CASE PublishTimesOut
    BY <2>3, <2>4, <2>10, AbandonedQueue DEF PublishTimesOut
  <2>11. QED BY <2>3, <2>5, <2>6, <2>7, <2>8, <2>9, <2>10, BusSteps
<1>3. QED BY <1>1, <1>2

-----------------------------------------------------------------------------
LEMMA InitDInv == Init => DInv
<1> SUFFICES ASSUME Init PROVE DInv
    OBVIOUS
<1>1. DOMAIN disk = {} /\ archive = {} /\ transcript = {} /\ intended = {} /\ pc = "down"
      /\ outq = <<>> /\ inflight = <<>> /\ ack = "none"
    BY DEF Init, NoJobs
<1>2. IInv /\ ArchiveKeyed
    BY <1>1, InitIInv DEF ArchiveKeyed
<1>3. DeliverySound
    BY <1>1 DEF DeliverySound, NotePlaced, AnswerTrue, DeliveredSent, NoErrorYet
<1>4. QueueSound
    BY <1>1 DEF QueueSound, LastIsLive, AnswerIsLast, DeliveredIsGone
<1>5. OnlyUnavailableOneShotsRetry /\ NotificationsAreTrue
    BY <1>1 DEF OnlyUnavailableOneShotsRetry, NotificationsAreTrue, IntentNeverLost,
       RecordedWasDelivered, SuppressionWasEarned
<1>6. QED BY <1>2, <1>3, <1>4, <1>5 DEF DInv

LEMMA DInvStep == DInv /\ [Next]_vars => DInv'
<1> SUFFICES ASSUME DInv, [Next]_vars PROVE DInv'
    OBVIOUS
<1>1. IInv'
    BY IInvStep DEF DInv
<1>2. DeliverySound'
    BY PlacedStep, AnswerStep, DeliveredStep, NoErrorStep DEF DeliverySound
<1>3. QueueSound'
    BY LiveStep, AnswerLastStep, GoneStep DEF QueueSound
<1>4. NotificationsAreTrue'
    BY IntentStep, RecordedStep, SuppressionStep DEF NotificationsAreTrue
<1>5. QED BY <1>1, <1>2, <1>3, <1>4, KeyedStep, RetryStep DEF DInv

(* The files, the archive, the transcript and the bus tell one story of    *)
(* every notification, whatever is stopped, crashes or fails between two   *)
(* of their writes (executeClaimed to finishPendingRun, NewManager, bus).  *)
THEOREM DeliveryInvariant == Spec => []DInv
BY InitDInv, DInvStep, PTL DEF Spec

(* A one-shot is armed again only by an unavailable model, and the store   *)
(* still holds the record of that run (executeClaimed's retry policy).     *)
THEOREM OnlyUnavailableOneShotsRetryCorrect == Spec => []OnlyUnavailableOneShotsRetry
<1>1. DInv => OnlyUnavailableOneShotsRetry
    BY DEF DInv
<1>2. QED BY DeliveryInvariant, <1>1, PTL

(* No persisted notification intent is lost, what the transcript records   *)
(* was delivered, and unavailable-model notifications are suppressed only  *)
(* after one was delivered and recorded (finalizePendingRun,               *)
(* storeNotificationResult).                                               *)
THEOREM NotificationsAreTrueCorrect == Spec => []NotificationsAreTrue
<1>1. DInv => NotificationsAreTrue
    BY DEF DInv
<1>2. QED BY DeliveryInvariant, <1>1, PTL

(* From the moment DeliveredAt is on disk no step sends that message       *)
(* again: no request of it is left in the bus or with the outbound worker, *)
(* one whose publisher timed out included (markNotificationDelivered,      *)
(* PublishOutboundAndWaitForDelivery).                                     *)
THEOREM AckedNeverResentCorrect == Spec => AckedNeverResent
<1>1. ASSUME DInv, [Next]_vars, NEW j \in DOMAIN disk, disk[j].pendingNotification = "delivered"
      PROVE  sent'[RunID(disk[j].pendingRun)] = sent[RunID(disk[j].pendingRun)]
  <2>1. IInv /\ DeliveredIsGone /\ LastIsLive
    BY <1>1 DEF DInv, QueueSound
  <2>2. sent \in [RunIDs -> Nat]
    BY <2>1 DEF IInv, TypeOK, CountersTypeOK
  <2>3. ASSUME NEW d \in DeliveryResults, OutboundDeliver(d)
        PROVE  sent'[RunID(disk[j].pendingRun)] = sent[RunID(disk[j].pendingRun)]
    <3>1. inflight # <<>> /\ (sent' = sent \/ sent' = [sent EXCEPT ![inflight[1].id] = @ + 1])
      BY <2>3 DEF OutboundDeliver
    <3>2. Len(inflight) = 1
      BY <2>1, <3>1 DEF LastIsLive
    <3>3. inflight[1].id # RunID(disk[j].pendingRun)
      BY <1>1, <2>1, <3>2 DEF DeliveredIsGone
    <3>4. disk[j].pendingRun # NoRun
      BY <1>1, <2>1, FilesAreOK DEF FileOK, JobSound
    <3>5. RunID(disk[j].pendingRun) \in RunIDs
      BY <2>1, <3>4, MarkerID
    <3>6. QED BY <2>2, <3>1, <3>3, <3>5
  <2>4. QED BY <1>1, <2>1, <2>3, SentSteps
<1>2. DInv /\ [Next]_vars =>
          [\A j \in DOMAIN disk :
              disk[j].pendingNotification = "delivered" =>
                  sent'[RunID(disk[j].pendingRun)] = sent[RunID(disk[j].pendingRun)]]_vars
    BY <1>1
<1>3. QED BY DeliveryInvariant, <1>2, PTL DEF Spec, AckedNeverResent

-----------------------------------------------------------------------------
(***************************************************************************)
(* The durable state of the scheduler implements RunLedger: every step     *)
(* that changes it moves exactly one run one step forward in its life, and *)
(* every other step, crashes and restarts included, leaves the ledger as   *)
(* it is.  The proof follows the kinds of change of DurableSteps.          *)
(***************************************************************************)

(* A run whose claim is on disk and whose end is not. *)
Ongoing(id) ==
    /\ id[1] \in DOMAIN disk /\ disk[id[1]].pendingRun = NoRun
    /\ disk[id[1]].lastStatus = "running" /\ disk[id[1]].lastRunAt = id[2]

Undelivered(id) == \E r \in RecordsOf(id) : r.notifyError

(* The ledger's entry of a run stays as it is. *)
Kept(id) ==
    /\ PhaseOf(id)' = PhaseOf(id) /\ StatusIn(id)' = StatusIn(id)
    /\ (Undelivered(id)' <=> Undelivered(id))

OthersKept(id) == \A o \in RunIDs : o # id => Kept(o)

(* The phase of a run, read off the files. *)
PhaseRead(id) ==
    /\ Archived(id) => PhaseOf(id) = "archived"
    /\ ~Archived(id) /\ Marked(id[1], id) =>
          /\ disk[id[1]].pendingNotification = "intent" => PhaseOf(id) = "owed"
          /\ disk[id[1]].pendingNotification = "delivered" => PhaseOf(id) = "acknowledged"
          /\ disk[id[1]].pendingNotification = "none" => PhaseOf(id) = "settled"
    /\ ~Archived(id) /\ Ongoing(id) => PhaseOf(id) = "claimed"
    /\ ~Archived(id) /\ ~Marked(id[1], id) /\ ~Ongoing(id) => PhaseOf(id) = "unclaimed"

LEMMA PhaseFacts == \A id \in RunIDs : PhaseRead(id)
BY DEF PhaseRead, PhaseOf, Ongoing, Marked

LEMMA PhaseFactsNext == (\A id \in RunIDs : PhaseRead(id))'
BY PhaseFacts, PTL

(* The records of a run are in the archive and in the file of its job. *)
RecordsRead(id) ==
    \A r : r \in RecordsOf(id) <=>
              \/ r \in archive /\ RunID(r) = id
              \/ Marked(id[1], id) /\ r = disk[id[1]].pendingRun

LEMMA RecordsFacts == IInv => \A id \in RunIDs : RecordsRead(id)
<1> SUFFICES ASSUME IInv, NEW id \in RunIDs PROVE RecordsRead(id)
    OBVIOUS
<1>1. ASSUME NEW k \in DOMAIN disk, Marked(k, id) PROVE k = id[1]
    BY <1>1, MarkerID DEF Marked
<1>2. Marked(id[1], id) => id[1] \in DOMAIN disk
    BY DEF Marked
<1>3. QED BY <1>1, <1>2 DEF RecordsRead, RecordsOf

LEMMA RecordsFactsNext == IInv' => (\A id \in RunIDs : RecordsRead(id))'
BY RecordsFacts, PTL

LEMMA SameRecords ==
    ASSUME NEW CONSTANT id, RecordsOf(id)' = RecordsOf(id)
    PROVE  StatusIn(id)' = StatusIn(id) /\ (Undelivered(id)' <=> Undelivered(id))
<1>1. StatusesOf(id)' = StatusesOf(id)
    BY DEF StatusesOf
<1>2. QED BY <1>1 DEF StatusIn, Undelivered

(* An entry depends only on the archived records of the run and on what    *)
(* the file of its job says of it.                                         *)
LEMMA ViewKept ==
    ASSUME IInv, IInv', NEW CONSTANT id \in RunIDs,
           \A r : RunID(r) = id => (r \in archive' <=> r \in archive),
           Marked(id[1], id)' <=> Marked(id[1], id), Ongoing(id)' <=> Ongoing(id),
           Marked(id[1], id) =>
              /\ disk'[id[1]].pendingRun = disk[id[1]].pendingRun
              /\ disk'[id[1]].pendingNotification = disk[id[1]].pendingNotification
    PROVE  Kept(id)
<1>1. Archived(id)' <=> Archived(id)
    BY DEF Archived
<1>2. RecordsOf(id)' = RecordsOf(id)
    BY RecordsFacts, RecordsFactsNext DEF RecordsRead
<1>3. Marked(id[1], id) => disk[id[1]].pendingNotification \in Intents
    BY FilesAreOK DEF Marked, FileOK, JobSound, JobRecords
<1>4. PhaseOf(id)' = PhaseOf(id)
    BY <1>1, <1>3, PhaseFacts, PhaseFactsNext DEF PhaseRead, Intents
<1>5. QED BY <1>2, <1>4, SameRecords DEF Kept

LEMMA FileKept ==
    ASSUME IInv, IInv', NEW CONSTANT id \in RunIDs, UNCHANGED archive,
           id[1] \in DOMAIN disk' <=> id[1] \in DOMAIN disk,
           id[1] \in DOMAIN disk => disk'[id[1]] = disk[id[1]]
    PROVE  Kept(id)
<1>1. Marked(id[1], id)' <=> Marked(id[1], id)
    BY DEF Marked
<1>2. Ongoing(id)' <=> Ongoing(id)
    BY DEF Ongoing
<1>3. Marked(id[1], id) => id[1] \in DOMAIN disk
    BY DEF Marked
<1>4. QED BY <1>1, <1>2, <1>3, ViewKept

-----------------------------------------------------------------------------
(* Changes the ledger does not see. *)
LEMMA IdleFileKept ==
    ASSUME IInv, IInv', UNCHANGED archive, NEW CONSTANT j,
           \A k : k # j => /\ k \in DOMAIN disk' <=> k \in DOMAIN disk
                           /\ k \in DOMAIN disk => disk'[k] = disk[k],
           j \in DOMAIN disk => Idle(disk[j]), j \in DOMAIN disk' => Idle(disk'[j])
    PROVE  \A id \in RunIDs : Kept(id)
<1> TAKE id \in RunIDs
<1>1. CASE id[1] # j
    BY <1>1, FileKept
<1>2. CASE id[1] = j
  <2>1. ~Marked(id[1], id) /\ ~Ongoing(id)
    BY <1>2 DEF Marked, Ongoing, Idle
  <2>2. ~Marked(id[1], id)' /\ ~Ongoing(id)'
    BY <1>2 DEF Marked, Ongoing, Idle
  <2>3. QED BY <2>1, <2>2, ViewKept
<1>3. QED BY <1>1, <1>2

LEMMA NewFileKept ==
    ASSUME IInv, IInv', UNCHANGED archive, NEW CONSTANT j \in Jobs, NEW CONSTANT x, NewFile(j, x)
    PROVE  \A id \in RunIDs : Kept(id)
<1>1. j \notin DOMAIN disk
    BY DEF NewFile, IInv, TypeOK, StoreTypeOK
<1>2. Idle(x) /\ disk' = Put(disk, j, x)
    BY DEF NewFile, Idle
<1>3. QED BY <1>1, <1>2, IdleFileKept DEF Put

LEMMA EditedKept ==
    ASSUME IInv, IInv', UNCHANGED archive, NEW CONSTANT j, NEW CONSTANT x, Edited(j, x)
    PROVE  \A id \in RunIDs : Kept(id)
BY IdleFileKept DEF Edited, Put

LEMMA RemovedKept ==
    ASSUME IInv, IInv', UNCHANGED archive, NEW CONSTANT j, Removed(j)
    PROVE  \A id \in RunIDs : Kept(id)
BY IdleFileKept DEF Removed, Drop

LEMMA ClearedKept ==
    ASSUME IInv, IInv', UNCHANGED archive, NEW CONSTANT j, Cleared(j)
    PROVE  \A id \in RunIDs : Kept(id)
<1> TAKE id \in RunIDs
<1>1. /\ j \in DOMAIN disk /\ disk[j].pendingRun # NoRun /\ disk[j].pendingRun \in archive
      /\ disk[j] \in JobRecords /\ disk[j].lastStatus # "running"
    BY FilesAreOK DEF Cleared, FileOK, JobSound
<1>2. /\ \A k : k # j => /\ k \in DOMAIN disk' <=> k \in DOMAIN disk
                         /\ k \in DOMAIN disk => disk'[k] = disk[k]
      /\ j \in DOMAIN disk' => disk'[j].pendingRun = NoRun /\ disk'[j].lastStatus = disk[j].lastStatus
    BY <1>1 DEF Cleared, Put, Drop, JobRecords
<1>3. CASE id[1] # j
    BY <1>2, <1>3, FileKept
<1>4. CASE id[1] = j /\ id # RunID(disk[j].pendingRun)
  <2>1. ~Marked(id[1], id) /\ ~Ongoing(id)
    BY <1>1, <1>4 DEF Marked, Ongoing
  <2>2. ~Marked(id[1], id)' /\ ~Ongoing(id)'
    BY <1>1, <1>2, <1>4 DEF Marked, Ongoing
  <2>3. QED BY <2>1, <2>2, ViewKept
<1>5. CASE id[1] = j /\ id = RunID(disk[j].pendingRun)
  <2>1. Archived(id) /\ Archived(id)'
    BY <1>1, <1>5 DEF Archived
  <2>2. PhaseOf(id)' = PhaseOf(id)
    BY <2>1, PhaseFacts, PhaseFactsNext DEF PhaseRead
  <2>3. ~Marked(id[1], id)'
    BY <1>2, <1>5 DEF Marked
  <2>4. RecordsOf(id)' = RecordsOf(id)
    BY <1>1, <1>5, <2>3, RecordsFacts, RecordsFactsNext DEF RecordsRead
  <2>5. QED BY <2>2, <2>4, SameRecords DEF Kept
<1>6. QED BY <1>3, <1>4, <1>5

-----------------------------------------------------------------------------
(* Changes that move one run.  The ledger's functions, put together from   *)
(* the entry that changes and the entries that do not.                     *)
LEMMA LedgerMoves ==
    ASSUME NEW CONSTANT id \in RunIDs, OthersKept(id), NEW CONSTANT from, NEW CONSTANT to,
           PhaseOf(id) = from, PhaseOf(id)' = to
    PROVE  Ledger!Moves(id, from, to)
BY DEF Ledger!Moves, OthersKept, Kept

LEMMA StatusKept ==
    ASSUME NEW CONSTANT id \in RunIDs, OthersKept(id), StatusIn(id)' = StatusIn(id)
    PROVE  [o \in RunIDs |-> StatusIn(o)]' = [o \in RunIDs |-> StatusIn(o)]
BY DEF OthersKept, Kept

LEMMA FailedKept ==
    ASSUME NEW CONSTANT id \in RunIDs, OthersKept(id), (Undelivered(id)' <=> Undelivered(id))
    PROVE  [o \in RunIDs |-> \E r \in RecordsOf(o) : r.notifyError]'
               = [o \in RunIDs |-> \E r \in RecordsOf(o) : r.notifyError]
<1>1. \A o \in RunIDs : (Undelivered(o)' <=> Undelivered(o))
    BY DEF OthersKept, Kept
<1>2. QED BY <1>1 DEF Undelivered

LEMMA LedgerStutters ==
    ASSUME \A id \in RunIDs : Kept(id)
    PROVE  UNCHANGED Ledger!ledger
<1>1. /\ [o \in RunIDs |-> PhaseOf(o)]' = [o \in RunIDs |-> PhaseOf(o)]
      /\ [o \in RunIDs |-> StatusIn(o)]' = [o \in RunIDs |-> StatusIn(o)]
    BY DEF Kept
<1>2. \A o \in RunIDs : Undelivered(o)' <=> Undelivered(o)
    BY DEF Kept
<1>3. QED BY <1>1, <1>2 DEF Ledger!ledger, Undelivered

(* claimNextDue *)
LEMMA TakenClaims ==
    ASSUME IInv, IInv', UNCHANGED archive, NEW CONSTANT j \in Jobs, Taken(j)
    PROVE  Ledger!Next
<1>1. PICK id : id = <<j, now>>
    OBVIOUS
<1>2. /\ id \in RunIDs /\ id[1] = j /\ id[2] = now /\ now \in Nat
    BY <1>1 DEF RunIDs, Times, IInv, TypeOK, CountersTypeOK
<1>3. /\ j \in DOMAIN disk /\ Idle(disk[j]) /\ disk[j] \in JobRecords /\ ArchiveSound(j, disk[j])
      /\ disk[j].lastRunAt \in Nat /\ disk[j].lastRunAt < now
    BY <1>2, FilesAreOK DEF Taken, FileOK, JobSound, JobRecords
<1>4. /\ j \in DOMAIN disk' /\ disk'[j].pendingRun = NoRun /\ disk'[j].lastStatus = "running"
      /\ disk'[j].lastRunAt = now
      /\ \A k : k # j => /\ k \in DOMAIN disk' <=> k \in DOMAIN disk
                         /\ k \in DOMAIN disk => disk'[k] = disk[k]
  <2>1. /\ Claimed(disk[j]).pendingRun = NoRun /\ Claimed(disk[j]).lastStatus = "running"
        /\ Claimed(disk[j]).lastRunAt = now
    BY <1>3 DEF Claimed, Idle, JobRecords
  <2>2. QED BY <1>3, <2>1 DEF Taken, Put
<1>5. ASSUME NEW CONSTANT o \in RunIDs, o[1] = j
      PROVE  /\ ~Marked(o[1], o) /\ ~Ongoing(o) /\ (Archived(o) => o[2] < now)
             /\ ~Marked(o[1], o)' /\ (Ongoing(o)' <=> o[2] = now)
  <2>1. ~Marked(o[1], o) /\ ~Ongoing(o)
    BY <1>3, <1>5 DEF Idle, Marked, Ongoing
  <2>2. ~Marked(o[1], o)' /\ (Ongoing(o)' <=> o[2] = now)
    BY <1>4, <1>5 DEF Marked, Ongoing
  <2>3. ASSUME NEW r \in archive, RunID(r) = o PROVE o[2] < now
    <3>1. r.job = j /\ r.startedAt = o[2] /\ o[2] \in Nat
      BY <1>5, <2>3 DEF RunID, RunIDs, Times
    <3>2. r.startedAt <= disk[j].lastRunAt
      BY <1>3, <3>1 DEF ArchiveSound
    <3>3. QED BY <1>2, <1>3, <3>1, <3>2
  <2>4. QED BY <2>1, <2>2, <2>3 DEF Archived
<1>6. OthersKept(id)
  <2> SUFFICES ASSUME NEW o \in RunIDs, o # id PROVE Kept(o)
      BY DEF OthersKept
  <2>1. CASE o[1] # j
    BY <1>4, <2>1, FileKept
  <2>2. CASE o[1] = j
    <3>1. o[2] # now
      BY <1>1, <2>2 DEF RunIDs
    <3>2. QED BY <1>5, <2>2, <3>1, ViewKept
  <2>3. QED BY <2>1, <2>2
<1>7. ~Archived(id) /\ ~Archived(id)'
  <2>1. ~Archived(id)
    BY <1>2, <1>5
  <2>2. QED BY <2>1 DEF Archived
<1>8. PhaseOf(id) = "unclaimed" /\ PhaseOf(id)' = "claimed"
    BY <1>2, <1>5, <1>7, PhaseFacts, PhaseFactsNext DEF PhaseRead
<1>9. RecordsOf(id)' = RecordsOf(id)
    BY <1>2, <1>5, RecordsFacts, RecordsFactsNext DEF RecordsRead
<1>10. \A o \in RunIDs : o[1] = id[1] =>
          /\ PhaseOf(o) \in {"unclaimed", "archived"}
          /\ PhaseOf(o) = "archived" => o[2] < id[2]
    BY <1>2, <1>5, PhaseFacts DEF PhaseRead
<1>11. Ledger!Claim(id)
    BY <1>2, <1>6, <1>8, <1>9, <1>10, LedgerMoves, SameRecords, StatusKept, FailedKept
    DEF Ledger!Claim, Ledger!Open
<1>12. QED BY <1>2, <1>11 DEF Ledger!Next

(* What a write of a finished run's marker makes of its ledger entry. *)
LEMMA MarkerCompletes ==
    ASSUME IInv, IInv', UNCHANGED archive, NEW CONSTANT j \in DOMAIN disk, NEW CONSTANT x,
           disk' = Put(disk, j, x), disk[j].pendingRun = NoRun, disk[j].lastStatus = "running",
           x.pendingRun \in RunRecords, RunID(x.pendingRun) = <<j, disk[j].lastRunAt>>,
           ~x.pendingRun.notifyError, x.pendingNotification \in {"none", "intent"}
    PROVE  Ledger!Next
<1>1. PICK id : id = RunID(x.pendingRun)
    OBVIOUS
<1>2. x.pendingRun # NoRun /\ j \in DOMAIN disk' /\ disk'[j] = x
    BY NoRunAssumption DEF Put
<1>3. id \in RunIDs /\ id[1] = j /\ id[2] = disk[j].lastRunAt
  <2>1. JobSound(j, disk[j]) /\ j \in Jobs
    BY FilesAreOK DEF FileOK, IInv, TypeOK, StoreTypeOK
  <2>2. disk[j].lastRunAt \in Times
    BY <2>1, BoundsAssumption DEF JobSound, JobRecords, Times, IInv, TypeOK, CountersTypeOK
  <2>3. QED BY <1>1, <2>1, <2>2 DEF RunIDs
<1>4. \A k : k # j => /\ k \in DOMAIN disk' <=> k \in DOMAIN disk
                      /\ k \in DOMAIN disk => disk'[k] = disk[k]
    BY DEF Put
<1>5. OthersKept(id)
  <2> SUFFICES ASSUME NEW o \in RunIDs, o # id PROVE Kept(o)
      BY DEF OthersKept
  <2>1. CASE o[1] # j
    BY <1>4, <2>1, FileKept
  <2>2. CASE o[1] = j
    <3>1. o[2] # disk[j].lastRunAt
      BY <1>3, <2>2 DEF RunIDs
    <3>2. ~Marked(o[1], o) /\ ~Ongoing(o)
      BY <2>2, <3>1 DEF Marked, Ongoing
    <3>3. ~Marked(o[1], o)' /\ ~Ongoing(o)'
      BY <1>1, <1>2, <2>2 DEF Marked, Ongoing
    <3>4. QED BY <3>2, <3>3, ViewKept
  <2>3. QED BY <2>1, <2>2
<1>6. ~Archived(id) /\ ~Archived(id)'
  <2>1. ArchiveSound(j, disk[j])
    BY FilesAreOK DEF FileOK
  <2>2. QED BY <1>3, <2>1 DEF Archived, ArchiveSound, RunID
<1>7. Ongoing(id) /\ ~Marked(id[1], id) /\ Marked(id[1], id)'
    BY <1>1, <1>2, <1>3 DEF Ongoing, Marked
<1>8. /\ PhaseOf(id) = "claimed"
      /\ PhaseOf(id)' = IF x.pendingNotification = "intent" THEN "owed" ELSE "settled"
    BY <1>2, <1>3, <1>6, <1>7, PhaseFacts, PhaseFactsNext DEF PhaseRead
<1>9. RecordsOf(id) = {} /\ RecordsOf(id)' = {x.pendingRun}
    BY <1>2, <1>3, <1>6, <1>7, RecordsFacts, RecordsFactsNext DEF RecordsRead, Archived
<1>10. StatusIn(id)' = x.pendingRun.status
  <2>1. StatusesOf(id)' = {x.pendingRun.status}
    BY <1>9 DEF StatusesOf
  <2>2. QED BY <2>1 DEF StatusIn
<1>11. (Undelivered(id)' <=> Undelivered(id))
    BY <1>9 DEF Undelivered
<1>12. x.pendingRun.status \in Archivable
    BY DEF RunRecords
<1>13. [o \in RunIDs |-> StatusIn(o)]'
           = [[o \in RunIDs |-> StatusIn(o)] EXCEPT ![id] = x.pendingRun.status]
    BY <1>5, <1>10 DEF OthersKept, Kept
<1>14. Ledger!Moves(id, "claimed", "owed") \/ Ledger!Moves(id, "claimed", "settled")
    BY <1>3, <1>5, <1>8, LedgerMoves
<1>15. Ledger!Complete(id)
    BY <1>3, <1>5, <1>11, <1>12, <1>13, <1>14, FailedKept DEF Ledger!Complete
<1>16. QED BY <1>3, <1>15 DEF Ledger!Next

(* NewManager's markInterrupted *)
LEMMA AbandonsCompletes ==
    ASSUME IInv, IInv', UNCHANGED archive, NEW CONSTANT j \in Jobs, Abandons(j)
    PROVE  Ledger!Next
<1>1. PICK x : x = Interrupted(j)
    OBVIOUS
<1>2. /\ j \in DOMAIN disk /\ disk[j].pendingRun = NoRun /\ disk[j].lastStatus = "running"
      /\ disk' = Put(disk, j, x) /\ disk[j] \in JobRecords /\ disk[j].pendingNotification = "none"
    BY <1>1, FilesAreOK DEF Abandons, FileOK, JobSound
<1>3. /\ x.pendingRun = [job |-> j, startedAt |-> disk[j].lastRunAt,
                         scheduledFor |-> disk[j].lastScheduledFor, finishedAt |-> now,
                         status |-> "interrupted", notifyError |-> FALSE]
      /\ x.pendingNotification = "none"
    BY <1>1, <1>2 DEF Interrupted, JobRecords
<1>4. x.pendingRun \in RunRecords
    BY <1>2, <1>3 DEF RunRecords, JobRecords, Archivable, IInv, TypeOK, CountersTypeOK
<1>5. RunID(x.pendingRun) = <<j, disk[j].lastRunAt>> /\ ~x.pendingRun.notifyError
    BY <1>3 DEF RunID
<1>6. QED BY <1>2, <1>3, <1>4, <1>5, MarkerCompletes

(* executeClaimed's completion *)
LEMMA PersistCompletes ==
    ASSUME DInv, IInv', PersistCompletion
    PROVE  Ledger!Next
<1>0. IInv /\ NoErrorYet
    BY DEF DInv, DeliverySound
<1>1. PICK x : PersistedFile(x)
    BY <1>0, PersistStep
<1>2. /\ cur \in DOMAIN disk /\ disk[cur].pendingRun = NoRun /\ disk[cur].lastStatus = "running"
      /\ run \in RunRecords /\ RunID(run) = <<cur, disk[cur].lastRunAt>> /\ UNCHANGED archive
    BY <1>0, PersistStep
<1>3. PICK j : j = cur
    OBVIOUS
<1>4. /\ disk' = Put(disk, j, x) /\ x.pendingRun = run /\ x.pendingNotification \in {"none", "intent"}
    BY <1>1, <1>3 DEF PersistedFile
<1>5. ~run.notifyError
    BY <1>0 DEF NoErrorYet, PersistCompletion
<1>6. QED BY <1>0, <1>2, <1>3, <1>4, <1>5, MarkerCompletes

(* The notification of the run of cur goes from one state to another. *)
LEMMA NoteMoves ==
    ASSUME DInv, IInv', UNCHANGED archive, NEW CONSTANT j \in DOMAIN disk, NEW CONSTANT x,
           disk' = Put(disk, j, x), disk[j].pendingNotification # "none",
           x.pendingRun # NoRun, RunID(x.pendingRun) = RunID(disk[j].pendingRun),
           x.pendingRun.status = disk[j].pendingRun.status,
           NEW CONSTANT id, id = RunID(disk[j].pendingRun), NEW CONSTANT err \in BOOLEAN,
           x.pendingRun.notifyError = err
    PROVE  /\ id \in RunIDs /\ OthersKept(id) /\ StatusIn(id)' = StatusIn(id)
           /\ PhaseOf(id) = IF disk[j].pendingNotification = "intent" THEN "owed" ELSE "acknowledged"
           /\ x.pendingNotification = "delivered" => PhaseOf(id)' = "acknowledged"
           /\ x.pendingNotification = "none" => PhaseOf(id)' = "settled"
           /\ ~Undelivered(id) /\ (Undelivered(id)' <=> err)
<1>0. IInv /\ NoErrorYet
    BY DEF DInv, DeliverySound
<1>1. /\ disk[j].pendingRun # NoRun /\ disk[j] \in JobRecords /\ ArchiveSound(j, disk[j])
    BY <1>0, FilesAreOK DEF FileOK, JobSound
<1>2. id \in RunIDs /\ id[1] = j /\ id[2] = disk[j].lastRunAt
    BY <1>0, <1>1, MarkerID
<1>3. /\ j \in DOMAIN disk' /\ disk'[j] = x
      /\ \A k : k # j => /\ k \in DOMAIN disk' <=> k \in DOMAIN disk
                         /\ k \in DOMAIN disk => disk'[k] = disk[k]
    BY DEF Put
<1>4. OthersKept(id)
  <2> SUFFICES ASSUME NEW o \in RunIDs, o # id PROVE Kept(o)
      BY DEF OthersKept
  <2>1. CASE o[1] # j
    BY <1>0, <1>3, <2>1, FileKept
  <2>2. CASE o[1] = j
    <3>1. ~Marked(o[1], o) /\ ~Ongoing(o)
      BY <1>1, <2>2 DEF Marked, Ongoing
    <3>2. ~Marked(o[1], o)' /\ ~Ongoing(o)'
      BY <1>3, <2>2 DEF Marked, Ongoing
    <3>3. QED BY <1>0, <3>1, <3>2, ViewKept
  <2>3. QED BY <2>1, <2>2
<1>5. ~Archived(id) /\ ~Archived(id)'
    BY <1>1, <1>2 DEF Archived, ArchiveSound, RunID
<1>6. Marked(id[1], id) /\ Marked(id[1], id)'
    BY <1>1, <1>2, <1>3 DEF Marked
<1>7. disk[j].pendingNotification \in {"intent", "delivered"}
    BY <1>1 DEF JobRecords, Intents
<1>8. /\ PhaseOf(id) = IF disk[j].pendingNotification = "intent" THEN "owed" ELSE "acknowledged"
      /\ x.pendingNotification = "delivered" => PhaseOf(id)' = "acknowledged"
      /\ x.pendingNotification = "none" => PhaseOf(id)' = "settled"
    BY <1>2, <1>3, <1>5, <1>6, <1>7, PhaseFacts, PhaseFactsNext DEF PhaseRead
<1>9. RecordsOf(id) = {disk[j].pendingRun} /\ RecordsOf(id)' = {x.pendingRun}
    BY <1>0, <1>2, <1>3, <1>5, <1>6, RecordsFacts, RecordsFactsNext DEF RecordsRead, Archived
<1>10. StatusIn(id)' = StatusIn(id)
  <2>1. StatusesOf(id)' = {x.pendingRun.status} /\ StatusesOf(id) = {disk[j].pendingRun.status}
    BY <1>9 DEF StatusesOf
  <2>2. QED BY <2>1 DEF StatusIn
<1>11. ~Undelivered(id) /\ (Undelivered(id)' <=> err)
    BY <1>0, <1>9 DEF Undelivered, NoErrorYet
<1>12. QED BY <1>2, <1>4, <1>8, <1>10, <1>11

(* markNotificationDelivered *)
LEMMA MarkAcknowledges ==
    ASSUME DInv, IInv', MarkNotificationDelivered
    PROVE  Ledger!Next
<1>0. IInv /\ NotePlaced /\ NoErrorYet
    BY DEF DInv, DeliverySound
<1>1. PICK j, x, id : /\ j = cur /\ x = [disk[cur] EXCEPT !.pendingNotification = "delivered"]
                      /\ id = RunID(disk[cur].pendingRun)
    OBVIOUS
<1>2. /\ j \in DOMAIN disk /\ disk' = Put(disk, j, x) /\ UNCHANGED archive
      /\ disk[j].pendingRun # NoRun /\ disk[j] \in JobRecords /\ disk[j].pendingNotification = "intent"
    BY <1>0, <1>1, MarkStep DEF NotePlaced
<1>3. /\ x.pendingRun = disk[j].pendingRun /\ x.pendingNotification = "delivered"
      /\ x.pendingRun # NoRun /\ id = RunID(disk[j].pendingRun)
    BY <1>1, <1>2 DEF JobRecords
<1>3a. x.pendingRun.notifyError = FALSE
  <2>1. x.pendingRun \in RunRecords
    BY <1>2, <1>3 DEF JobRecords
  <2>2. QED BY <1>0, <1>2, <1>3, <2>1 DEF NoErrorYet, RunRecords
<1>4. /\ id \in RunIDs /\ OthersKept(id) /\ StatusIn(id)' = StatusIn(id)
      /\ PhaseOf(id) = "owed" /\ PhaseOf(id)' = "acknowledged" /\ ~Undelivered(id) /\ ~Undelivered(id)'
    BY <1>2, <1>3, <1>3a, NoteMoves
<1>5. Ledger!Acknowledge(id)
    BY <1>4, LedgerMoves, StatusKept, FailedKept DEF Ledger!Acknowledge
<1>6. QED BY <1>4, <1>5 DEF Ledger!Next

(* storeNotificationResult *)
LEMMA SettleMoves ==
    ASSUME DInv, IInv', StoreNotificationResult
    PROVE  [Ledger!Next]_(Ledger!ledger)
<1>0. IInv /\ NotePlaced
    BY DEF DInv, DeliverySound
<1>1. PICK j, x, id, err : /\ j = cur /\ x = Settled(disk[cur], err)
                           /\ id = RunID(disk[cur].pendingRun) /\ err = (pc = "archiveUndelivered")
    OBVIOUS
<1>2. /\ j \in DOMAIN disk /\ disk' = Put(disk, j, x) /\ UNCHANGED archive
      /\ disk[j].pendingRun # NoRun /\ disk[j] \in JobRecords /\ disk[j].pendingRun \in RunRecords
      /\ pc \in {"archive", "archiveUndelivered"}
    BY <1>0, <1>1, SettleStep
<1>3. CASE disk[j].pendingNotification = "none"
  <2>1. x = disk[j]
    BY <1>1, <1>3 DEF Settled
  <2>2. \A id2 \in RunIDs : Kept(id2)
    BY <1>0, <1>2, <2>1, FileKept DEF Put
  <2>3. QED BY <2>2, LedgerStutters
<1>4. CASE disk[j].pendingNotification # "none"
  <2>1. /\ x.pendingRun = [disk[j].pendingRun EXCEPT !.notifyError = err]
        /\ x.pendingNotification = "none" /\ id = RunID(disk[j].pendingRun) /\ err \in BOOLEAN
    BY <1>1, <1>2, <1>4 DEF Settled, JobRecords
  <2>2. /\ x.pendingRun \in RunRecords /\ RunID(x.pendingRun) = RunID(disk[j].pendingRun)
        /\ x.pendingRun.status = disk[j].pendingRun.status
        /\ x.pendingRun.notifyError = err
    BY <1>2, <2>1 DEF RunRecords, RunID
  <2>3. x.pendingRun # NoRun
    BY <2>2, NoRunAssumption
  <2>4. /\ id \in RunIDs /\ OthersKept(id) /\ StatusIn(id)' = StatusIn(id)
        /\ PhaseOf(id) = IF disk[j].pendingNotification = "intent" THEN "owed" ELSE "acknowledged"
        /\ PhaseOf(id)' = "settled"
        /\ ~Undelivered(id) /\ (Undelivered(id)' <=> err)
    BY <1>2, <1>4, <2>1, <2>2, <2>3, NoteMoves
  <2>5. CASE pc = "archive"
    <3>1. disk[j].pendingNotification = "delivered"
      BY <1>0, <1>1, <1>4, <2>5 DEF NotePlaced
    <3>2. Ledger!Settle(id)
      BY <1>1, <2>4, <2>5, <3>1, LedgerMoves, StatusKept, FailedKept DEF Ledger!Settle
    <3>3. QED BY <2>4, <3>2 DEF Ledger!Next
  <2>6. CASE pc = "archiveUndelivered"
    <3>1. disk[j].pendingNotification = "intent"
      BY <1>0, <1>1, <2>6 DEF NotePlaced
    <3>2. Ledger!Moves(id, "owed", "settled")
      BY <2>4, <3>1, LedgerMoves
    <3>3. \A o \in RunIDs : Undelivered(o)' <=> (o = id \/ Undelivered(o))
      BY <1>1, <2>4, <2>6 DEF OthersKept, Kept
    <3>4. [o \in RunIDs |-> \E r \in RecordsOf(o) : r.notifyError]'
              = [[o \in RunIDs |-> \E r \in RecordsOf(o) : r.notifyError] EXCEPT ![id] = TRUE]
      BY <3>3 DEF Undelivered
    <3>5. Ledger!GiveUp(id)
      BY <2>4, <3>2, <3>4, StatusKept DEF Ledger!GiveUp
    <3>6. QED BY <2>4, <3>5 DEF Ledger!Next
  <2>7. QED BY <1>2, <2>5, <2>6
<1>5. QED BY <1>3, <1>4

(* AppendRunRecord, by finishPendingRun or by NewManager *)
LEMMA FiledArchives ==
    ASSUME IInv, IInv', UNCHANGED disk, NEW CONSTANT j \in Jobs, Filed(j)
    PROVE  [Ledger!Next]_(Ledger!ledger)
<1>1. PICK r, id : r = disk[j].pendingRun /\ id = RunID(r)
    OBVIOUS
<1>2. /\ j \in DOMAIN disk /\ r # NoRun /\ disk[j].pendingNotification = "none"
      /\ archive' = archive \cup {r} /\ ~Conflicts(r)
    BY <1>1, NoConflict DEF Filed
<1>3. id \in RunIDs /\ id[1] = j
    BY <1>1, <1>2, MarkerID
<1>4. OthersKept(id)
  <2> SUFFICES ASSUME NEW o \in RunIDs, o # id PROVE Kept(o)
      BY DEF OthersKept
  <2>1. Marked(o[1], o)' <=> Marked(o[1], o)
    BY DEF Marked
  <2>2. Ongoing(o)' <=> Ongoing(o)
    BY DEF Ongoing
  <2>3. \A q : RunID(q) = o => (q \in archive' <=> q \in archive)
    BY <1>1, <1>2
  <2>4. QED BY <2>1, <2>2, <2>3, ViewKept
<1>5. Marked(id[1], id) /\ Marked(id[1], id)' /\ r = disk'[id[1]].pendingRun
    BY <1>1, <1>2, <1>3 DEF Marked
<1>6. RecordsOf(id)' = RecordsOf(id)
    BY <1>1, <1>2, <1>3, <1>5, RecordsFacts, RecordsFactsNext DEF RecordsRead
<1>7. Archived(id)'
    BY <1>1, <1>2 DEF Archived
<1>8. CASE Archived(id)
  <2>1. Kept(id)
    BY <1>3, <1>6, <1>7, <1>8, SameRecords, PhaseFacts, PhaseFactsNext DEF Kept, PhaseRead
  <2>2. QED BY <1>4, <2>1, LedgerStutters DEF OthersKept
<1>9. CASE ~Archived(id)
  <2>1. PhaseOf(id) = "settled" /\ PhaseOf(id)' = "archived"
    BY <1>2, <1>3, <1>5, <1>7, <1>9, PhaseFacts, PhaseFactsNext DEF PhaseRead
  <2>2. Ledger!Archive(id)
    BY <1>3, <1>4, <1>6, <2>1, SameRecords, LedgerMoves, StatusKept, FailedKept DEF Ledger!Archive
  <2>3. QED BY <1>3, <2>2 DEF Ledger!Next
<1>10. QED BY <1>8, <1>9

-----------------------------------------------------------------------------
LEMMA LedgerInit == Init => Ledger!Init
<1> SUFFICES ASSUME Init PROVE Ledger!Init
    OBVIOUS
<1>1. DOMAIN disk = {} /\ archive = {}
    BY DEF Init, NoJobs
<1>2. \A id \in RunIDs : ~Archived(id) /\ ~Marked(id[1], id) /\ ~Ongoing(id) /\ RecordsOf(id) = {}
    BY <1>1 DEF Archived, Marked, Ongoing, RecordsOf
<1>3. \A id \in RunIDs : PhaseOf(id) = "unclaimed" /\ StatusIn(id) = "none"
    BY <1>2, PhaseFacts DEF PhaseRead, StatusIn, StatusesOf
<1>4. QED BY <1>2, <1>3 DEF Ledger!Init

LEMMA LedgerStep == DInv /\ IInv' /\ [Next]_vars => [Ledger!Next]_(Ledger!ledger)
<1> SUFFICES ASSUME DInv, IInv', [Next]_vars PROVE [Ledger!Next]_(Ledger!ledger)
    OBVIOUS
<1>0. IInv
    BY DEF DInv
<1>1. CASE UNCHANGED <<disk, archive>>
    BY <1>0, <1>1, FileKept, LedgerStutters
<1>2. ASSUME UNCHANGED archive, NEW j \in Jobs, OnFile(j) PROVE [Ledger!Next]_(Ledger!ledger)
    BY <1>0, <1>2, NewFileKept, EditedKept, RemovedKept, ClearedKept, LedgerStutters, TakenClaims,
       AbandonsCompletes DEF OnFile
<1>3. CASE RecordDelivered
    BY <1>0, <1>1, <1>3, RecordStep
<1>4. QED
    BY <1>0, <1>1, <1>2, <1>3, DurableSteps, FiledArchives, PersistCompletes, MarkAcknowledges,
       SettleMoves DEF OnStore

(* Every behaviour of the scheduler is one of the ledger's: a run is       *)
(* claimed once, completes with one status, settles its notification and   *)
(* is archived, in this order, whatever stops, crashes or fails            *)
(* (claimNextDue, executeClaimed, finalizePendingRun, finishPendingRun,    *)
(* NewManager).                                                            *)
THEOREM ImplementsLedgerCorrect == Spec => ImplementsLedger
<1>1. DInv => IInv
    BY DEF DInv
<1>2. QED BY LedgerInit, LedgerStep, DeliveryInvariant, <1>1, PTL DEF Spec, ImplementsLedger, Ledger!Spec
=============================================================================
