------------------------------ MODULE Scheduler ------------------------------
(***************************************************************************)
(* The scheduled-job manager of q15-agent: the durable job and run store,  *)
(* the manager's in-memory job table and its single Run loop, the API      *)
(* calls the agent's tools make concurrently with it, the acknowledged     *)
(* outbound bus it delivers notifications through, and process stops and   *)
(* crashes between any two durable writes.                                 *)
(*                                                                         *)
(*   src/systems/agent/internal/schedule/manager.go                        *)
(*   src/systems/agent/internal/schedulestore/store.go                     *)
(*   src/systems/agent/internal/bus/bus.go                                 *)
(*   src/systems/agent/internal/app/workers.go                             *)
(*                                                                         *)
(* A time is a natural number; 0 is Go's zero time.  Job IDs are natural   *)
(* numbers so that they have the order the code breaks ties with.  An      *)
(* operator commented as a fault is not part of the model: put in place of *)
(* the definition it precedes, it must make a property fail.               *)
(***************************************************************************)
EXTENDS Naturals, Sequences, FiniteSets, Functions

CONSTANTS
    Jobs,           \* the IDs newID can return; each is returned once (UUIDv7)
    Crons,          \* the parsed cron expressions jobs may carry
    CronNext(_, _), \* CronNext(c, t): first occurrence of c strictly after t
    CronPrev(_, _), \* CronPrev(c, t): last occurrence at or before t, 0 if none
    MaxJobs,        \* agent.tools.schedule max_jobs
    RetryDelay,     \* model unavailable retry delay
    IdleWait,       \* the timer's wait when no job has a next fire (one hour)
    BufferSize,     \* capacity of the bus's acknowledged delivery queue
    MaxTime,        \* bound: the clock stops here
    MaxCalls,       \* bound: API calls that change something
    MaxFaults,      \* bound: stops, crashes, failed writes, expired deadlines
    NoCron, NoRun   \* absent values

Times == 0 .. MaxTime
Kinds == {"oneshot", "recurring"}
Statuses == {"pending", "running", "succeeded", "failed", "interrupted", "model_unavailable"}
Archivable == {"succeeded", "failed", "interrupted", "model_unavailable"}

ASSUME JobsAssumption == Jobs \subseteq Nat \ {0}
ASSUME BoundsAssumption ==
    /\ MaxJobs \in Nat \ {0} /\ RetryDelay \in Nat \ {0} /\ IdleWait \in Nat \ {0}
    /\ BufferSize \in Nat \ {0} /\ MaxTime \in Nat \ {0}
    /\ MaxCalls \in Nat /\ MaxFaults \in Nat
ASSUME CronAssumption ==
    \A c \in Crons, t \in Times :
        /\ CronNext(c, t) \in Nat /\ CronNext(c, t) > t
        /\ CronPrev(c, t) \in Nat /\ CronPrev(c, t) <= t
ASSUME NoCronAssumption == NoCron \notin Crons

(* What Create and Update accept as a schedule. *)
Schedules ==
    [kind : {"oneshot"}, cron : {NoCron}, at : Times] \cup
    [kind : {"recurring"}, cron : Crons, at : {0}]

(* One attempt's provenance.  Its ID is a hash of job and startedAt. *)
RunRecords ==
    [job : Jobs, startedAt : Nat, scheduledFor : Nat, finishedAt : Nat,
     status : Archivable, notifyError : BOOLEAN]

RunID(r) == <<r.job, r.startedAt>>
RunIDs == Jobs \X Times

(* PendingNotification: absent, an undelivered intent, or DeliveredAt set. *)
Intents == {"none", "intent", "delivered"}

JobRecords ==
    [kind : Kinds, cron : Crons \cup {NoCron}, notify : BOOLEAN, nextFire : Nat,
     done : BOOLEAN, lastStatus : Statuses, lastRunAt : Nat, lastScheduledFor : Nat,
     unavailableNotified : BOOLEAN, pendingRun : RunRecords \cup {NoRun},
     pendingNotification : Intents]

ASSUME NoRunAssumption == NoRun \notin RunRecords

VARIABLES
    disk,       \* durable: job files, a function on the IDs that have one
    archive,    \* durable: the set of archived run records
    transcript, \* durable: run IDs recorded in the conversation history
    mem,        \* Manager.jobs
    running,    \* Manager.running
    wake,       \* Manager.wake holds a token
    pc,         \* where the scheduler goroutine is
    cur,        \* the job it is executing or finalizing, 0 if none
    run,        \* the run record executeClaimed has filled in
    fctx,       \* finalizePendingRun's context: "run", "persist" or "expired"
    timerAt,    \* the instant the sleeping loop's timer fires, 0 when awake
    todo,       \* NewManager: loaded jobs not yet reconciled
    ctxDone,    \* the runtime context is cancelled
    outq,       \* the bus's queue of delivery requests
    inflight,   \* the request the outbound worker is delivering, if any
    ack,        \* what the waiting publisher's result channel holds
    now,        \* the wall clock
    issued,     \* IDs newID has returned
    calls,      \* API calls so far
    faults,     \* faults injected so far
    started,    \* history: executions handed to the executor
    intended,   \* history: runs whose notification intent was persisted
    sent        \* history: how often the transport delivered a run's message

local == <<cur, run, fctx>>
outbound == <<outq, inflight, ack>>
history == <<started, intended, sent>>
vars == <<disk, archive, transcript, mem, running, wake, pc, cur, run, fctx, timerAt,
          todo, ctxDone, outq, inflight, ack, now, issued, calls, faults, started,
          intended, sent>>

(***************************************************************************)
(* Program counter of the scheduler goroutine.                             *)
(***************************************************************************)
Finalizing == {"publishing", "awaiting", "marking", "recording",
               "archive", "archiveUndelivered", "append", "clear"}
Busy == {"claimed", "executing", "executed"} \cup Finalizing
Serving == {"loop", "sleep"} \cup Busy  \* the manager exists and Run is in progress
PCs == {"down", "boot", "stopped", "inconsistent"} \cup Serving

(* m.mu is held across these steps of the scheduler goroutine. *)
Locked == pc \in {"append", "clear"}

CtxErr == \/ fctx = "run" /\ ctxDone
          \/ fctx = "expired"

(***************************************************************************)
(* The durable store.  StoreJob replaces a file atomically; a write that   *)
(* fails restores the snapshot, so it changes nothing here.                *)
(***************************************************************************)
Put(f, j, x) == [k \in DOMAIN f \cup {j} |-> IF k = j THEN x ELSE f[k]]
Drop(f, j) == [k \in DOMAIN f \ {j} |-> f[k]]

StoreJob(j, x) == disk' = Put(disk, j, x)
DeleteJob(j) == disk' = Drop(disk, j)

(* AppendRunRecord finds a file of the same identity and other contents. *)
Conflicts(r) == \E a \in archive : RunID(a) = RunID(r) /\ a # r

-----------------------------------------------------------------------------
(***************************************************************************)
(* API calls: Create, Update and Delete run under m.mu on the goroutine of *)
(* a tool call, concurrently with the Run loop.                            *)
(***************************************************************************)
Callable ==
    /\ pc \in Serving /\ ~Locked /\ ~ctxDone
    /\ calls < MaxCalls /\ calls' = calls + 1

(* prepareSchedule with requireFuture, at time t *)
Prepared(s, t) == s.kind = "oneshot" => s.at > t
FireOf(s, t) == IF s.kind = "oneshot" THEN s.at ELSE CronNext(s.cron, t)

(* max_jobs counts the jobs of the table. *)
HasCapacity == Cardinality(DOMAIN mem) < MaxJobs

(* notifyWake: a non-blocking send on a channel of capacity one; fault: no  *)
(* send.                                                                   *)
NoWake == UNCHANGED wake
NotifyWake == wake' = TRUE

NewJob(s, notify, t) ==
    [kind |-> s.kind, cron |-> s.cron, notify |-> notify, nextFire |-> FireOf(s, t),
     done |-> FALSE, lastStatus |-> "pending", lastRunAt |-> 0, lastScheduledFor |-> 0,
     unavailableNotified |-> FALSE, pendingRun |-> NoRun, pendingNotification |-> "none"]

(* Create reads the clock and prepares the job at t, then waits for m.mu. *)
Create(j, s, notify, t) ==
    /\ Callable /\ t <= now /\ Prepared(s, t)
    /\ j \notin issued /\ issued' = issued \cup {j}
    /\ HasCapacity
    /\ StoreJob(j, NewJob(s, notify, t))
    /\ mem' = Put(mem, j, NewJob(s, notify, t))
    /\ NotifyWake
    /\ UNCHANGED <<archive, transcript, running, pc, local, timerAt, todo, ctxDone,
                   outbound, now, faults, history>>

(* Update and Delete refuse a job that is running; fault: they do not. *)
MutableWhileRunning(j) == j \in DOMAIN mem
Mutable(j) == j \in DOMAIN mem \ running

(* A patch may replace the schedule, the model and the notify flag. *)
Rescheduled(x, s) ==
    [x EXCEPT !.kind = s.kind, !.cron = s.cron, !.nextFire = FireOf(s, now),
              !.done = FALSE, !.lastStatus = "pending"]
Repointed(x) == [x EXCEPT !.unavailableNotified = FALSE]

Update(j, reschedule, s, model, notify) ==
    /\ Callable /\ Mutable(j)
    /\ reschedule => Prepared(s, now)
    /\ LET a == IF reschedule THEN Rescheduled(mem[j], s) ELSE mem[j]
           b == IF model THEN Repointed(a) ELSE a
           x == [b EXCEPT !.notify = notify]
       IN StoreJob(j, x) /\ mem' = Put(mem, j, x)
    /\ NotifyWake
    /\ UNCHANGED <<archive, transcript, running, pc, local, timerAt, todo, ctxDone,
                   outbound, now, issued, faults, history>>

Delete(j) ==
    /\ Callable /\ Mutable(j)
    /\ DeleteJob(j)
    /\ mem' = Drop(mem, j)
    /\ NotifyWake
    /\ UNCHANGED <<archive, transcript, running, pc, local, timerAt, todo, ctxDone,
                   outbound, now, issued, faults, history>>

-----------------------------------------------------------------------------
(***************************************************************************)
(* The Run loop.                                                           *)
(***************************************************************************)
(* The loop's ctx.Err check, and the ctx.Done case of its select. *)
RunReturns ==
    /\ pc \in {"loop", "sleep"} /\ ctxDone
    /\ pc' = "stopped"
    /\ UNCHANGED <<disk, archive, transcript, mem, running, wake, local, timerAt, todo,
                   ctxDone, outbound, now, issued, calls, faults, history>>

(* finalizePendingRun's first branch, on the notification of the job;      *)
(* fault: DeliveredAt is not looked at.                                    *)
RepublishDelivered(x) == IF x.pendingNotification = "none" THEN "archive" ELSE "publishing"
FinalizeStep(x) ==
    CASE x.pendingNotification = "intent" -> "publishing"
      [] x.pendingNotification = "delivered" -> "recording"
      [] x.pendingNotification = "none" -> "archive"

PendingNotifications ==
    {j \in DOMAIN mem : mem[j].pendingRun # NoRun /\ mem[j].pendingNotification # "none"}

ResumePendingNotification ==
    /\ pc = "loop" /\ ~ctxDone
    /\ \E j \in PendingNotifications :
          /\ \A k \in PendingNotifications : j <= k
          /\ cur' = j
          /\ pc' = FinalizeStep(mem[j])
    /\ fctx' = "run"
    /\ UNCHANGED <<disk, archive, transcript, mem, running, wake, run, timerAt, todo,
                   ctxDone, outbound, now, issued, calls, faults, history>>

Due == {j \in DOMAIN mem \ running :
            ~mem[j].done /\ mem[j].nextFire # 0 /\ mem[j].nextFire <= now}

FiresBefore(j, k) ==
    \/ mem[j].nextFire < mem[k].nextFire
    \/ mem[j].nextFire = mem[k].nextFire /\ j <= k

(* The next fire of a claimed job; fault: the one after the fire it missed. *)
NextAfterFire(x) == IF x.kind = "recurring" THEN CronNext(x.cron, x.nextFire) ELSE 0
NextAfterNow(x) == IF x.kind = "recurring" THEN CronNext(x.cron, now) ELSE 0

(* A late recurring job runs once, for its latest missed occurrence;       *)
(* fault: NextFire is read after it was advanced.                          *)
OccurrenceReadLate(x) == NextAfterNow(x)
OccurrenceOf(x) ==
    IF x.kind = "recurring" /\ CronPrev(x.cron, now) >= x.nextFire
    THEN CronPrev(x.cron, now) ELSE x.nextFire

Claimed(x) ==
    [x EXCEPT !.nextFire = NextAfterNow(x),
              !.done = (x.kind = "oneshot"),
              !.lastRunAt = now,
              !.lastScheduledFor = OccurrenceOf(x),
              !.lastStatus = "running"]

ClaimNextDue ==
    /\ pc = "loop" /\ ~ctxDone /\ PendingNotifications = {}
    /\ \E j \in Due :
          /\ \A k \in Due : FiresBefore(j, k)
          /\ StoreJob(j, Claimed(mem[j]))
          /\ mem' = Put(mem, j, Claimed(mem[j]))
          /\ running' = running \cup {j}
          /\ cur' = j
    /\ pc' = "claimed"
    /\ UNCHANGED <<archive, transcript, wake, run, fctx, timerAt, todo, ctxDone,
                   outbound, now, issued, calls, faults, history>>

(* nextFire, then resetTimer *)
Waiting == {j \in DOMAIN mem : ~mem[j].done /\ mem[j].nextFire # 0}

GoToSleep ==
    /\ pc = "loop" /\ ~ctxDone /\ PendingNotifications = {} /\ Due = {}
    /\ pc' = "sleep"
    /\ \/ Waiting = {} /\ timerAt' = now + IdleWait
       \/ \E j \in Waiting :
             /\ \A k \in Waiting : mem[j].nextFire <= mem[k].nextFire
             /\ timerAt' = mem[j].nextFire
    /\ UNCHANGED <<disk, archive, transcript, mem, running, wake, local, todo, ctxDone,
                   outbound, now, issued, calls, faults, history>>

WakeUp ==
    /\ pc = "sleep" /\ wake
    /\ wake' = FALSE /\ timerAt' = 0 /\ pc' = "loop"
    /\ UNCHANGED <<disk, archive, transcript, mem, running, local, todo, ctxDone,
                   outbound, now, issued, calls, faults, history>>

TimerFires ==
    /\ pc = "sleep" /\ now >= timerAt
    /\ timerAt' = 0 /\ pc' = "loop"
    /\ UNCHANGED <<disk, archive, transcript, mem, running, wake, local, todo,
                   ctxDone, outbound, now, issued, calls, faults, history>>

-----------------------------------------------------------------------------
(***************************************************************************)
(* executeClaimed.                                                         *)
(***************************************************************************)
Execute ==
    /\ pc = "claimed"
    /\ pc' = "executing"
    /\ started' = started \cup {[job |-> cur, startedAt |-> mem[cur].lastRunAt,
                                 scheduledFor |-> mem[cur].lastScheduledFor]}
    /\ UNCHANGED <<disk, archive, transcript, mem, running, wake, local, timerAt, todo,
                   ctxDone, outbound, now, issued, calls, faults, intended, sent>>

(* The executor's answers: a result on the exact model, the model is not   *)
(* in the roster, or any other error (timeout and model mismatch too).     *)
Outcomes == {"ok", "unavailable", "error"}

StatusOf(outcome) ==
    CASE outcome = "ok" -> "succeeded"
      [] outcome # "ok" /\ ctxDone -> "interrupted"
      [] outcome = "unavailable" /\ ~ctxDone -> "model_unavailable"
      [] outcome = "error" /\ ~ctxDone -> "failed"

ExecuteReturns(outcome) ==
    /\ pc = "executing"
    /\ run' = [job |-> cur, startedAt |-> mem[cur].lastRunAt,
               scheduledFor |-> mem[cur].lastScheduledFor, finishedAt |-> now,
               status |-> StatusOf(outcome), notifyError |-> FALSE]
    /\ pc' = "executed"
    /\ UNCHANGED <<disk, archive, transcript, mem, running, wake, cur, fctx, timerAt, todo,
                   ctxDone, outbound, now, issued, calls, faults, history>>

ShouldNotify(x, r) ==
    /\ x.notify /\ ~ctxDone
    /\ r.status = "model_unavailable" => ~x.unavailableNotified

(* fault: every failed one-shot is retried *)
RetriesAnyFailure(x, r) == r.status # "succeeded" /\ x.kind = "oneshot"
Retries(x, r) == r.status = "model_unavailable" /\ x.kind = "oneshot"

(* An unavailable one-shot stays active and retries; a recurring job whose *)
(* next fire passed while it ran is pushed past its end.                   *)
Completed(x, r, notify) ==
    LET unavailable == r.status = "model_unavailable"
        retry == Retries(x, r)
        overrun == x.kind = "recurring" /\ (x.nextFire = 0 \/ x.nextFire <= r.finishedAt)
    IN [x EXCEPT !.lastStatus = r.status,
                 !.unavailableNotified = @ /\ unavailable,
                 !.done = @ /\ ~retry,
                 !.nextFire = IF retry THEN r.finishedAt + RetryDelay
                              ELSE IF overrun THEN CronNext(x.cron, r.finishedAt)
                              ELSE @,
                 !.pendingRun = r,
                 !.pendingNotification = IF notify THEN "intent" ELSE "none"]

(* Uses persistCtx, which outlives the cancellation of the runtime. *)
PersistCompletion ==
    /\ pc = "executed"
    /\ LET x == Completed(mem[cur], run, ShouldNotify(mem[cur], run))
       IN /\ StoreJob(cur, x)
          /\ mem' = Put(mem, cur, x)
          /\ pc' = FinalizeStep(x)
          /\ intended' = IF x.pendingNotification = "intent"
                         THEN intended \cup {RunID(run)} ELSE intended
    /\ run' = NoRun
    /\ fctx' = "persist"
    /\ UNCHANGED <<archive, transcript, running, wake, cur, timerAt, todo, ctxDone,
                   outbound, now, issued, calls, faults, started, sent>>

-----------------------------------------------------------------------------
(***************************************************************************)
(* finalizePendingRun.                                                     *)
(***************************************************************************)
Publish ==
    /\ pc = "publishing" /\ Len(outq) < BufferSize
    /\ outq' = Append(outq, [id |-> RunID(mem[cur].pendingRun), live |-> TRUE])
    /\ ack' = "none"
    /\ pc' = "awaiting"
    /\ UNCHANGED <<disk, archive, transcript, mem, running, wake, local, timerAt, todo,
                   ctxDone, inflight, now, issued, calls, faults, history>>

(* A delivery error keeps the intent when the context is done, and is      *)
(* archived with the run otherwise.                                        *)
DeliveryFailed ==
    IF CtxErr THEN pc' = "loop" /\ cur' = 0 /\ fctx' = "run"
              ELSE pc' = "archiveUndelivered" /\ UNCHANGED <<cur, fctx>>

Abandoned(q) == [i \in DOMAIN q |-> [q[i] EXCEPT !.live = FALSE]]

(* notifyCtx ends before the request is queued or before it is answered;   *)
(* a queued or in-flight request stays with the outbound worker.           *)
PublishTimesOut ==
    /\ pc \in {"publishing", "awaiting"} /\ ack = "none"
    /\ outq' = Abandoned(outq) /\ inflight' = Abandoned(inflight)
    /\ DeliveryFailed
    /\ UNCHANGED <<disk, archive, transcript, mem, running, wake, run, timerAt, todo,
                   ctxDone, ack, now, issued, calls, faults, history>>

PublishAnswered ==
    /\ pc = "awaiting" /\ ack # "none"
    /\ ack' = "none"
    /\ IF ack = "ok" THEN pc' = "marking" /\ UNCHANGED <<cur, fctx>>
                     ELSE DeliveryFailed
    /\ UNCHANGED <<disk, archive, transcript, mem, running, wake, run, timerAt, todo,
                   ctxDone, outq, inflight, now, issued, calls, faults, history>>

(* markNotificationDelivered persists DeliveredAt. *)
HasIntent(j) ==
    j \in DOMAIN mem /\ mem[j].pendingRun # NoRun /\ mem[j].pendingNotification # "none"

MarkNotificationDelivered ==
    /\ pc = "marking" /\ ~CtxErr
    /\ IF HasIntent(cur)
       THEN LET x == [mem[cur] EXCEPT !.pendingNotification = "delivered"]
            IN StoreJob(cur, x) /\ mem' = Put(mem, cur, x) /\ pc' = "recording"
       ELSE pc' = "inconsistent" /\ UNCHANGED <<disk, mem>>
    /\ UNCHANGED <<archive, transcript, running, wake, local, timerAt, todo, ctxDone,
                   outbound, now, issued, calls, faults, history>>

(* RecordDeliveredNotification is idempotent for the run's identity. *)
RecordDelivered ==
    /\ pc = "recording"
    /\ transcript' = transcript \cup {RunID(mem[cur].pendingRun)}
    /\ pc' = "archive"
    /\ UNCHANGED <<disk, archive, mem, running, wake, local, timerAt, todo, ctxDone,
                   outbound, now, issued, calls, faults, history>>

(* It fails because the context is done: the intent is kept. *)
RecordInterrupted ==
    /\ pc = "recording" /\ CtxErr
    /\ pc' = "loop" /\ cur' = 0 /\ fctx' = "run"
    /\ UNCHANGED <<disk, archive, transcript, mem, running, wake, run, timerAt, todo,
                   ctxDone, outbound, now, issued, calls, faults, history>>

(* The notification's result is stored before the run is archived; faults: *)
(* the delivery error is dropped, or a failed delivery suppresses the next. *)
SettledWithoutError(x, undelivered) == [x EXCEPT !.pendingNotification = "none"]
SettledUnearned(x, undelivered) ==
    IF x.pendingNotification = "none" THEN x
    ELSE [x EXCEPT !.pendingRun.notifyError = undelivered,
                   !.unavailableNotified = @ \/ x.pendingRun.status = "model_unavailable",
                   !.pendingNotification = "none"]
Settled(x, undelivered) ==
    IF x.pendingNotification = "none" THEN x
    ELSE [x EXCEPT !.pendingRun.notifyError = undelivered,
                   !.unavailableNotified =
                       @ \/ (~undelivered /\ x.pendingRun.status = "model_unavailable"),
                   !.pendingNotification = "none"]

StoreNotificationResult ==
    /\ pc \in {"archive", "archiveUndelivered"} /\ ~CtxErr
    /\ StoreJob(cur, Settled(mem[cur], pc = "archiveUndelivered"))
    /\ pc' = "append"
    /\ UNCHANGED <<archive, transcript, mem, running, wake, local, timerAt, todo, ctxDone,
                   outbound, now, issued, calls, faults, history>>

(* finishPendingRun, first write *)
AppendRunRecord ==
    /\ pc = "append" /\ ~CtxErr
    /\ IF Conflicts(disk[cur].pendingRun)
       THEN pc' = "inconsistent" /\ UNCHANGED archive
       ELSE pc' = "clear" /\ archive' = archive \cup {disk[cur].pendingRun}
    /\ UNCHANGED <<disk, transcript, mem, running, wake, local, timerAt, todo, ctxDone,
                   outbound, now, issued, calls, faults, history>>

(* finishPendingRun, second write, then the in-memory state *)
ClearPendingRun ==
    /\ pc = "clear" /\ ~CtxErr
    /\ IF disk[cur].done
       THEN DeleteJob(cur) /\ mem' = Drop(mem, cur)
       ELSE LET x == [disk[cur] EXCEPT !.pendingRun = NoRun]
            IN StoreJob(cur, x) /\ mem' = Put(mem, cur, x)
    /\ running' = running \ {cur}
    /\ pc' = "loop" /\ cur' = 0 /\ fctx' = "run"
    /\ UNCHANGED <<archive, transcript, wake, run, timerAt, todo, ctxDone, outbound, now,
                   issued, calls, faults, history>>

-----------------------------------------------------------------------------
(***************************************************************************)
(* The bus's acknowledged requests and the outbound worker.                *)
(***************************************************************************)
OutboundTake ==
    /\ pc # "down" /\ inflight = <<>> /\ outq # <<>>
    /\ inflight' = <<Head(outq)>> /\ outq' = Tail(outq)
    /\ UNCHANGED <<disk, archive, transcript, mem, running, wake, pc, local, timerAt, todo,
                   ctxDone, ack, now, issued, calls, faults, history>>

(* The endpoint sends the message and says so, sends it and still reports  *)
(* an error (its answer is lost or its context ends), or does not send it. *)
DeliveryResults == {"sent", "sentWithError", "error"}

(* What the worker acknowledges to the publisher; fault: always success. *)
AlwaysAcknowledges(result) == "ok"
Answer(result) == IF result = "sent" THEN "ok" ELSE "err"

OutboundDeliver(result) ==
    /\ pc # "down" /\ inflight # <<>>
    /\ sent' = IF result = "error" THEN sent ELSE [sent EXCEPT ![inflight[1].id] = @ + 1]
    /\ ack' = IF ~inflight[1].live THEN ack
              ELSE Answer(result)
    /\ inflight' = <<>>
    /\ UNCHANGED <<disk, archive, transcript, mem, running, wake, pc, local, timerAt, todo,
                   ctxDone, outq, now, issued, calls, faults, started, intended>>

-----------------------------------------------------------------------------
(***************************************************************************)
(* The process: start, cancellation, fatal errors, exit, crash.            *)
(***************************************************************************)
NoJobs == [j \in {} |-> NoRun]

FaultBudget == faults < MaxFaults /\ faults' = faults + 1

Stop ==
    /\ pc \in Serving /\ ~ctxDone /\ FaultBudget
    /\ ctxDone' = TRUE
    /\ UNCHANGED <<disk, archive, transcript, mem, running, wake, pc, local, timerAt, todo,
                   outbound, now, issued, calls, history>>

(* persistCtx's 30 seconds run out. *)
PersistDeadline ==
    /\ pc \in Finalizing /\ fctx = "persist" /\ FaultBudget
    /\ fctx' = "expired"
    /\ UNCHANGED <<disk, archive, transcript, mem, running, wake, pc, cur, run, timerAt,
                   todo, ctxDone, outbound, now, issued, calls, history>>

(* A store or transcript write fails: Run returns the error, and           *)
(* runRuntimeWorkers cancels every other worker.                           *)
FatalError ==
    /\ pc' = "stopped" /\ ctxDone' = TRUE
    /\ UNCHANGED <<disk, archive, transcript, mem, running, wake, local, timerAt, todo,
                   outbound, now, issued, calls, history>>

WriteFails ==
    /\ pc \in {"loop", "executed", "marking", "recording", "archive",
               "archiveUndelivered", "append", "clear"}
    /\ FaultBudget
    /\ FatalError

(* The store refuses a write whose context is done. *)
WriteRefused ==
    /\ pc \in {"marking", "archive", "archiveUndelivered", "append", "clear"} /\ CtxErr
    /\ FatalError /\ UNCHANGED faults

ProcessGone ==
    /\ pc' = "down"
    /\ mem' = NoJobs /\ running' = {} /\ wake' = FALSE
    /\ cur' = 0 /\ run' = NoRun /\ fctx' = "run" /\ timerAt' = 0 /\ todo' = {}
    /\ ctxDone' = FALSE /\ outq' = <<>> /\ inflight' = <<>> /\ ack' = "none"
    /\ UNCHANGED <<disk, archive, transcript, now, issued, calls, history>>

(* The join of the workers is bounded: the process may leave mid-step. *)
Exit ==
    /\ pc \notin {"down", "inconsistent"} /\ ctxDone
    /\ ProcessGone /\ UNCHANGED faults

Crash ==
    /\ pc \notin {"down", "inconsistent"} /\ FaultBudget
    /\ ProcessGone

Tick ==
    /\ now < MaxTime /\ now' = now + 1
    /\ UNCHANGED <<disk, archive, transcript, mem, running, wake, pc, local, timerAt, todo,
                   ctxDone, outbound, issued, calls, faults, history>>

-----------------------------------------------------------------------------
(***************************************************************************)
(* NewManager: load every job and reconcile it, in ID order.               *)
(***************************************************************************)
Boot ==
    /\ pc = "down"
    /\ pc' = "boot" /\ todo' = DOMAIN disk
    /\ UNCHANGED <<disk, archive, transcript, mem, running, wake, local, timerAt, ctxDone,
                   outbound, now, issued, calls, faults, history>>

NextLoaded(j) == pc = "boot" /\ j \in todo /\ \A k \in todo : j <= k

(* validateStoredJob, and NewManager's completed one-shot check *)
StoredJobOK(j) ==
    LET x == disk[j] IN
    /\ x.pendingNotification # "none" => x.pendingRun # NoRun
    /\ x.pendingRun # NoRun => x.pendingRun.job = j /\ x.pendingRun.startedAt # 0
    /\ x.kind = "recurring" \/ ~x.done => x.nextFire # 0
    /\ x.done /\ x.pendingRun = NoRun => x.lastStatus = "running"

BootReject(j) == pc' = IF StoredJobOK(j) THEN pc ELSE "inconsistent"

(* A pending notification is finished by the Run loop; an idle job is kept. *)
BootKeep(j) ==
    LET pending == disk[j].pendingRun # NoRun IN
    /\ NextLoaded(j)
    /\ IF pending THEN disk[j].pendingNotification # "none"
                  ELSE disk[j].lastStatus # "running"
    /\ BootReject(j)
    /\ todo' = todo \ {j}
    /\ mem' = Put(mem, j, disk[j])
    /\ running' = IF pending THEN running \cup {j} ELSE running
    /\ UNCHANGED <<disk, archive, transcript, wake, local, timerAt, ctxDone, outbound, now,
                   issued, calls, faults, history>>

(* markInterrupted and interruptedRecord; finishPendingRun follows. *)
(* fault: the record is forgotten *)
InterruptedUnrecorded(j) ==
    [disk[j] EXCEPT !.lastStatus = "interrupted", !.unavailableNotified = FALSE]
Interrupted(j) ==
    [disk[j] EXCEPT !.lastStatus = "interrupted", !.unavailableNotified = FALSE,
                    !.pendingRun = [job |-> j, startedAt |-> disk[j].lastRunAt,
                                    scheduledFor |-> disk[j].lastScheduledFor,
                                    finishedAt |-> now, status |-> "interrupted",
                                    notifyError |-> FALSE]]

BootInterrupt(j) ==
    /\ NextLoaded(j) /\ disk[j].pendingRun = NoRun /\ disk[j].lastStatus = "running"
    /\ BootReject(j)
    /\ StoreJob(j, Interrupted(j))
    /\ UNCHANGED <<archive, transcript, mem, running, wake, local, timerAt, todo, ctxDone,
                   outbound, now, issued, calls, faults, history>>

(* fault: a marker whose notification is owed is archived too *)
BootFinishingOwed(j) == NextLoaded(j) /\ disk[j].pendingRun # NoRun
BootFinishing(j) ==
    NextLoaded(j) /\ disk[j].pendingRun # NoRun /\ disk[j].pendingNotification = "none"

BootAppend(j) ==
    /\ BootFinishing(j) /\ disk[j].pendingRun \notin archive
    /\ IF Conflicts(disk[j].pendingRun)
       THEN pc' = "inconsistent" /\ UNCHANGED archive
       ELSE BootReject(j) /\ archive' = archive \cup {disk[j].pendingRun}
    /\ UNCHANGED <<disk, transcript, mem, running, wake, local, timerAt, todo, ctxDone,
                   outbound, now, issued, calls, faults, history>>

BootClear(j) ==
    /\ BootFinishing(j) /\ disk[j].pendingRun \in archive
    /\ BootReject(j)
    /\ todo' = todo \ {j}
    /\ IF disk[j].done
       THEN DeleteJob(j) /\ UNCHANGED mem
       ELSE LET x == [disk[j] EXCEPT !.pendingRun = NoRun]
            IN StoreJob(j, x) /\ mem' = Put(mem, j, x)
    /\ UNCHANGED <<archive, transcript, running, wake, local, timerAt, ctxDone, outbound,
                   now, issued, calls, faults, history>>

BootDone ==
    /\ pc = "boot" /\ todo = {}
    /\ pc' = IF Cardinality(DOMAIN mem) > MaxJobs THEN "inconsistent" ELSE "loop"
    /\ UNCHANGED <<disk, archive, transcript, mem, running, wake, local, timerAt, todo,
                   ctxDone, outbound, now, issued, calls, faults, history>>

-----------------------------------------------------------------------------
Init ==
    /\ disk = NoJobs /\ archive = {} /\ transcript = {}
    /\ mem = NoJobs /\ running = {} /\ wake = FALSE
    /\ pc = "down" /\ cur = 0 /\ run = NoRun /\ fctx = "run" /\ timerAt = 0
    /\ todo = {} /\ ctxDone = FALSE
    /\ outq = <<>> /\ inflight = <<>> /\ ack = "none"
    /\ now = 1 /\ issued = {} /\ calls = 0 /\ faults = 0
    /\ started = {} /\ intended = {} /\ sent = [r \in RunIDs |-> 0]

Call ==
    \E j \in Jobs :
        \/ \E s \in Schedules, n \in BOOLEAN, t \in 1 .. MaxTime : Create(j, s, n, t)
        \/ \E r \in BOOLEAN, s \in Schedules, m \in BOOLEAN, n \in BOOLEAN :
               Update(j, r, s, m, n)
        \/ Delete(j)

RunLoop ==
    \/ RunReturns \/ ResumePendingNotification \/ ClaimNextDue \/ GoToSleep
    \/ WakeUp \/ TimerFires
    \/ Execute \/ (\E o \in Outcomes : ExecuteReturns(o)) \/ PersistCompletion
    \/ Publish \/ PublishTimesOut \/ PublishAnswered
    \/ MarkNotificationDelivered \/ RecordDelivered \/ RecordInterrupted
    \/ StoreNotificationResult \/ AppendRunRecord \/ ClearPendingRun \/ WriteRefused

OutboundWorker == OutboundTake \/ \E d \in DeliveryResults : OutboundDeliver(d)

Reconcile ==
    \/ Boot \/ BootDone
    \/ \E j \in Jobs : BootKeep(j) \/ BootInterrupt(j) \/ BootAppend(j) \/ BootClear(j)

Fault == Stop \/ PersistDeadline \/ WriteFails \/ Exit \/ Crash

Next == Call \/ RunLoop \/ OutboundWorker \/ Reconcile \/ Fault \/ Tick

Spec == Init /\ [][Next]_vars

-----------------------------------------------------------------------------
Requests == [id : RunIDs, live : BOOLEAN]

StoreTypeOK ==
    /\ DOMAIN disk \subseteq issued /\ issued \subseteq Jobs
    /\ \A j \in DOMAIN disk : disk[j] \in JobRecords
    /\ archive \subseteq RunRecords /\ transcript \subseteq RunIDs

TableTypeOK ==
    /\ DOMAIN mem \subseteq issued
    /\ \A j \in DOMAIN mem : mem[j] \in JobRecords
    /\ running \subseteq DOMAIN mem /\ todo \subseteq DOMAIN disk

LoopTypeOK ==
    /\ pc \in PCs /\ cur \in Jobs \cup {0} /\ run \in RunRecords \cup {NoRun}
    /\ fctx \in {"run", "persist", "expired"} /\ timerAt \in Nat
    /\ wake \in BOOLEAN /\ ctxDone \in BOOLEAN

BusTypeOK ==
    /\ outq \in Seq(Requests) /\ inflight \in Seq(Requests)
    /\ ack \in {"none", "ok", "err"}

CountersTypeOK ==
    /\ now \in 1 .. MaxTime /\ calls \in 0 .. MaxCalls /\ faults \in 0 .. MaxFaults
    /\ started \subseteq [job : Jobs, startedAt : Nat, scheduledFor : Nat]
    /\ intended \subseteq RunIDs /\ sent \in [RunIDs -> Nat]

TypeOK == StoreTypeOK /\ TableTypeOK /\ LoopTypeOK /\ BusTypeOK /\ CountersTypeOK

(* The run a job's recovery marker stands for is on disk. *)
Marked(j, id) ==
    j \in DOMAIN disk /\ disk[j].pendingRun # NoRun /\ RunID(disk[j].pendingRun) = id

Archived(id) == \E r \in archive : RunID(r) = id

(* The record a run has so far: in the archive, or in its job's marker. *)
RecordsOf(id) ==
    {r \in archive : RunID(r) = id} \cup
    {disk[j].pendingRun : j \in {k \in DOMAIN disk : Marked(k, id)}}

(***************************************************************************)
(* No sequence of calls, runs, stops and crashes leads the manager to      *)
(* refuse what it wrote itself: NewManager rejecting a stored job or the   *)
(* number of them, AppendRunRecord meeting a record of the same identity   *)
(* with other contents, a notification intent gone when its delivery is to *)
(* be recorded (manager.go:142, 186, 205, 1005; store.go:253).             *)
(***************************************************************************)
NeverInconsistent == pc # "inconsistent"

(***************************************************************************)
(* The executions of one job have different start times (so different run  *)
(* IDs) and, in that order, strictly later occurrences: a late job is run  *)
(* once for all the occurrences it missed and a crash replays none, over   *)
(* reschedules too (claimNextDue, NewManager).                             *)
(***************************************************************************)
OccurrencesAdvance ==
    \A a, b \in started :
        a.job = b.job /\ a # b =>
            \/ a.startedAt < b.startedAt /\ a.scheduledFor < b.scheduledFor
            \/ b.startedAt < a.startedAt /\ b.scheduledFor < a.scheduledFor

(***************************************************************************)
(* A one-shot that ran and is armed again, ran into an unavailable model,  *)
(* and the store holds that run's record (executeClaimed's retry policy    *)
(* together with NewManager's recovery of a completed one-shot).           *)
(***************************************************************************)
OnlyUnavailableOneShotsRetry ==
    \A j \in DOMAIN disk :
        disk[j].kind = "oneshot" /\ ~disk[j].done /\ disk[j].lastStatus # "pending" =>
            \E r \in RecordsOf(<<j, disk[j].lastRunAt>>) : r.status = "model_unavailable"

(***************************************************************************)
(* A notification intent that was persisted is still on disk, or its run's *)
(* record says that delivery failed, or the message was recorded in the    *)
(* transcript: no crash loses it (types.go:159-165, finalizePendingRun).   *)
(***************************************************************************)
IntentNeverLost ==
    \A id \in intended :
        \/ Marked(id[1], id) /\ disk[id[1]].pendingNotification # "none"
        \/ \E r \in RecordsOf(id) : r.notifyError \/ id \in transcript

(***************************************************************************)
(* What is recorded in the conversation history was delivered, and a job   *)
(* that suppresses unavailable notifications has had one delivered and     *)
(* recorded (docs/configuration.md: "suppressed only after the transport   *)
(* acknowledges delivery").                                                *)
(***************************************************************************)
RecordedWasDelivered == \A id \in transcript : sent[id] > 0

SuppressionWasEarned ==
    \A j \in DOMAIN disk :
        disk[j].unavailableNotified =>
            \E id \in transcript :
                id[1] = j /\ \E r \in RecordsOf(id) : r.status = "model_unavailable"

(* The three together: what the files say of a notification, a crash or a  *)
(* failed write in between included, is what happened to it.               *)
NotificationsAreTrue == IntentNeverLost /\ RecordedWasDelivered /\ SuppressionWasEarned

(***************************************************************************)
(* Once a delivery is on disk the message is never sent again, by a        *)
(* recovery, a retry or a request whose publisher gave up                  *)
(* (markNotificationDelivered, PublishOutboundAndWaitForDelivery).         *)
(***************************************************************************)
AckedNeverResent ==
    [][\A j \in DOMAIN disk :
          disk[j].pendingNotification = "delivered" =>
              sent'[RunID(disk[j].pendingRun)] = sent[RunID(disk[j].pendingRun)]]_vars

(***************************************************************************)
(* While a job executes or is finalized it stays in the table, marked      *)
(* running, and apart from it the table is exactly what is on disk         *)
(* (Update's and Delete's running check, executeClaimed's stillExists).    *)
(***************************************************************************)
TableMatchesStore ==
    pc \in Serving =>
        /\ DOMAIN mem = DOMAIN disk
        /\ \A j \in DOMAIN mem : mem[j] = disk[j] \/ (j = cur /\ Locked)
        /\ pc \in Busy => cur \in running /\ cur \in DOMAIN mem

(***************************************************************************)
(* The durable state as a ledger of runs.                                  *)
(***************************************************************************)
PhaseOf(id) ==
    CASE Archived(id) -> "archived"
      [] ~Archived(id) /\ Marked(id[1], id) ->
            (CASE disk[id[1]].pendingNotification = "intent" -> "owed"
               [] disk[id[1]].pendingNotification = "delivered" -> "acknowledged"
               [] disk[id[1]].pendingNotification = "none" -> "settled")
      [] ~Archived(id) /\ ~Marked(id[1], id) ->
            IF /\ id[1] \in DOMAIN disk /\ disk[id[1]].pendingRun = NoRun
               /\ disk[id[1]].lastStatus = "running" /\ disk[id[1]].lastRunAt = id[2]
            THEN "claimed" ELSE "unclaimed"

StatusesOf(id) == {r.status : r \in RecordsOf(id)}
StatusIn(id) == IF StatusesOf(id) = {} THEN "none" ELSE CHOOSE s \in StatusesOf(id) : TRUE

Ledger == INSTANCE RunLedger WITH
    Statuses <- Archivable, NoStatus <- "none",
    phase <- [id \in RunIDs |-> PhaseOf(id)],
    status <- [id \in RunIDs |-> StatusIn(id)],
    failed <- [id \in RunIDs |-> \E r \in RecordsOf(id) : r.notifyError]

(* Every run goes through the ledger's life exactly once, and no crash,    *)
(* stop or failed write is visible in it: it is claimed before it runs,    *)
(* never claimed twice, keeps the status it finished with, and is archived *)
(* after its notification is settled (claimNextDue to finishPendingRun,    *)
(* and their continuation in NewManager).                                  *)
ImplementsLedger == Ledger!Spec

(***************************************************************************)
(* Liveness.  The scheduler goroutine keeps taking steps (the executor and *)
(* the publisher are bounded by timeouts), a cancelled process exits (its  *)
(* join is bounded), and a dead one is started again by its supervisor.    *)
(***************************************************************************)
Fairness == WF_vars(RunLoop) /\ WF_vars(Exit) /\ WF_vars(Reconcile)
FairSpec == Spec /\ Fairness

(* Every run handed to the executor ends up archived, whatever crashed     *)
(* (executeClaimed, finalizePendingRun, NewManager).                       *)
StartedRunsAreArchived ==
    \A id \in RunIDs : (\E s \in started : RunID(s) = id) ~> Archived(id)

(* A due job is claimed, or its schedule changes: neither the timer, the   *)
(* wake token nor an older job makes it wait for ever (Run, notifyWake).   *)
DueOnDisk(j) ==
    j \in DOMAIN disk /\ ~disk[j].done /\ disk[j].nextFire # 0 /\ disk[j].nextFire <= now
DueJobsAreClaimed == \A j \in Jobs : DueOnDisk(j) ~> ~DueOnDisk(j)

(* The scheduler keeps going (Run, executeClaimed, NewManager).            *)
SchedulerProgresses == StartedRunsAreArchived /\ DueJobsAreClaimed
=============================================================================
