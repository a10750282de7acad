------------------------- MODULE SchedulerInvariant -------------------------
(***************************************************************************)
(* The inductive invariant behind the theorems of SchedulerProofs: what    *)
(* every job file satisfies on its own (JobSound), how it relates to the   *)
(* archive (ArchiveSound) and to the executions handed out (StartedSound), *)
(* and how the table of a live manager and the step it is in relate to the *)
(* files (TableSound, StepSound).                                          *)
(***************************************************************************)
EXTENDS Scheduler

(* A job file by itself. *)
JobSound(j, x) ==
    /\ x \in JobRecords
    /\ x.lastRunAt <= now /\ x.lastScheduledFor <= x.lastRunAt
    /\ x.pendingNotification # "none" => x.pendingRun # NoRun
    /\ x.pendingRun # NoRun =>
          /\ x.pendingRun.job = j /\ x.pendingRun.startedAt = x.lastRunAt
          /\ x.lastStatus # "running" /\ x.lastRunAt # 0
    /\ x.lastStatus = "running" => x.lastRunAt # 0
    /\ x.kind = "recurring" => ~x.done /\ x.cron \in Crons
    /\ ~x.done => x.nextFire > x.lastRunAt
    /\ x.done /\ x.pendingRun = NoRun => x.lastStatus = "running"

(* Its runs in the archive are the earlier ones, and the current one only  *)
(* once it is finished and its notification settled.                       *)
ArchiveSound(j, x) ==
    \A r \in archive :
        r.job = j =>
            /\ r.startedAt <= x.lastRunAt
            /\ r.startedAt = x.lastRunAt =>
                  /\ x.lastStatus # "running" /\ x.pendingNotification = "none"
                  /\ x.pendingRun # NoRun => x.pendingRun = r

(* Its executions are the current run and earlier ones, for earlier        *)
(* occurrences.                                                            *)
StartedSound(j, x) ==
    \A s \in started :
        s.job = j =>
            \/ s.startedAt < x.lastRunAt /\ s.scheduledFor < x.lastScheduledFor
            \/ s.startedAt = x.lastRunAt /\ s.scheduledFor = x.lastScheduledFor

StoreSound ==
    /\ IsFiniteSet(DOMAIN disk) /\ Cardinality(DOMAIN disk) <= MaxJobs
    /\ \A j \in DOMAIN disk : JobSound(j, disk[j])
    /\ \A j \in DOMAIN disk : ArchiveSound(j, disk[j])
    /\ \A j \in DOMAIN disk : StartedSound(j, disk[j])
    /\ \A r \in archive : r.job \in issued
    /\ \A s \in started : s.job \in issued

Idle(x) == x.pendingRun = NoRun /\ x.lastStatus # "running"

TableSound ==
    /\ pc \in Serving => DOMAIN mem = DOMAIN disk /\ todo = {}
    /\ pc = "boot" => DOMAIN mem = DOMAIN disk \ todo
    /\ pc = "down" => DOMAIN mem = {}
    /\ pc \in Serving \cup {"boot"} =>
          \A j \in DOMAIN mem :
              /\ mem[j] = disk[j] \/ (j = cur /\ Locked)
              /\ j \notin running => Idle(mem[j]) /\ mem[j] = disk[j]

StepSound ==
    /\ pc \in Busy => cur \in running /\ cur \in DOMAIN disk
    /\ pc = "claimed" =>
          \A s \in started : s.job = cur => s.startedAt # disk[cur].lastRunAt
    /\ pc \in {"claimed", "executing", "executed"} => disk[cur].lastStatus = "running"
    /\ pc = "executed" =>
          /\ run \in RunRecords /\ run.job = cur /\ run.startedAt = disk[cur].lastRunAt
          /\ run.finishedAt >= run.startedAt /\ run.finishedAt <= now
    /\ pc \in Finalizing => disk[cur].pendingRun # NoRun
    /\ pc \in {"publishing", "awaiting", "marking", "recording", "archiveUndelivered"} =>
          disk[cur].pendingNotification # "none"
    /\ Locked => disk[cur].pendingNotification = "none"
    /\ pc = "clear" => disk[cur].pendingRun \in archive

IInv == TypeOK /\ StoreSound /\ TableSound /\ StepSound
        /\ NeverInconsistent /\ OccurrencesAdvance

(***************************************************************************)
(* What the notifications add: how far the notification of the job         *)
(* being finalized has come (DeliverySound), and which requests the bus    *)
(* still holds (QueueSound).                                               *)
(***************************************************************************)
ArchiveKeyed == \A a, b \in archive : RunID(a) = RunID(b) => a = b

CurID == RunID(disk[cur].pendingRun)

(* The step follows the notification in the file of cur. *)
NotePlaced ==
    /\ pc \in {"publishing", "awaiting", "marking", "archiveUndelivered"} =>
          disk[cur].pendingNotification = "intent"
    /\ pc = "recording" => disk[cur].pendingNotification = "delivered"
    /\ pc = "archive" => \/ disk[cur].pendingNotification = "none"
                         \/ disk[cur].pendingNotification = "delivered" /\ CurID \in transcript

(* An acknowledgement, on its way or on disk, is of a message that was sent. *)
AnswerTrue == pc = "marking" \/ ack = "ok" => sent[CurID] > 0

DeliveredSent ==
    \A j \in DOMAIN disk :
        disk[j].pendingNotification = "delivered" => sent[RunID(disk[j].pendingRun)] > 0

(* A delivery error is recorded only when the notification is settled. *)
NoErrorYet ==
    /\ pc = "executed" => ~run.notifyError
    /\ \A j \in DOMAIN disk :
          disk[j].pendingNotification # "none" => ~disk[j].pendingRun.notifyError

DeliverySound == NotePlaced /\ AnswerTrue /\ DeliveredSent /\ NoErrorYet

(* Only the request of the waiting publisher is live, and it is the last;  *)
(* none is left when its answer is there, nor while the delivery is marked. *)
Awaited(q) == q.live => pc = "awaiting" /\ ack = "none" /\ q.id = CurID

LastIsLive ==
    /\ \A i \in 1 .. Len(outq) : Awaited(outq[i]) /\ (outq[i].live => i = Len(outq))
    /\ inflight = <<>> \/ (Len(inflight) = 1 /\ Awaited(inflight[1])
                            /\ (inflight[1].live => outq = <<>>))

AnswerIsLast ==
    /\ ack # "none" => pc = "awaiting" /\ outq = <<>> /\ inflight = <<>>
    /\ pc = "marking" => outq = <<>> /\ inflight = <<>>

(* No request of a delivered notification is left. *)
DeliveredIsGone ==
    \A j \in DOMAIN disk :
        disk[j].pendingNotification = "delivered" =>
            /\ \A i \in 1 .. Len(outq) : outq[i].id # RunID(disk[j].pendingRun)
            /\ \A i \in 1 .. Len(inflight) : inflight[i].id # RunID(disk[j].pendingRun)

QueueSound == LastIsLive /\ AnswerIsLast /\ DeliveredIsGone

DInv == /\ IInv /\ ArchiveKeyed /\ DeliverySound /\ QueueSound
        /\ OnlyUnavailableOneShotsRetry /\ NotificationsAreTrue
=============================================================================
