----------------------------- MODULE Subagents -----------------------------
(***************************************************************************)
(* The delegated sessions of tools/subagent: Manager.Start, the run        *)
(* goroutine of each session, Kill, Write, retention, and the record       *)
(* directory a restarted manager restores (records.go, names.go). What the *)
(* engine does in a run is its outcome; texts and tails are abstracted.    *)
(***************************************************************************)
EXTENDS Integers, Sequences, FiniteSets

CONSTANTS Sessions,       \* 1..n: the sequence numbers session IDs end in
          MaxLogs,        \* maxFinishedSessionLogs
          MaxRecords,     \* maxFinishedSessionRecords
          MaxSubFaults,   \* bound: failed writes and removals
          MaxBoots,       \* bound: starts of the process
          MaxMessages     \* bound: subagent_write calls that are accepted

ASSUME RetentionAssumption ==
    /\ IsFiniteSet(Sessions) /\ Sessions = 1..Cardinality(Sessions)
    /\ {MaxLogs, MaxRecords, MaxSubFaults, MaxBoots, MaxMessages} \subseteq Nat /\ MaxLogs <= MaxRecords

VARIABLES mgr,      \* "down", "up", "closing"
          sub,      \* Manager.sessions and what became of each session
          files,    \* <id>.json
          seqFile,  \* .sequence
          subNext,  \* Manager.next
          tick,     \* the clock of finishedAt
          everUsed, \* history: IDs handed to a session or a record, per boot
          budget    \* faults, boots and messages so far

subVars == <<mgr, sub, files, seqFile, subNext, tick, everUsed, budget>>

Ended == {"completed", "failed", "killed", "interrupted"}
NoSession == [st |-> "none", run |-> "none", fin |-> 0, pending |-> 0, limitTold |-> FALSE,
              evicted |-> FALSE, perr |-> FALSE, ctx |-> TRUE]
NoFile == [st |-> "none", fin |-> 0]

\* fault: the record of an ended session lacks its finish time.
SubRecordUnstamped(s) == [st |-> s.st, fin |-> 0]

SubRecord(s) == [st |-> s.st, fin |-> s.fin]

\* sessionRecord.validate: a finish time exactly for finished sessions.
ValidRecord(f) == f.st = "none" \/ (f.st = "running" /\ f.fin = 0) \/ (f.st \in Ended /\ f.fin > 0)

SubInit ==
    /\ mgr = "down" /\ seqFile = 0 /\ subNext = 0 /\ tick = 0
    /\ sub = [i \in Sessions |-> NoSession]
    /\ files = [i \in Sessions |-> NoFile]
    /\ everUsed = <<>>
    /\ budget = [faults |-> 0, boots |-> 0, messages |-> 0]

\* A fault that is still within the bound.
SubFault == budget.faults < MaxSubFaults /\ budget' = [budget EXCEPT !.faults = @ + 1]

\* recordStore.save: the outcomes of an atomic write. A failed directory sync reports an error
\* although the new file is installed.
Saved(i, rec, ok) ==
    \/ ok /\ files' = [files EXCEPT ![i] = rec] /\ UNCHANGED budget
    \/ ~ok /\ SubFault /\ files' \in {files, [files EXCEPT ![i] = rec]}

-----------------------------------------------------------------------------
\* fault: every reservation takes two numbers.
allocateTwo(ok) ==
    /\ subNext' = subNext + 2
    /\ \/ ok /\ seqFile' = subNext' /\ UNCHANGED budget
       \/ ~ok /\ SubFault /\ seqFile' \in {seqFile, subNext'}

\* allocateIDLocked: the number is durable before the ID is used; a failed write skips it.
allocateIDLocked(ok) ==
    /\ subNext' = subNext + 1
    /\ \/ ok /\ seqFile' = subNext' /\ UNCHANGED budget
       \/ ~ok /\ SubFault /\ seqFile' \in {seqFile, subNext'}

\* Start, up to the failed reservation of an ID.
SubStartFails ==
    /\ mgr = "up" /\ subNext + 1 \in Sessions
    /\ allocateIDLocked(FALSE)
    /\ UNCHANGED <<mgr, sub, files, tick, everUsed>>

\* Start: the record "running" is written before the goroutine is started; if that fails there is
\* no session, whatever the directory holds.
SubStart ==
    /\ mgr = "up" /\ subNext + 1 \in Sessions
    /\ LET i == subNext + 1
       IN /\ everUsed' = everUsed \o <<i>>
          /\ \/ /\ allocateIDLocked(TRUE)
                /\ files' = [files EXCEPT ![i] = [st |-> "running", fin |-> 0]]
                /\ sub' = [sub EXCEPT ![i] = [NoSession EXCEPT !.st = "running", !.run = "engine"]]
             \/ /\ subNext' = i /\ seqFile' = i /\ SubFault
                /\ files' \in {files, [files EXCEPT ![i] = [st |-> "running", fin |-> 0]]}
                /\ UNCHANGED sub
    /\ UNCHANGED <<mgr, tick>>

\* The observer of the engine's events: saveSessionLocked while running; a failed save cancels the run.
observer(i) ==
    /\ sub[i].run = "engine" /\ sub[i].st = "running"
    /\ Saved(i, SubRecord(sub[i]), FALSE)
    /\ sub' = [sub EXCEPT ![i].perr = TRUE, ![i].ctx = FALSE]
    /\ UNCHANGED <<mgr, seqFile, subNext, tick, everUsed>>

\* fault: a session with unread parent messages completes although turns remain.
CompletesEarly(s, turnsLeft) == TRUE

\* A run without error is the last one unless parent messages wait and turns remain for them.
Completes(s, turnsLeft) == s.pending = 0 \/ ~turnsLeft

\* engine.Run returns: what run decides under the session's lock.
EngineReturns(i, err, turnsLeft) ==
    /\ sub[i].run = "engine"
    /\ LET s == sub[i]
           end(st) == [s EXCEPT !.st = st, !.run = "defer"]
       IN sub' = [sub EXCEPT ![i] =
            IF s.st \in {"killed", "interrupted"} THEN end(s.st)
            ELSE IF ~s.ctx \/ err \/ s.perr THEN end("failed")
            ELSE IF Completes(s, turnsLeft)
                 THEN [end("completed") EXCEPT !.limitTold = s.pending > 0 /\ ~turnsLeft]
            ELSE [s EXCEPT !.pending = 0]]
    /\ UNCHANGED <<mgr, files, seqFile, subNext, tick, everUsed, budget>>

\* fault: a killed session is not settled.
runDeferredNotKilled(i) ==
    /\ sub[i].run = "defer" /\ sub[i].st # "killed"
    /\ tick' = tick + 1
    /\ LET s == [sub[i] EXCEPT !.fin = tick + 1, !.ctx = FALSE, !.run = "evict"]
       IN Saved(i, SubRecord(s), TRUE) /\ sub' = [sub EXCEPT ![i] = s]
    /\ UNCHANGED <<mgr, seqFile, subNext, everUsed>>

\* run's deferred bookkeeping: the finish time, the record, and the visible failure of a session
\* whose record could not be written, which is tried once more.
runDeferred(i) ==
    /\ sub[i].run = "defer"
    /\ tick' = tick + 1
    /\ LET s == [sub[i] EXCEPT !.fin = tick + 1, !.ctx = FALSE, !.run = "evict"]
           failed == [s EXCEPT !.st = IF @ = "completed" THEN "failed" ELSE @, !.perr = TRUE]
       IN IF s.perr
          THEN \/ Saved(i, SubRecord(failed), TRUE) /\ sub' = [sub EXCEPT ![i] = failed]
               \/ Saved(i, SubRecord(failed), FALSE) /\ sub' = [sub EXCEPT ![i] = failed]
          ELSE \/ Saved(i, SubRecord(s), TRUE) /\ sub' = [sub EXCEPT ![i] = s]
               \/ /\ SubFault /\ files' = [files EXCEPT ![i] = SubRecord(failed)]
                  /\ sub' = [sub EXCEPT ![i] = failed]
               \/ /\ budget.faults + 2 <= MaxSubFaults
                  /\ budget' = [budget EXCEPT !.faults = @ + 2]
                  /\ \E rec \in {files[i], SubRecord(s), SubRecord(failed)} :
                       files' = [files EXCEPT ![i] = rec]
                  /\ sub' = [sub EXCEPT ![i] = failed]
    /\ UNCHANGED <<mgr, seqFile, subNext, everUsed>>

-----------------------------------------------------------------------------
(* Retention *)

\* fault: a session counts as finished as soon as its status says so.
FinishedByStatus(s) == s.st \in Ended

\* A killed session is not finished before its run goroutine is: finishedAt is still zero.
Finished(s) == s.st \in Ended /\ s.fin > 0

\* How many finished sessions ended after session i.
Newer(t, i) == Cardinality({j \in Sessions : Finished(t[j]) /\
                   (t[j].fin > t[i].fin \/ (t[j].fin = t[i].fin /\ j > i))})

\* evictFinishedSessionsLocked over the table t: the logs it drops and the records it removes.
\* fault: one record more than the limit is kept.
RemovesOneLess(t) == {i \in Sessions : Finished(t[i]) /\ Newer(t, i) > MaxRecords}

Drops(t) == {i \in Sessions : Finished(t[i]) /\ Newer(t, i) >= MaxLogs}
Removes(t) == {i \in Sessions : Finished(t[i]) /\ Newer(t, i) >= MaxRecords}
Evicted(t, dropped, removed) ==
    [i \in Sessions |-> IF i \in removed THEN NoSession
                        ELSE IF i \in dropped THEN [t[i] EXCEPT !.evicted = TRUE] ELSE t[i]]
FilesWithout(f, removed) == [i \in Sessions |-> IF i \in removed THEN NoFile ELSE f[i]]

\* evictFinishedSessions, then done is closed.
evictFinishedSessions(i) ==
    /\ sub[i].run = "evict"
    /\ LET t == [sub EXCEPT ![i].run = "done"]
       IN \/ /\ sub' = Evicted(t, Drops(t), Removes(t))
             /\ files' = FilesWithout(files, Removes(t))
             /\ UNCHANGED budget
          \/ /\ SubFault
             /\ \E c \in Removes(t) :    \* the file of session c cannot be removed
                  LET older == {j \in Removes(t) : Newer(t, j) > Newer(t, c)}
                  IN sub' = Evicted(t, {c}, older) /\ files' = FilesWithout(files, older)
    /\ UNCHANGED <<mgr, seqFile, subNext, tick, everUsed>>

-----------------------------------------------------------------------------
(* The tools, shutdown and restart *)

SubWrite(i) ==
    /\ sub[i].st = "running" /\ budget.messages < MaxMessages
    /\ sub' = [sub EXCEPT ![i].pending = @ + 1]
    /\ budget' = [budget EXCEPT !.messages = @ + 1]
    /\ UNCHANGED <<mgr, files, seqFile, subNext, tick, everUsed>>

\* fault: a session that has ended is marked too.
SubKillAny(i) ==
    /\ sub[i].st # "none"
    /\ sub' = [sub EXCEPT ![i].st = "killed", ![i].ctx = FALSE]
    /\ UNCHANGED <<mgr, files, seqFile, subNext, tick, everUsed, budget>>

SubKill(i) ==
    /\ sub[i].st = "running"
    /\ sub' = [sub EXCEPT ![i].st = "killed", ![i].ctx = FALSE]
    /\ UNCHANGED <<mgr, files, seqFile, subNext, tick, everUsed, budget>>

\* The application's root context ends, with it every session's.
RootCancelled ==
    /\ mgr = "up" /\ \E i \in Sessions : sub[i].run = "engine" /\ sub[i].ctx
    /\ sub' = [i \in Sessions |-> [sub[i] EXCEPT !.ctx = FALSE]]
    /\ UNCHANGED <<mgr, files, seqFile, subNext, tick, everUsed, budget>>

\* Close marks the running sessions and cancels all of them.
SubClose ==
    /\ mgr = "up"
    /\ mgr' = "closing"
    /\ sub' = [i \in Sessions |-> [sub[i] EXCEPT !.ctx = FALSE,
                                                 !.st = IF @ = "running" THEN "interrupted" ELSE @]]
    /\ UNCHANGED <<files, seqFile, subNext, tick, everUsed, budget>>

\* The workers are done: the lock is released and the process ends.
SubClosed ==
    /\ mgr = "closing" /\ \A i \in Sessions : sub[i].run \in {"none", "done"}
    /\ mgr' = "down" /\ sub' = [i \in Sessions |-> NoSession]
    /\ UNCHANGED <<files, seqFile, subNext, tick, everUsed, budget>>

SubCrash ==
    /\ mgr # "down"
    /\ mgr' = "down" /\ sub' = [i \in Sessions |-> NoSession]
    /\ UNCHANGED <<files, seqFile, subNext, tick, everUsed, budget>>

\* loadSequence and load refuse what does not validate.
Restorable == /\ \A i \in Sessions : ValidRecord(files[i])
              /\ \A i \in Sessions : files[i].st # "none" => i <= seqFile

\* fault: the sequence continues after the highest record that is still there.
HighestRecord == CHOOSE n \in Sessions \union {0} :
    /\ n = 0 \/ files[n].st # "none"
    /\ \A i \in Sessions : files[i].st # "none" => i <= n

RestoredSequence == seqFile

\* Restore: sessions left running become interrupted, one file after the other; a failed write ends
\* the attempt with some of them rewritten. Eviction is applied to what was restored.
SubRestore ==
    /\ mgr = "down" /\ budget.boots < MaxBoots /\ Restorable
    /\ LET lost == {i \in Sessions : files[i].st = "running"}
           rec(i) == IF i \in lost THEN [st |-> "interrupted", fin |-> tick + 1] ELSE files[i]
           table == [i \in Sessions |-> IF files[i].st = "none" THEN NoSession
                        ELSE [NoSession EXCEPT !.st = rec(i).st, !.fin = rec(i).fin,
                                               !.run = "done", !.ctx = FALSE]]
       IN \/ /\ mgr' = "up" /\ subNext' = RestoredSequence
             /\ sub' = Evicted(table, Drops(table), Removes(table))
             /\ files' = FilesWithout([i \in Sessions |-> rec(i)], Removes(table))
             /\ budget' = [budget EXCEPT !.boots = @ + 1]
          \/ /\ lost # {} /\ budget.faults < MaxSubFaults
             /\ \E done \in SUBSET lost :
                  files' = [i \in Sessions |-> IF i \in done THEN rec(i) ELSE files[i]]
             /\ budget' = [budget EXCEPT !.boots = @ + 1, !.faults = @ + 1]
             /\ UNCHANGED <<mgr, sub, subNext>>
    /\ tick' = tick + 1
    /\ UNCHANGED <<seqFile, everUsed>>

SubNext ==
    \/ SubStart \/ SubStartFails \/ RootCancelled \/ SubClose \/ SubClosed \/ SubCrash \/ SubRestore
    \/ \E i \in Sessions : observer(i) \/ runDeferred(i) \/ evictFinishedSessions(i) \/ SubWrite(i) \/ SubKill(i)
    \/ \E i \in Sessions, err, left \in BOOLEAN : EngineReturns(i, err, left)

SubSpec == SubInit /\ [][SubNext]_subVars

\* The goroutine of a session.
SessionStep(i) ==
    \/ \E err, left \in BOOLEAN : EngineReturns(i, err, left)
    \/ runDeferred(i) \/ evictFinishedSessions(i)

\* Goroutines keep running and an engine run ends: its turns are bounded and its calls time out.
SubFairness == \A i \in Sessions : WF_subVars(SessionStep(i))

-----------------------------------------------------------------------------
SubTypeOK ==
    /\ mgr \in {"down", "up", "closing"}
    /\ \A i \in Sessions :
         /\ sub[i].st \in {"none", "running"} \union Ended
         /\ sub[i].run \in {"none", "engine", "defer", "evict", "done"}
         /\ sub[i].pending \in 0..MaxMessages
    /\ seqFile \in 0..Cardinality(Sessions) /\ subNext \in 0..Cardinality(Sessions)

\* Whatever crashed or failed where, the next process can restore the directory: every record is
\* valid and no record is newer than the reserved sequence number.
AlwaysRestorable == Restorable

\* A session ID is never used for two sessions, although retention deletes records and a crash
\* forgets the counter in memory: the number is reserved on disk first.
IdsAreNeverReused == \A a, b \in DOMAIN everUsed : everUsed[a] = everUsed[b] => a = b

\* A session whose goroutine still runs keeps its place in the table, its log and its record, even
\* when subagent_kill has already given it a final status.
LiveSessionsAreKept ==
    \A i \in Sessions : sub[i].run \in {"engine", "defer"} =>
        sub[i].st # "none" /\ ~sub[i].evicted /\ files[i].st # "none"

\* A message subagent_write accepted is not dropped in silence: a session completes with none left,
\* or its log tells that the turn budget ended first.
NoMessageIgnored ==
    \A i \in Sessions : sub[i].st = "completed" => sub[i].pending = 0 \/ sub[i].limitTold

\* Once done is closed a session's state is final for waiters and readers, until it is evicted or
\* the process ends.
DoneIsFinal ==
    \A i \in Sessions : sub[i].run = "done" /\ sub'[i].run = "done" =>
       sub'[i].st = sub[i].st /\ sub'[i].fin = sub[i].fin

\* Retention holds whenever no removal failed: at most MaxRecords finished records are kept.
RetentionHolds ==
    budget.faults = 0 /\ mgr = "up" /\ (\A i \in Sessions : sub[i].run \notin {"defer", "evict"}) =>
        /\ Cardinality({i \in Sessions : Finished(sub[i])}) <= MaxRecords
        /\ Cardinality({i \in Sessions : Finished(sub[i]) /\ ~sub[i].evicted}) <= MaxLogs

\* What must end: the goroutine of a killed session (a session is killed once, so all of them end when each does).
KilledRunning == \E i \in Sessions : sub[i].st = "killed" /\ sub[i].run \notin {"done", "none"}
=============================================================================
