---------------------------- MODULE ExecSessions ----------------------------
(***************************************************************************)
(* One session of the q15-exec service and the exec tools that use it:     *)
(* systems/exec/internal/service (Manager, the executor's process) and     *)
(* agent/internal/tools/exec (exec, exec_read, exec_write, exec_kill).     *)
(* The manager's sessions share only the table they are found in, so one   *)
(* session is modelled; the event with index i is sev[i].                  *)
(***************************************************************************)
EXTENDS Integers, Sequences, FiniteSets, SequencesExt

CONSTANTS MaxChunks,     \* bound: reads of 4096 bytes per output stream
          MaxCalls,      \* bound: tool calls
          Budgets,       \* the values of max_output_chars tried
          ErrTexts       \* what stderr may say: which lines are nix noise, and which white space
ErrLines == {"err"} \X Nat \X {1, 2}
ASSUME ExecAssumption ==
    /\ MaxChunks \in Nat /\ Budgets \subseteq Nat
    /\ ErrTexts \subseteq [noise : SUBSET ErrLines, blank : SUBSET ErrLines]

VARIABLES sst,     \* managedSession.state
          stdin,   \* stdinOpen, and the pipe's own state
          proc,    \* the operating system's process and its pipes
          capture, \* the two captureStream goroutines
          sev,     \* events
          killers, \* TerminateSession calls between the state and the signal
          writer,  \* the WriteSessionStdin call that holds stdinMu
          tool,    \* the exec or exec_read call in progress
          report,  \* what the last one returned
          calls    \* tool calls made

execVars == <<sst, stdin, proc, capture, sev, killers, writer, tool, report, calls>>

Streams == {"out", "err"}
Callers == {"exec_kill", "cancelled_exec"}
TerminalStates == {"exited", "terminated", "failed"}
SessionStates == {"none", "running", "terminating"} \union TerminalStates
Selections == {{"out"}, {"err"}, Streams}

Event(k) == [kind |-> k, n |-> 0]
IsOutput(e) == e.kind \in Streams
isTerminalEvent(e) == e.kind \in {"exited", "terminated"}

\* A chunk is two lines long, so that a budget can cut it and a filter take one of them.
Data(e) == << <<e.kind, e.n, 1>>, <<e.kind, e.n, 2>> >>

IdleTool == [pc |-> "idle", op |-> "exec", from |-> 0, cursor |-> 0, upto |-> 0, end |-> FALSE,
             timedOut |-> FALSE, seen |-> "none", streams |-> Streams, room |-> 0,
             trunc |-> FALSE, buf |-> [s \in Streams |-> <<>>],
             zero |-> FALSE, noise |-> {}, blank |-> {}, shown |-> [s \in Streams |-> <<>>]]

ExecInit ==
    /\ sst = "none" /\ stdin = [open |-> FALSE, pipe |-> FALSE]
    /\ proc = [alive |-> FALSE, child |-> FALSE, sig |-> "none", wait |-> "no",
               made |-> [s \in Streams |-> 0], pipe |-> [s \in Streams |-> <<>>]]
    /\ capture = [held |-> [s \in Streams |-> <<>>], done |-> {}]
    /\ sev = <<>> /\ killers = [c \in Callers |-> "idle"] /\ writer = "idle"
    /\ tool = IdleTool /\ report = IdleTool
    /\ calls = 0

-----------------------------------------------------------------------------
(* The process: what the executor's pipes and the operating system do. *)

\* The command writes a chunk; a background child may write too.
ProcessWrites(s) ==
    /\ proc.alive \/ proc.child
    /\ proc.made[s] < MaxChunks
    /\ proc' = [proc EXCEPT !.made[s] = @ + 1,
                            !.pipe[s] = Append(@, [kind |-> s, n |-> proc.made[s] + 1])]
    /\ UNCHANGED <<sst, stdin, capture, sev, killers, writer, tool, report, calls>>

\* The command ends, leaving perhaps a child that holds its output pipes.
ProcessExits(child) ==
    /\ proc.alive
    /\ proc' = [proc EXCEPT !.alive = FALSE, !.child = child]
    /\ UNCHANGED <<sst, stdin, capture, sev, killers, writer, tool, report, calls>>

ChildExits ==
    /\ proc.child
    /\ proc' = [proc EXCEPT !.child = FALSE]
    /\ UNCHANGED <<sst, stdin, capture, sev, killers, writer, tool, report, calls>>

\* cmd.Wait copies the pipes to their end before it returns, closes the parent's end of stdin,
\* and RunningCommand.Wait then closes both pipe writers. A wait may fail without an exit code.
ProcessWait(result) ==
    /\ sst # "none" /\ ~proc.alive /\ ~proc.child /\ proc.wait = "no"
    /\ \A s \in Streams : proc.pipe[s] = <<>>
    /\ proc' = [proc EXCEPT !.wait = result]
    /\ stdin' = [stdin EXCEPT !.pipe = FALSE]
    /\ UNCHANGED <<sst, capture, sev, killers, writer, tool, report, calls>>

-----------------------------------------------------------------------------
(* The manager's goroutines of the session. *)

\* captureStream reads a chunk; the writer of the synchronous pipe may go on at once.
CaptureRead(s) ==
    /\ s \notin capture.done /\ capture.held[s] = <<>> /\ proc.pipe[s] # <<>>
    /\ capture' = [capture EXCEPT !.held[s] = <<Head(proc.pipe[s])>>]
    /\ proc' = [proc EXCEPT !.pipe[s] = Tail(@)]
    /\ UNCHANGED <<sst, stdin, sev, killers, writer, tool, report, calls>>

\* appendOutput under session.mu.
appendOutput(s) ==
    /\ capture.held[s] # <<>>
    /\ sev' = sev \o capture.held[s]
    /\ capture' = [capture EXCEPT !.held[s] = <<>>]
    /\ UNCHANGED <<sst, stdin, proc, killers, writer, tool, report, calls>>

\* fault: the goroutine of a stream that never carried output does not report its end.
captureStreamSilent(s) ==
    /\ s \notin capture.done /\ proc.wait # "no" /\ capture.held[s] = <<>> /\ proc.made[s] > 0
    /\ capture' = [capture EXCEPT !.done = @ \union {s}]
    /\ UNCHANGED <<sst, stdin, proc, sev, killers, writer, tool, report, calls>>

\* The pipe's writer is closed: EOF, and session.streams.Done.
captureStream(s) ==
    /\ s \notin capture.done /\ proc.wait # "no" /\ capture.held[s] = <<>>
    /\ capture' = [capture EXCEPT !.done = @ \union {s}]
    /\ UNCHANGED <<sst, stdin, proc, sev, killers, writer, tool, report, calls>>

\* fault: the exit is recorded as soon as Wait returns, without waiting for the streams.
StreamsNotAwaited == TRUE

\* session.streams.Wait returns.
StreamsDrained == capture.done = Streams

\* The state and the event waitForExit records; exit codes are abstracted to whether there is one.
ExitState == IF sst = "terminating" THEN "terminated"
             ELSE IF proc.wait = "err" THEN "failed" ELSE "exited"

\* fault: the event is named after the state, which no watcher takes for the end of a failed session.
ExitEventNamedAfterState == Event(ExitState)

ExitEvent == Event(IF ExitState = "exited" THEN "exited" ELSE "terminated")

waitForExit ==
    /\ proc.wait # "no" /\ sst \in {"running", "terminating"}
    /\ StreamsDrained
    /\ sst' = ExitState
    /\ sev' = Append(sev, ExitEvent)
    /\ UNCHANGED <<stdin, proc, capture, killers, writer, tool, report, calls>>

-----------------------------------------------------------------------------
(* TerminateSession: the state changes under the lock, the signal follows. *)

TerminateSession(c, force) ==
    /\ killers[c] = "idle" /\ sst # "none"
    /\ IF sst \in TerminalStates
       THEN UNCHANGED <<sst, killers>>
       ELSE /\ sst' = "terminating"
            /\ killers' = [killers EXCEPT ![c] = IF force THEN "kill" ELSE "term"]

\* process.Terminate: a signal to a process that ended is no error; one that fails leaves TERMINATING.
SendSignal(c) ==
    /\ killers[c] # "idle"
    /\ \/ proc' = [proc EXCEPT !.sig = IF proc.alive /\ @ # "kill" THEN killers[c] ELSE @]
       \/ proc' = proc
    /\ killers' = [killers EXCEPT ![c] = "idle"]
    /\ UNCHANGED <<sst, stdin, capture, sev, writer, tool, report, calls>>

ExecKill(force) ==
    /\ calls < MaxCalls
    /\ calls' = calls + 1
    /\ TerminateSession("exec_kill", force)
    /\ UNCHANGED <<stdin, proc, capture, sev, writer, tool, report>>

-----------------------------------------------------------------------------
(* WriteSessionStdin, which holds stdinMu over its steps. *)

WriteSessionStdin(close) ==
    /\ calls < MaxCalls /\ writer = "idle" /\ sst # "none"
    /\ calls' = calls + 1
    /\ writer' = IF ~stdin.open THEN "idle" ELSE IF close THEN "close" ELSE "write"
    /\ UNCHANGED <<sst, stdin, proc, capture, sev, killers, tool, report>>

\* The bytes are written, or the write fails; with close_stdin the pipe is closed, or found closed.
WriteStdin ==
    /\ writer \in {"write", "close"}
    /\ writer' = IF writer = "close" /\ stdin.pipe THEN "closed" ELSE "idle"
    /\ stdin' = [stdin EXCEPT !.pipe = IF writer = "close" THEN FALSE ELSE @]
    /\ UNCHANGED <<sst, proc, capture, sev, killers, tool, report, calls>>

\* It may run after the session has ended: the only event that follows the terminal one.
markStdinClosed ==
    /\ writer = "closed"
    /\ writer' = "idle"
    /\ stdin' = [stdin EXCEPT !.open = FALSE]
    /\ sev' = IF stdin.open THEN Append(sev, Event("stdin_closed")) ELSE sev
    /\ UNCHANGED <<sst, proc, capture, killers, tool, report, calls>>

-----------------------------------------------------------------------------
(* The exec and exec_read tools. *)

\* fault: output cut by the budget is not flagged as truncated.
collectUnflagged(t, e) ==
    IF ~IsOutput(e) \/ e.kind \notin t.streams THEN t
    ELSE LET data == SubSeq(Data(e), 1, IF t.room < 2 THEN t.room ELSE 2)
         IN [t EXCEPT !.buf[e.kind] = @ \o data, !.room = @ - Len(data)]

\* sessionOutputCollector.write
collect(t, e) ==
    IF ~IsOutput(e) \/ e.kind \notin t.streams THEN t
    ELSE LET data == SubSeq(Data(e), 1, IF t.room < 2 THEN t.room ELSE 2)
         IN [t EXCEPT !.buf[e.kind] = @ \o data, !.room = @ - Len(data),
                      !.trunc = @ \/ Len(data) < 2]

\* exec: StartSession, and with it the process and the session's goroutines.
StartSession(keepStdinOpen, budget, wait) ==
    /\ calls < MaxCalls /\ tool.pc = "idle" /\ sst = "none"
    /\ calls' = calls + 1
    /\ sst' = "running"
    /\ proc' = [proc EXCEPT !.alive = TRUE]
    /\ stdin' = [open |-> keepStdinOpen, pipe |-> keepStdinOpen]
    /\ sev' = <<Event("started")>> \o (IF keepStdinOpen THEN <<>> ELSE <<Event("stdin_closed")>>)
    /\ tool' = [IdleTool EXCEPT !.pc = IF wait THEN "watch" ELSE "get", !.op = "exec",
                                !.room = budget, !.timedOut = ~wait]
    /\ UNCHANGED <<capture, killers, writer, report>>

\* exec_read, with the cursor the last call returned.
ExecRead(selection, budget) ==
    /\ calls < MaxCalls /\ tool.pc = "idle" /\ sst # "none"
    /\ calls' = calls + 1
    /\ tool' = [IdleTool EXCEPT !.pc = "watch", !.op = "exec_read", !.from = report.cursor,
                                !.cursor = report.cursor, !.room = budget, !.streams = selection]
    /\ UNCHANGED <<sst, stdin, proc, capture, sev, killers, writer, report>>

\* WatchSession, server side: eventsAfter, or waitForUpdate until there is something to send.
WatchSession ==
    /\ tool.pc \in {"watch", "drain"} /\ tool.cursor >= tool.upto /\ ~tool.end
    /\ Len(sev) > tool.cursor \/ sst \in TerminalStates
    /\ tool' = [tool EXCEPT !.upto = Len(sev), !.end = sst \in TerminalStates]
    /\ UNCHANGED <<sst, stdin, proc, capture, sev, killers, writer, report, calls>>

\* fault: an expired deadline is taken for the end of the stream.
EndWatchUntimed(t, timedOut) ==
    [t EXCEPT !.pc = IF t.pc = "watch" THEN "get" ELSE "report", !.timedOut = FALSE,
              !.upto = 0, !.end = FALSE]

EndWatch(t, timedOut) ==
    [t EXCEPT !.pc = IF t.pc = "watch" THEN "get" ELSE "report", !.timedOut = timedOut,
              !.upto = 0, !.end = FALSE]

\* watchSessionInto receives one event.
watchSessionInto ==
    /\ tool.pc \in {"watch", "drain"} /\ tool.cursor < tool.upto
    /\ LET e == sev[tool.cursor + 1]
           t == [collect(tool, e) EXCEPT !.cursor = tool.cursor + 1]
       IN tool' = IF isTerminalEvent(e) THEN EndWatch(t, FALSE) ELSE t
    /\ UNCHANGED <<sst, stdin, proc, capture, sev, killers, writer, report, calls>>

\* The stream ends (EOF) or the deadline of this watch passes.
WatchEnds ==
    /\ tool.pc \in {"watch", "drain"}
    /\ \/ tool.end /\ tool.cursor >= tool.upto /\ tool' = EndWatch(tool, FALSE)
       \/ tool' = EndWatch(tool, TRUE)
    /\ UNCHANGED <<sst, stdin, proc, capture, sev, killers, writer, report, calls>>

\* GetSession; exec reads on from its cursor when the session ended after its watch timed out.
GetSession ==
    /\ tool.pc = "get"
    /\ tool' = [tool EXCEPT !.seen = sst,
                            !.pc = IF tool.op = "exec" /\ tool.timedOut /\ sst \in TerminalStates
                                   THEN "drain" ELSE "report"]
    /\ UNCHANGED <<sst, stdin, proc, capture, sev, killers, writer, report, calls>>

\* fault: the noise is taken out of what a failed command wrote, too.
filterWhateverCode(data, noise, zero) ==
    FlattenSeq([k \in DOMAIN data |-> IF data[k] \in noise THEN <<>> ELSE <<data[k]>>])
\* The lines isNixNoiseLine knows are dropped, and nothing says so, when the exit code is zero.
filterNixBootstrapStderr(data, noise, zero) ==
    FlattenSeq([k \in DOMAIN data |-> IF zero /\ data[k] \in noise THEN <<>> ELSE <<data[k]>>])
\* formatSessionToolResult has no STDERR section for white space.
formatStderr(data, blank) == IF Range(data) \subseteq blank THEN <<>> ELSE data

\* exec filters stderr once the session it got has an exit code; exec_read does not.
ToolReturns ==
    /\ tool.pc = "report"
    /\ \E text \in ErrTexts, zero \in BOOLEAN :
          LET err == tool.buf["err"]
              noise == text.noise \cap Range(err)
              blank == text.blank \cap Range(err)
          IN /\ zero => tool.op = "exec" /\ tool.seen \in TerminalStates /\ proc.wait = "ok"
             /\ report' = [tool EXCEPT !.zero = zero, !.noise = noise, !.blank = blank,
                              !.shown = [out |-> tool.buf["out"],
                                         err |-> formatStderr(filterNixBootstrapStderr(err, noise, zero), blank)]]
    /\ tool' = IdleTool
    /\ UNCHANGED <<sst, stdin, proc, capture, sev, killers, writer, calls>>

\* The call's context ends: exec's deferred TerminateSession(force) runs, exec_read only fails.
CancelTool ==
    /\ tool.pc \notin {"idle", "report"}
    /\ tool' = IdleTool
    /\ IF tool.op = "exec" THEN TerminateSession("cancelled_exec", TRUE) ELSE UNCHANGED <<sst, killers>>
    /\ UNCHANGED <<stdin, proc, capture, sev, writer, report, calls>>

-----------------------------------------------------------------------------
ExecNext ==
    \/ \E s \in Streams : ProcessWrites(s) \/ CaptureRead(s) \/ appendOutput(s) \/ captureStream(s)
    \/ \E b \in BOOLEAN : ProcessExits(b) \/ ExecKill(b) \/ WriteSessionStdin(b)
    \/ \E r \in {"ok", "err"} : ProcessWait(r)
    \/ \E c \in Callers : SendSignal(c)
    \/ ChildExits \/ waitForExit \/ WriteStdin \/ markStdinClosed
    \/ \E keep, wait \in BOOLEAN, b \in Budgets : StartSession(keep, b, wait)
    \/ \E sel \in Selections, b \in Budgets : ExecRead(sel, b)
    \/ WatchSession \/ watchSessionInto \/ WatchEnds \/ GetSession \/ ToolReturns \/ CancelTool

ExecSpec == ExecInit /\ [][ExecNext]_execVars

\* The steps of one goroutine each: captureStream of a stream and waitForExit, and the end of a killed process.
CaptureStep(s) == CaptureRead(s) \/ appendOutput(s) \/ captureStream(s)
WaitStep == ProcessWait("ok") \/ ProcessWait("err") \/ waitForExit
KilledExits == proc.sig = "kill" /\ \E b \in BOOLEAN : ProcessExits(b)

\* The manager's goroutines keep running, and a killed process ends, perhaps leaving a child.
ExecFairness ==
    /\ \A s \in Streams : WF_execVars(CaptureStep(s))
    /\ WF_execVars(WaitStep) /\ WF_execVars(KilledExits)

-----------------------------------------------------------------------------
ExecTypeOK ==
    /\ sst \in SessionStates
    /\ stdin \in [open : BOOLEAN, pipe : BOOLEAN]
    /\ proc.wait \in {"no", "ok", "err"} /\ proc.sig \in {"none", "term", "kill"}
    /\ \A s \in Streams : proc.made[s] \in 0..MaxChunks /\ Len(capture.held[s]) <= 1
    /\ capture.done \subseteq Streams
    /\ \A i \in DOMAIN sev : sev[i].kind \in Streams \union {"started", "stdin_closed", "exited", "terminated"}
    /\ killers \in [Callers -> {"idle", "term", "kill"}]
    /\ writer \in {"idle", "write", "close", "closed"}
    /\ tool.cursor \in 0..Len(sev) /\ report.cursor \in 0..Len(sev)

\* Watchers stop at the first terminal event, so a session has exactly one once it has ended, and no
\* output may follow it: waitForExit waits for both captureStream goroutines. Only the stdin_closed
\* event of a WriteSessionStdin that was already closing the pipe may come later.
TerminalEventIsLast ==
    LET ends == {i \in DOMAIN sev : isTerminalEvent(sev[i])}
    IN /\ Cardinality(ends) = IF sst \in TerminalStates THEN 1 ELSE 0
       /\ \A i \in ends, j \in DOMAIN sev : j > i => sev[j].kind = "stdin_closed"

\* How many of the first k events carry output of stream s; the lines of the chunks lo + 1 to hi that the process
\* wrote to s, so what the events after index a up to index b must hold if none was lost, doubled or swapped.
Chunks(events, s, k) == Cardinality({j \in 1..k : events[j].kind = s})
Bytes(s, lo, hi) == [i \in 1..2 * (hi - lo) |-> <<s, lo + (i + 1) \div 2, 2 - (i % 2)>>]
OutputBetween(s, a, b) == Bytes(s, Chunks(sev, s, a), Chunks(sev, s, b))

\* A line may be left out of a result for two reasons: nix noise under a reported exit code of zero, and a stderr of
\* white space only.
LeftOut(line) ==
    \/ report.zero /\ line \in report.noise
    \/ report.shown["err"] = <<>> /\ line \in report.blank
Place(line) == 2 * line[2] + line[3]
\* exec and exec_read show what the process wrote to the selected streams between the cursor they were given and the
\* Next-Event-Index they return, in order and once, up to a cut only when they say Output-Truncated; before the cut
\* nothing is missing that is not LeftOut. So a caller that passes the cursor on misses nothing else and sees nothing
\* twice, over the drain too, and a command that failed shows all its stderr but white space.
ReportedOutputIsExact ==
    \A s \in report.streams :
        LET want == OutputBetween(s, report.from, report.cursor)
            shown == report.shown[s]
        IN /\ \E cut \in 0..Len(want) :
                /\ ~report.trunc => cut = Len(want)
                /\ Range(shown) \subseteq {want[k] : k \in 1..cut}
                /\ \A k \in 1..cut : want[k] \in Range(shown) \/ LeftOut(want[k])
           /\ \A j, k \in DOMAIN shown : j < k => Place(shown[j]) < Place(shown[k])

\* An exec result that says the command finished, and whose watch did not time out, has delivered
\* the terminal event and everything the process wrote.
FinishedExecIsComplete ==
    report.op = "exec" /\ report.seen \in TerminalStates /\ ~report.timedOut =>
        /\ \E i \in 1..report.cursor : isTerminalEvent(sev[i])
        /\ \A s \in Streams : Chunks(sev, s, report.cursor) = proc.made[s]

\* What must end: a session whose process was sent SIGKILL, unless a child of the command still holds its
\* output pipes (cmd.Wait waits for them, and only the command itself is signalled).
KillPending == proc.sig = "kill" /\ sst \notin TerminalStates /\ ~proc.child
=============================================================================
