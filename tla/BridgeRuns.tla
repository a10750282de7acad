----------------------------- MODULE BridgeRuns -----------------------------
(***************************************************************************)
(* One bridge session and the runs the agent worker drives through it:     *)
(* SendMessage and Abort (channel/bridge/bridge.go), the logical session   *)
(* and its run sessions (sessions.go), the delta coalescer and the         *)
(* terminal frame (events.go), the worker loop (app/workers.go) and the    *)
(* order in which Loop.Reply reports a run (agent/loop.go).                *)
(*                                                                         *)
(* A run session's mutex is held while its frames are appended one by one: *)
(* `outbox` holds the frames of the critical section in progress, and      *)
(* nothing that needs that mutex happens until it is empty.  The logical   *)
(* session's mutex is separate, so an Abort may land in between.           *)
(*                                                                         *)
(* Text is a sequence of tokens, one per delta, numbered in the order the  *)
(* engine produced them; <<0>> is a canonical final text, <<-1>> the text  *)
(* of an error.                                                            *)
(***************************************************************************)
EXTENDS Integers, Sequences, FiniteSets, SequencesExt

CONSTANTS
    MaxSends,     \* bound: messages sent to the session
    MaxTokens,    \* bound: deltas the engine produces, over all runs
    MaxSteps,     \* bound: model attempts and tool calls of one run
    MaxStops,     \* bound: Abort rpcs
    BusSize       \* capacity of the bus's inbound channel

ASSUME RunsAssumption ==
    /\ {MaxSends, BusSize} \subseteq Nat \ {0}
    /\ {MaxTokens, MaxSteps, MaxStops} \subseteq Nat

Runs == 1..MaxSends
Final == <<0>>
ErrorText == <<-1>>

\* How Reply ends: nil, a *StopError, an error that is context.Canceled, or
\* any other error.
Results == {"nil", "stop", "canceled", "other"}

VARIABLES
    inbound,    \* messages waiting on the bus
    sent,       \* messages published so far
    pc,         \* where the worker's loop is
    run,        \* number of the run the worker is at, 0 before the first
    session,    \* logicalSession: running, turnSeq, cancel, abortRequested
    cancelled,  \* runs whose own context was cancelled
    shutdown,   \* the worker's context is done
    rs,         \* runSession of the current run
    fired,      \* flush callbacks of each run that wait for its mutex
    stage,      \* how far Loop.Reply has come
    result,     \* the error Reply is going to return
    tokens,     \* deltas produced so far
    steps,      \* attempts and tool calls of this run
    outbox,     \* frames the mutex holder has yet to append
    stream,     \* every frame appended to the session's log
    stops,      \* Abort rpcs so far
    named,      \* ghost: sequences an Abort named
    blanket     \* ghost: runs in flight when an Abort named none

runVars == <<inbound, sent, pc, run, session, cancelled, shutdown, rs, fired,
             stage, result, tokens, steps, outbox, stream, stops, named, blanket>>

engineVars == <<inbound, sent, run, cancelled, shutdown, stream, stops, named,
                blanket>>

\* runCtx.Err() != nil
Cancelled(r) == shutdown \/ r \in cancelled

\* The run session's mutex is free.
Unlocked == outbox = <<>>

Idle == [running |-> FALSE, turnSeq |-> 0, cancel |-> 0, abortRequested |-> FALSE]

NewRunSession ==
    [finished |-> FALSE, terminalEmitted |-> FALSE, timer |-> "nil",
     answerPending |-> <<>>, reasoningPending |-> <<>>, answerSoFar |-> <<>>,
     seq |-> 0]

Frame(kind, turn, text, status) ==
    [kind |-> kind, run |-> run, turn |-> turn, text |-> text, status |-> status]

Terminal == {"RunFinished", "RunFailed"}

-----------------------------------------------------------------------------
(* The coalescer. *)

\* fault: the flush forgets to clear the timer it stopped
FlushedTimerKept(s) == [s EXCEPT !.answerPending = <<>>, !.reasoningPending = <<>>]

\* What flushDeltaBuffersLocked leaves of the run session ...
Flushed(s) ==
    [s EXCEPT !.timer = "nil", !.answerPending = <<>>, !.reasoningPending = <<>>]

\* fault: the keyframe repeats the pending text instead of the whole draft
KeyframeOfPending(s) ==
    LET any == s.answerPending # <<>> \/ s.reasoningPending # <<>> IN
    (IF s.answerPending # <<>>
     THEN <<Frame("ModelTurnDelta", s.seq, s.answerPending, "")>> ELSE <<>>)
    \o (IF s.reasoningPending # <<>>
        THEN <<Frame("ModelReasoningDelta", s.seq, s.reasoningPending, "")>> ELSE <<>>)
    \o (IF any THEN <<Frame("Snapshot", s.seq, s.answerPending, "")>> ELSE <<>>)

\* fault: with answer text pending the pending reasoning is not flushed
FlushOneKind(s) ==
    IF s.answerPending # <<>>
    THEN <<Frame("ModelTurnDelta", s.seq, s.answerPending, ""),
           Frame("Snapshot", s.seq, s.answerSoFar, "")>>
    ELSE IF s.reasoningPending # <<>>
    THEN <<Frame("ModelReasoningDelta", s.seq, s.reasoningPending, ""),
           Frame("Snapshot", s.seq, s.answerSoFar, "")>>
    ELSE <<>>

\* ... and the frames it appends: one per kind of delta, then the keyframe.
FlushFrames(s) ==
    LET any == s.answerPending # <<>> \/ s.reasoningPending # <<>> IN
    (IF s.answerPending # <<>>
     THEN <<Frame("ModelTurnDelta", s.seq, s.answerPending, "")>> ELSE <<>>)
    \o (IF s.reasoningPending # <<>>
        THEN <<Frame("ModelReasoningDelta", s.seq, s.reasoningPending, "")>> ELSE <<>>)
    \o (IF any THEN <<Frame("Snapshot", s.seq, s.answerSoFar, "")>> ELSE <<>>)

\* scheduleDeltaFlushLocked: the first pending delta arms the timer.
Scheduled(s) == [s EXCEPT !.timer = IF @ = "nil" THEN "armed" ELSE @]

\* fault: a controlled stop is reported as a failure
StopIsFailure(err) == IF err = "canceled" THEN "ABORTED" ELSE "FAILED"

\* runFailedStatus: a cancelled run and a controlled stop are not failures.
RunFailedStatus(err) == IF err \in {"canceled", "stop"} THEN "ABORTED" ELSE "FAILED"

FinishTerminalStatus(err) == IF err = "nil" THEN "COMPLETED" ELSE RunFailedStatus(err)

\* The run session after OnRunEvent stamped the event's sequence, and the
\* logical session after setTurnSeq.
Stamped(seq) == IF seq > 0 THEN [rs EXCEPT !.seq = seq] ELSE rs
SetTurnSeq(seq) ==
    session' = IF seq > 0 /\ session.running THEN [session EXCEPT !.turnSeq = seq]
                                             ELSE session

\* OnRunEvent for one event of the engine.
OnRunEvent(kind, seq, text, err) ==
    IF rs.finished \/ rs.terminalEmitted
    THEN UNCHANGED <<rs, outbox, session>>
    ELSE
      LET s == Stamped(seq)
          draft == kind = "RunFailed" /\ text = <<>>
      IN
      /\ SetTurnSeq(seq)
      /\ \/ /\ kind = "ModelTurnDelta"
            /\ rs' = Scheduled([s EXCEPT !.answerPending = @ \o text,
                                         !.answerSoFar = @ \o text])
            /\ UNCHANGED outbox
         \/ /\ kind = "ModelReasoningDelta"
            /\ rs' = Scheduled([s EXCEPT !.reasoningPending = @ \o text])
            /\ UNCHANGED outbox
         \/ /\ kind \in Terminal
            /\ rs' = [Flushed(s) EXCEPT !.terminalEmitted = TRUE]
            /\ outbox' = FlushFrames(s) \o
                 <<Frame(kind, seq, IF draft THEN s.answerSoFar ELSE text,
                         FinishTerminalStatus(err))>>
         \/ /\ kind \in {"RunStarted", "ModelTurnStarted", "Tool"}
            /\ rs' = IF kind = "ModelTurnStarted"
                     THEN [Flushed(s) EXCEPT !.answerSoFar = <<>>] ELSE Flushed(s)
            /\ outbox' = FlushFrames(s) \o <<Frame(kind, seq, <<>>, "")>>

-----------------------------------------------------------------------------
(* The rpcs. *)

\* SendMessage publishes the message; a full bus makes it wait.
SendMessage ==
    /\ sent < MaxSends
    /\ inbound < BusSize
    /\ inbound' = inbound + 1
    /\ sent' = sent + 1
    /\ UNCHANGED <<pc, run, session, cancelled, shutdown, rs, fired, stage, result,
                   tokens, steps, outbox, stream, stops, named, blanket>>

\* fault: the run's sequence is not compared
AnyTarget(q) == session.running

\* The guard of cancelRun: q is the run in flight, or names none.
Targets(q) == session.running /\ (q = 0 \/ q = session.turnSeq)

\* Abort: cancelRun of the session.  A client names a sequence it was sent.
Abort(q) ==
    /\ stops < MaxStops
    /\ stops' = stops + 1
    /\ \/ /\ ~Targets(q)
          /\ UNCHANGED <<session, cancelled>>
       \/ /\ Targets(q) /\ session.cancel = 0
          /\ session' = [session EXCEPT !.abortRequested = TRUE]
          /\ UNCHANGED cancelled
       \/ /\ Targets(q) /\ session.cancel # 0
          /\ cancelled' = cancelled \cup {session.cancel}
          /\ UNCHANGED session
    /\ named' = IF q # 0 THEN named \cup {q} ELSE named
    /\ blanket' = IF q = 0 /\ session.running THEN blanket \cup {run} ELSE blanket
    /\ UNCHANGED <<inbound, sent, pc, run, shutdown, rs, fired, stage, result,
                   tokens, steps, outbox, stream>>

\* Sequences the stream has told a client about.
KnownSeqs == {stream[i].turn : i \in DOMAIN stream}

-----------------------------------------------------------------------------
(* The worker. *)

StartRun(s) == [Idle EXCEPT !.running = TRUE]

\* The worker takes a message and OpenSession marks the session running.
OpenSession ==
    /\ pc = "select" /\ inbound > 0
    /\ pc' = "opened"
    /\ inbound' = inbound - 1
    /\ run' = run + 1
    /\ session' = StartRun(session)
    /\ rs' = NewRunSession
    /\ stage' = "start"
    /\ result' = "nil"
    /\ steps' = 0
    /\ UNCHANGED <<sent, cancelled, shutdown, fired, tokens, outbox, stream,
                   stops, named, blanket>>

\* fault: a remembered Abort is dropped when the cancel func arrives
SetCancelOnly ==
    /\ session' = [session EXCEPT !.cancel = run, !.abortRequested = FALSE]
    /\ UNCHANGED cancelled

\* setCancel honours an Abort that came while there was nothing to call.
RecordCancel ==
    /\ session' = [session EXCEPT !.cancel = run, !.abortRequested = FALSE]
    /\ cancelled' = IF session.abortRequested THEN cancelled \cup {run} ELSE cancelled

SetCancel ==
    /\ pc = "opened"
    /\ pc' = "replying"
    /\ RecordCancel
    /\ UNCHANGED <<inbound, sent, run, shutdown, rs, fired, stage, result, tokens,
                   steps, outbox, stream, stops, named, blanket>>

\* Reply returns once its last event has been handed over.
ReplyReturns ==
    /\ pc = "replying" /\ stage = "done" /\ Unlocked
    /\ pc' = "returned"
    /\ UNCHANGED <<inbound, sent, run, session, cancelled, shutdown, rs, fired,
                   stage, result, tokens, steps, outbox, stream, stops, named,
                   blanket>>

\* fault: the engine's own terminal frame is not taken into account
ClosesAlways(frame) == <<frame>>

\* The frame that closes a run the engine did not close.
Closing(frame) == IF rs.terminalEmitted THEN <<>> ELSE <<frame>>

AbortFrame == Closing(Frame("RunFinished", rs.seq, rs.answerSoFar, "ABORTED"))

FinishFrame ==
    LET status == FinishTerminalStatus(result)
        text   == IF result = "nil" THEN Final ELSE ErrorText
    IN  Closing(Frame(IF status = "FAILED" THEN "RunFailed" ELSE "RunFinished",
                      rs.seq, text, status))

\* runSession.Abort or Finish, up to the frames it appends.
CloseRun(closing, next) ==
    /\ Unlocked
    /\ pc' = next
    /\ rs' = [Flushed(rs) EXCEPT !.finished = TRUE, !.terminalEmitted = TRUE]
    /\ outbox' = FlushFrames(rs) \o closing
    /\ UNCHANGED <<inbound, sent, run, session, cancelled, shutdown, fired, stage,
                   result, tokens, steps, stream, stops, named, blanket>>

AbortRun == pc = "returned" /\ Cancelled(run) /\ CloseRun(AbortFrame, "aborting")
FinishRun == pc = "returned" /\ ~Cancelled(run) /\ CloseRun(FinishFrame, "finishing")

\* fault: a cancelled run leaves the session running
IdleAfterFinishOnly == IF pc = "finishing" THEN Idle ELSE session

IdleSession == Idle

\* logicalSession.finish or abortRun, still under the run session's mutex, and
\* the worker's loop: an aborted run ends it when its own context is done.
ReturnToIdle ==
    /\ pc \in {"aborting", "finishing"} /\ Unlocked
    /\ pc' = IF pc = "aborting" /\ shutdown THEN "stopped" ELSE "select"
    /\ session' = IdleSession
    /\ UNCHANGED <<inbound, sent, run, cancelled, shutdown, rs, fired, stage,
                   result, tokens, steps, outbox, stream, stops, named, blanket>>

\* The runtime cancels the worker's context, and with it every run's.
Shutdown ==
    /\ ~shutdown
    /\ shutdown' = TRUE
    /\ UNCHANGED <<inbound, sent, pc, run, session, cancelled, rs, fired, stage,
                   result, tokens, steps, outbox, stream, stops, named, blanket>>

\* The select sees the done context; with a message ready it may take either.
StopWorker ==
    /\ pc = "select" /\ shutdown
    /\ pc' = "stopped"
    /\ UNCHANGED <<inbound, sent, run, session, cancelled, shutdown, rs, fired,
                   stage, result, tokens, steps, outbox, stream, stops, named,
                   blanket>>

-----------------------------------------------------------------------------
(* The engine, in the order Loop.Reply reports. *)

Engine(at) == pc = "replying" /\ stage \in at /\ Unlocked

\* The sequence reserved for the run, stamped on every event after that.
TurnSeqOf(r) == r

Errors == {"canceled", "other"}

\* An error is context.Canceled only if the run's context was cancelled.
MayFail(err) == err = "canceled" => Cancelled(run)

\* normalizeUserMessage refuses the message: no event at all.
RefuseMessage ==
    /\ Engine({"start"})
    /\ stage' = "done"
    /\ result' = "other"
    /\ UNCHANGED engineVars /\ UNCHANGED <<pc, session, rs, fired, tokens, steps, outbox>>

\* The store cannot reserve a sequence: a failure without one.
ReserveFails(err) ==
    /\ Engine({"start"}) /\ MayFail(err)
    /\ stage' = "done"
    /\ result' = err
    /\ OnRunEvent("RunFailed", 0, <<>>, err)
    /\ UNCHANGED engineVars /\ UNCHANGED <<pc, fired, tokens, steps>>

ReserveTurnSeq ==
    /\ Engine({"start"})
    /\ stage' = "reserved"
    /\ UNCHANGED engineVars
    /\ UNCHANGED <<pc, session, rs, fired, result, tokens, steps, outbox>>

RunStarted ==
    /\ Engine({"reserved"})
    /\ stage' = "started"
    /\ OnRunEvent("RunStarted", TurnSeqOf(run), <<>>, "nil")
    /\ UNCHANGED engineVars /\ UNCHANGED <<pc, fired, result, tokens, steps>>

\* The engine opens no attempt and forwards no delta once its context is done;
\* a tool may still end.
ModelTurnStarted ==
    /\ Engine({"started", "attempt"}) /\ ~Cancelled(run) /\ steps < MaxSteps
    /\ stage' = "attempt"
    /\ steps' = steps + 1
    /\ OnRunEvent("ModelTurnStarted", TurnSeqOf(run), <<>>, "nil")
    /\ UNCHANGED engineVars /\ UNCHANGED <<pc, fired, result, tokens>>

ToolEvent ==
    /\ Engine({"attempt"}) /\ steps < MaxSteps
    /\ steps' = steps + 1
    /\ OnRunEvent("Tool", TurnSeqOf(run), <<>>, "nil")
    /\ UNCHANGED engineVars /\ UNCHANGED <<pc, fired, stage, result, tokens>>

Delta(kind) ==
    /\ Engine({"attempt"}) /\ ~Cancelled(run) /\ tokens < MaxTokens
    /\ tokens' = tokens + 1
    /\ OnRunEvent(kind, TurnSeqOf(run), <<tokens + 1>>, "nil")
    /\ UNCHANGED engineVars /\ UNCHANGED <<pc, fired, stage, result, steps>>

\* A load, prepare, model or persist error; a stop and a failed persist carry
\* the final text, a broken model call none.
RunFails(err, text) ==
    /\ Engine({"reserved", "started", "attempt"}) /\ MayFail(err)
    /\ text = Final => stage = "attempt"
    /\ err = "stop" => stage = "attempt"
    /\ stage' = "done"
    /\ result' = err
    /\ OnRunEvent("RunFailed", TurnSeqOf(run), text, err)
    /\ UNCHANGED engineVars /\ UNCHANGED <<pc, fired, tokens, steps>>

RunFinishes ==
    /\ Engine({"attempt"})
    /\ stage' = "done"
    /\ OnRunEvent("RunFinished", TurnSeqOf(run), Final, "nil")
    /\ UNCHANGED engineVars /\ UNCHANGED <<pc, fired, result, tokens, steps>>

-----------------------------------------------------------------------------
(* The flush timer and the log. *)

\* The interval is over: the callback runs and waits for the mutex.  Stopping
\* the timer no longer has an effect.
TimerFires ==
    /\ rs.timer = "armed"
    /\ rs' = [rs EXCEPT !.timer = "fired"]
    /\ fired' = [fired EXCEPT ![run] = @ + 1]
    /\ UNCHANGED <<inbound, sent, pc, run, session, cancelled, shutdown, stage,
                   result, tokens, steps, outbox, stream, stops, named, blanket>>

\* flushDeltaBuffers; an earlier run's session is finished.
FlushDeltaBuffers(r) ==
    /\ fired[r] > 0
    /\ r = run => Unlocked
    /\ fired' = [fired EXCEPT ![r] = @ - 1]
    /\ IF r # run \/ rs.finished
       THEN UNCHANGED <<rs, outbox>>
       ELSE rs' = Flushed(rs) /\ outbox' = FlushFrames(rs)
    /\ UNCHANGED <<inbound, sent, pc, run, session, cancelled, shutdown, stage,
                   result, tokens, steps, stream, stops, named, blanket>>

\* The holder of the mutex appends its next frame to the log.
AppendFrame ==
    /\ outbox # <<>>
    /\ outbox' = Tail(outbox)
    /\ stream' = Append(stream, Head(outbox))
    /\ UNCHANGED <<inbound, sent, pc, run, session, cancelled, shutdown, rs, fired,
                   stage, result, tokens, steps, stops, named, blanket>>

-----------------------------------------------------------------------------
Init ==
    /\ inbound = 0 /\ sent = 0
    /\ pc = "select" /\ run = 0
    /\ session = Idle
    /\ cancelled = {} /\ shutdown = FALSE
    /\ rs = [NewRunSession EXCEPT !.finished = TRUE]
    /\ fired = [r \in Runs |-> 0]
    /\ stage = "done" /\ result = "nil"
    /\ tokens = 0 /\ steps = 0
    /\ outbox = <<>>
    /\ stream = <<[kind |-> "SessionOpened", run |-> 0, turn |-> 0,
                   text |-> <<>>, status |-> ""]>>
    /\ stops = 0 /\ named = {} /\ blanket = {}

Worker == OpenSession \/ SetCancel \/ ReplyReturns \/ AbortRun \/ FinishRun
          \/ ReturnToIdle \/ StopWorker

EngineStep ==
    \/ RefuseMessage \/ ReserveTurnSeq \/ RunStarted
    \/ ModelTurnStarted \/ ToolEvent \/ RunFinishes
    \/ \E k \in {"ModelTurnDelta", "ModelReasoningDelta"} : Delta(k)
    \/ \E err \in Errors : ReserveFails(err)
    \/ \E err \in Errors \cup {"stop"}, text \in {<<>>, Final} : RunFails(err, text)

Rpc == SendMessage \/ \E q \in {0} \cup KnownSeqs : Abort(q)

Timer == TimerFires \/ \E r \in Runs : FlushDeltaBuffers(r)

Next == Rpc \/ Worker \/ EngineStep \/ Timer \/ AppendFrame \/ Shutdown

Spec == Init /\ [][Next]_runVars

FairSpec == Spec /\ WF_runVars(Worker) /\ WF_runVars(EngineStep)
                 /\ WF_runVars(Timer) /\ WF_runVars(AppendFrame)
-----------------------------------------------------------------------------
(* Properties. *)

\* What the log holds and what the critical section in progress will add.
Whole == stream \o outbox

DeltaKinds == {"ModelTurnDelta", "ModelReasoningDelta"}
\* The text that the frames of these kinds carry, in order.
TextOf(s, kinds) == FlattenSeq([i \in 1..Len(s) |-> IF s[i].kind \in kinds THEN s[i].text ELSE <<>>])
Streamed(kinds) == TextOf(Whole, kinds)

\* The type of every variable.
TypeOK ==
    /\ inbound \in 0..BusSize /\ sent \in 0..MaxSends
    /\ pc \in {"select", "opened", "replying", "returned", "aborting",
               "finishing", "stopped"}
    /\ run \in 0..sent
    /\ session \in [running : BOOLEAN, turnSeq : 0..MaxSends,
                    cancel : 0..MaxSends, abortRequested : BOOLEAN]
    /\ session.cancel \in {0, run}
    /\ cancelled \subseteq 1..run /\ shutdown \in BOOLEAN
    /\ rs.timer \in {"nil", "armed", "fired"}
    /\ rs.timer = "fired" => fired[run] > 0
    /\ fired \in [Runs -> 0..MaxTokens]
    /\ stage \in {"start", "reserved", "started", "attempt", "done"}
    /\ result \in Results
    /\ tokens \in 0..MaxTokens /\ steps \in 0..MaxSteps
    /\ stops \in 0..MaxStops /\ named \subseteq Runs /\ blanket \subseteq Runs

\* OnRunEvent, Finish and Abort share one terminal frame: no run's frames go on
\* past it, and a run the worker has closed has it, whoever emitted it.
OneTerminal ==
    /\ \A i, j \in DOMAIN Whole :
          i < j /\ Whole[i].run = Whole[j].run => Whole[i].kind \notin Terminal
    /\ \A r \in 1..run :
          r < run \/ rs.finished =>
              \E i \in DOMAIN Whole : Whole[i].run = r /\ Whole[i].kind \in Terminal

\* The coalescer neither loses, repeats nor reorders a delta: the streamed text
\* followed by the pending text is what the engine produced.
NoDeltaLost ==
    LET answer    == Streamed({"ModelTurnDelta"}) \o rs.answerPending
        reasoning == Streamed({"ModelReasoningDelta"}) \o rs.reasoningPending
        Rising(s) == \A i \in 1..(Len(s) - 1) : s[i] < s[i + 1]
    IN  /\ ToSet(answer) \cup ToSet(reasoning) = 1..tokens
        /\ Len(answer) + Len(reasoning) = tokens
        /\ Rising(answer) /\ Rising(reasoning)

\* The answer deltas the stream carried, up to position i, for the attempt that
\* is current there.
DraftAt(i) ==
    LET starts == {j \in 1..i : Whole[j].kind = "ModelTurnStarted"}
        from   == IF starts = {} THEN 1 ELSE Max(starts)
    IN  TextOf(SubSeq(Whole, from, i), {"ModelTurnDelta"})

\* A keyframe, and a terminal frame that carries no final text of the engine's,
\* hold exactly the draft a client that saw every delta has, so one frame is
\* enough to recover from.
KeyframesHoldTheDraft ==
    \A i \in DOMAIN Whole :
        LET f == Whole[i] IN
        f.kind = "Snapshot" \/ (f.kind \in Terminal /\ f.text \notin {Final, ErrorText})
          => f.text = IF \E j \in 1..i : /\ Whole[j].run = f.run
                                         /\ Whole[j].kind = "ModelTurnStarted"
                      THEN DraftAt(i) ELSE <<>>

\* cancelRun: a Stop that names a run cancels that run alone, however late it
\* arrives; only a Stop without a name takes whatever is in flight.
StopHitsItsTarget ==
    \A r \in cancelled : TurnSeqOf(r) \in named \/ r \in blanket

\* setCancel: a Stop accepted while the run was starting is not dropped; the
\* engine never works on under a live context once it was asked to stop.
StopNotLost ==
    pc \in {"replying", "returned"} /\ (run \in blanket \/ TurnSeqOf(run) \in named)
      => Cancelled(run)

\* runFailedStatus and finishTerminalStatus: the terminal frame says aborted
\* only of a cancelled or stopped run, completed only of one Reply completed or
\* the client stopped, and failed only of one that failed.
StatusTruthful ==
    \A i \in DOMAIN Whole :
        Whole[i].run = run =>
          /\ Whole[i].status = "ABORTED" => Cancelled(run) \/ result = "stop"
          /\ Whole[i].status = "COMPLETED" => result = "nil"
          /\ Whole[i].status = "FAILED" => result = "other"

\* scheduleDeltaFlushLocked: pending text always has a flush on its way.
PendingIsArmed ==
    rs.answerPending # <<>> \/ rs.reasoningPending # <<>> =>
        rs.timer = "armed" \/ fired[run] > 0

\* Every message sent is answered and the session is idle again, unless the
\* worker was shut down.
Quiesces ==
    <>[]( /\ pc = "stopped" \/ (pc = "select" /\ inbound = 0)
          /\ ~session.running
          /\ outbox = <<>> )

\* cancelRun and setCancel: a Stop reaches the run it means, and no other.
StopsAreExact == StopHitsItsTarget /\ StopNotLost

\* The coalescer and its timer: the text a client is shown is whole, and none stays behind.
DraftsAreWhole == NoDeltaLost /\ KeyframesHoldTheDraft /\ PendingIsArmed

\* What a frame says of its run is what happened to it, in a well-typed session.
SessionTruthful == TypeOK /\ StatusTruthful
=============================================================================
