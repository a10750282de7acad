-------------------------- MODULE BridgeRunsProofs --------------------------
(***************************************************************************)
(* Proofs about BridgeRuns for every number of messages, deltas, steps and *)
(* Stops: a Stop reaches the run it means and no other, what a terminal    *)
(* frame says of its run is true, and a run has exactly one, at its end.   *)
(* BridgeInv is inductive; its parts are the types, where the worker, the  *)
(* engine and the session are relative to each other, what is known of a   *)
(* Stop, and what the frames of the log say.  DraftInv adds the text: that *)
(* the frames and what is pending carry every delta once and in order, and *)
(* that keyframes hold the draft.  At the end, BrowserInv joins the runs,  *)
(* the event log (the theorems of SessionEventLogProofs, instantiated) and *)
(* the browser that watches it.                                            *)
(***************************************************************************)
EXTENDS BridgeBrowser, SequenceTheorems, WellFoundedInduction, TLAPS

Kinds == {"SessionOpened", "RunStarted", "ModelTurnStarted", "Tool", "Snapshot"}
         \cup DeltaKinds \cup Terminal
Frames == [kind : Kinds, run : 0..MaxSends, turn : 0..MaxSends, text : Seq(Int),
           status : {"", "ABORTED", "COMPLETED", "FAILED"}]
RunSessions ==
    [finished : BOOLEAN, terminalEmitted : BOOLEAN, timer : {"nil", "armed", "fired"},
     answerPending : Seq(Int), reasoningPending : Seq(Int), answerSoFar : Seq(Int),
     seq : 0..MaxSends]

\* What TypeOK leaves open, and the counters that bound one another.
Typed ==
    /\ TypeOK
    /\ rs \in RunSessions /\ outbox \in Seq(Frames) /\ stream \in Seq(Frames)
    /\ run + inbound = sent
    /\ \A r \in Runs : fired[r] <= tokens
    /\ rs.timer = "armed" => fired[run] + 1 <= tokens

Serving == {"opened", "replying", "returned", "aborting", "finishing"}
Closed == {"select", "stopped", "aborting", "finishing"}

\* The logical session and the run session follow the worker.
Placed ==
    /\ pc \in Serving => session.running /\ run # 0
    /\ pc \notin Serving => session = Idle
    /\ session.cancel = (IF pc \in Serving \ {"opened"} THEN run ELSE 0)
    /\ session.turnSeq \in {0, run} /\ rs.seq \in {0, run}
    /\ pc = "opened" => session.turnSeq = 0 /\ rs = NewRunSession /\ stage = "start"
    /\ pc \in {"select", "opened", "stopped"} => outbox = <<>>
    /\ rs.finished <=> pc \in Closed
    /\ run # 0 /\ rs.finished => rs.terminalEmitted
    /\ run = 0 => ~rs.terminalEmitted

\* The engine, its result and the coalescer.
Reported ==
    /\ pc \notin {"opened", "replying"} => stage = "done"
    /\ stage # "done" => result = "nil" /\ ~rs.terminalEmitted
    /\ result = "canceled" => Cancelled(run)
    /\ rs.answerPending # <<>> \/ rs.reasoningPending # <<>> =>
          rs.timer # "nil" /\ ~rs.terminalEmitted /\ ~rs.finished
    /\ rs.finished => rs.timer = "nil"

\* A Stop the session has accepted is known by name or as a blanket one.
StopKnown ==
    /\ named \cup blanket \subseteq 1..run
    /\ session.abortRequested => run \in named \cup blanket
    /\ pc = "opened" /\ run \in named \cup blanket => session.abortRequested

\* The frames: those of the run in progress name it once the session does, and
\* only its last one is terminal.
FrameTold(f) ==
    /\ f.run <= run /\ f.turn \in {0, f.run}
    /\ f.status # "" <=> f.kind \in Terminal
    /\ pc \in Serving /\ f.turn = run => session.turnSeq = run
    /\ f.run = run /\ f.kind \in Terminal => rs.terminalEmitted

FramesTold ==
    /\ \A i \in 1..Len(Whole) : FrameTold(Whole[i])
    /\ pc \in Serving /\ rs.seq = run => session.turnSeq = run
    /\ rs.terminalEmitted =>
          \E i \in 1..Len(Whole) : Whole[i].run = run /\ Whole[i].kind \in Terminal

BridgeInv == /\ Typed /\ Placed /\ Reported /\ StopKnown /\ FramesTold
             /\ StopsAreExact /\ StatusTruthful /\ OneTerminal

-----------------------------------------------------------------------------
(* Sequences of frames. *)
LEMMA WholeParts ==
    ASSUME Typed
    PROVE  /\ Whole \in Seq(Frames) /\ Len(Whole) = Len(stream) + Len(outbox) /\ Len(Whole) \in Nat
           /\ DOMAIN Whole = 1..Len(Whole)
           /\ \A i \in 1..Len(stream) : Whole[i] = stream[i]
<1>1. stream \in Seq(Frames) /\ outbox \in Seq(Frames)
    BY DEF Typed
<1>2. QED BY <1>1, ConcatProperties, LenProperties DEF Whole

\* The frames of a critical section that begins.
LEMMA WholeGrows ==
    ASSUME Typed, Unlocked, UNCHANGED stream, outbox' \in Seq(Frames)
    PROVE  /\ Whole' = Whole \o outbox' /\ Len(Whole') = Len(Whole) + Len(outbox')
           /\ \A i \in 1..Len(Whole) : Whole'[i] = Whole[i]
           /\ \A i \in 1..Len(outbox') : Whole'[Len(Whole) + i] = outbox'[i]
           /\ DOMAIN Whole' = 1..Len(Whole') /\ Len(Whole) \in Nat /\ Len(outbox') \in Nat
<1>1. stream \in Seq(Frames) /\ outbox = <<>>
    BY DEF Typed, Unlocked
<1>2. Whole = stream
    BY <1>1, ConcatEmptySeq DEF Whole
<1>3. Whole' = stream \o outbox'
    BY DEF Whole
<1>4. QED BY <1>1, <1>2, <1>3, ConcatProperties, LenProperties

\* Appending a frame to the log only moves it there.
LEMMA WholeMoves == Typed /\ AppendFrame => Whole' = Whole /\ outbox' \in Seq(Frames) /\ stream' \in Seq(Frames)
<1> SUFFICES ASSUME Typed, AppendFrame
             PROVE  Whole' = Whole /\ outbox' \in Seq(Frames) /\ stream' \in Seq(Frames)
    OBVIOUS
<1>1. /\ stream \in Seq(Frames) /\ outbox \in Seq(Frames) /\ outbox # <<>>
      /\ outbox' = Tail(outbox) /\ stream' = Append(stream, Head(outbox))
    BY DEF Typed, AppendFrame
<1>2. Head(outbox) \in Frames /\ Tail(outbox) \in Seq(Frames) /\ outbox = <<Head(outbox)>> \o Tail(outbox)
    BY <1>1, HeadTailProperties
<1>3. Append(stream, Head(outbox)) = stream \o <<Head(outbox)>>
    BY <1>1, <1>2, AppendIsConcat
<1>4. (stream \o <<Head(outbox)>>) \o Tail(outbox) = stream \o (<<Head(outbox)>> \o Tail(outbox))
    BY <1>1, <1>2, ConcatAssociative
<1>5. stream' \in Seq(Frames)
    BY <1>1, <1>2
<1>6. QED BY <1>1, <1>2, <1>3, <1>4, <1>5 DEF Whole

\* Frames of the current run that end nothing.
Quiet(seq) == {f \in Frames : /\ f.run = run /\ f.turn = seq
                              /\ f.kind \notin Terminal /\ f.status = ""}

LEMMA QuietFrame ==
    ASSUME run \in 0..MaxSends, NEW seq \in 0..MaxSends, NEW text \in Seq(Int),
           NEW kind \in Kinds \ Terminal
    PROVE  Frame(kind, seq, text, "") \in Quiet(seq)
<1>1. Frame(kind, seq, text, "") \in Frames
    BY DEF Frame, Frames
<1>2. QED BY <1>1 DEF Frame, Quiet

LEMMA OneOrNone == ASSUME NEW S, NEW x \in S PROVE <<x>> \in Seq(S) /\ <<>> \in Seq(S)
OBVIOUS

LEMMA FlushIsQuiet ==
    ASSUME run \in 0..MaxSends, NEW s \in RunSessions
    PROVE  FlushFrames(s) \in Seq(Quiet(s.seq))
<1> DEFINE any == s.answerPending # <<>> \/ s.reasoningPending # <<>>
           a == IF s.answerPending # <<>>
                THEN <<Frame("ModelTurnDelta", s.seq, s.answerPending, "")>> ELSE <<>>
           b == IF s.reasoningPending # <<>>
                THEN <<Frame("ModelReasoningDelta", s.seq, s.reasoningPending, "")>> ELSE <<>>
           c == IF any THEN <<Frame("Snapshot", s.seq, s.answerSoFar, "")>> ELSE <<>>
           Q == Quiet(s.seq)
<1>1. /\ s.seq \in 0..MaxSends /\ s.answerPending \in Seq(Int) /\ s.reasoningPending \in Seq(Int)
      /\ s.answerSoFar \in Seq(Int)
    BY DEF RunSessions
<1>2. {"ModelTurnDelta", "ModelReasoningDelta", "Snapshot"} \subseteq Kinds \ Terminal
    BY DEF Kinds, Terminal, DeltaKinds
<1>3. a \in Seq(Q)
  <2>1. Frame("ModelTurnDelta", s.seq, s.answerPending, "") \in Q
    BY <1>1, <1>2, QuietFrame
  <2>2. QED BY <2>1, OneOrNone
<1>4. b \in Seq(Q)
  <2>1. Frame("ModelReasoningDelta", s.seq, s.reasoningPending, "") \in Q
    BY <1>1, <1>2, QuietFrame
  <2>2. QED BY <2>1, OneOrNone
<1>5. c \in Seq(Q)
  <2>1. Frame("Snapshot", s.seq, s.answerSoFar, "") \in Q
    BY <1>1, <1>2, QuietFrame
  <2>2. QED BY <2>1, OneOrNone
<1>6. FlushFrames(s) = a \o b \o c
    BY DEF FlushFrames
<1> HIDE DEF a, b, c, Q
<1>7. a \o b \in Seq(Q)
    BY <1>3, <1>4, ConcatProperties
<1>8. (a \o b) \o c \in Seq(Q)
    BY <1>5, <1>7, ConcatProperties
<1>9. QED BY <1>6, <1>8 DEF Q

LEMMA FlushOfNothing ==
    ASSUME NEW s, s.answerPending = <<>>, s.reasoningPending = <<>>
    PROVE  FlushFrames(s) = <<>>
BY DEF FlushFrames

\* A flush, then one frame more.
LEMMA FlushThen ==
    ASSUME run \in 0..MaxSends, NEW s \in RunSessions, NEW f \in Frames,
           NEW F, F = FlushFrames(s) \o <<f>>
    PROVE  /\ F \in Seq(Frames) /\ Len(F) \in Nat /\ Len(F) >= 1 /\ F[Len(F)] = f
           /\ \A i \in 1..Len(F) : i # Len(F) => F[i] \in Quiet(s.seq)
<1> DEFINE Q == FlushFrames(s)
<1>1. Q \in Seq(Quiet(s.seq))
    BY FlushIsQuiet
<1>2. Quiet(s.seq) \subseteq Frames
    BY DEF Quiet
<1>3. Q \in Seq(Frames) /\ Len(Q) \in Nat
    BY <1>1, <1>2
<1>4. \A i \in 1..Len(Q) : Q[i] \in Quiet(s.seq)
    BY <1>1
<1> HIDE DEF Q
<1>5. Len(<<f>>) = 1 /\ <<f>>[1] = f /\ <<f>> \in Seq(Frames)
    OBVIOUS
<1>6. F \in Seq(Frames) /\ Len(F) = Len(Q) + 1 /\ \A i \in 1..Len(F) : F[i] = IF i <= Len(Q) THEN Q[i] ELSE <<f>>[i - Len(Q)]
    BY <1>3, <1>5, ConcatProperties DEF Q
<1>7. QED BY <1>3, <1>4, <1>5, <1>6

-----------------------------------------------------------------------------
(* What one event of the engine does. *)

\* The frames a critical section appends: all of the run, and only the last
\* one, if the section ends the run, is terminal.
Adds(ends, status) ==
    /\ Unlocked /\ UNCHANGED <<stream, run>> /\ outbox' \in Seq(Frames)
    /\ ends => Len(outbox') >= 1
    /\ \A i \in 1..Len(outbox') :
          /\ outbox'[i].run = run /\ outbox'[i].turn \in {0, rs'.seq}
          /\ IF ends /\ i = Len(outbox')
             THEN outbox'[i].kind \in Terminal /\ outbox'[i].status = status
             ELSE outbox'[i].kind \notin Terminal /\ outbox'[i].status = ""

\* The run session after the event.
Goes(kind, seq) ==
    /\ rs' \in RunSessions /\ rs'.seq = (IF seq > 0 THEN seq ELSE rs.seq)
    /\ rs'.finished = FALSE /\ (rs'.terminalEmitted <=> kind \in Terminal)
    /\ \/ /\ rs'.timer = "nil" /\ rs'.answerPending = <<>> /\ rs'.reasoningPending = <<>>
       \/ /\ kind \in DeltaKinds
          /\ rs'.timer = IF rs.timer = "nil" THEN "armed" ELSE rs.timer

Reports(kind, seq, err) ==
    /\ session' = [session EXCEPT !.turnSeq = IF seq > 0 THEN seq ELSE session.turnSeq]
    /\ Goes(kind, seq)
    /\ Adds(kind \in Terminal, FinishTerminalStatus(err))

EventKinds == {"RunStarted", "ModelTurnStarted", "Tool"} \cup DeltaKinds \cup Terminal

LEMMA StampedSound ==
    ASSUME Typed, NEW seq \in 0..MaxSends
    PROVE  /\ Stamped(seq) \in RunSessions
           /\ Stamped(seq).seq = (IF seq > 0 THEN seq ELSE rs.seq)
           /\ Stamped(seq).finished = rs.finished /\ Stamped(seq).terminalEmitted = rs.terminalEmitted
           /\ Stamped(seq).timer = rs.timer
BY DEF Typed, RunSessions, Stamped

LEMMA FlushedSound ==
    ASSUME NEW s \in RunSessions
    PROVE  /\ Flushed(s) \in RunSessions /\ Flushed(s).seq = s.seq /\ Flushed(s).timer = "nil"
           /\ Flushed(s).answerPending = <<>> /\ Flushed(s).reasoningPending = <<>>
           /\ Flushed(s).finished = s.finished /\ Flushed(s).terminalEmitted = s.terminalEmitted
<1>1. <<>> \in Seq(Int)
    OBVIOUS
<1>2. QED BY <1>1 DEF RunSessions, Flushed

LEMMA EventStep ==
    ASSUME BridgeInv, pc = "replying", stage # "done", Unlocked, UNCHANGED <<stream, run>>,
           NEW kind \in EventKinds, NEW seq \in {0, run}, NEW text \in Seq(Int), NEW err \in Results,
           OnRunEvent(kind, seq, text, err)
    PROVE  Reports(kind, seq, err)
<1>1. /\ Typed /\ rs \in RunSessions /\ rs.finished = FALSE /\ rs.terminalEmitted = FALSE
      /\ session.running /\ run \in 0..MaxSends /\ seq \in 0..MaxSends
  <2>1. Typed /\ Reported /\ Placed
    BY DEF BridgeInv
  <2>2. rs \in RunSessions /\ run \in 0..sent /\ sent \in 0..MaxSends
    BY <2>1 DEF Typed, TypeOK
  <2>3. run \in 0..MaxSends /\ seq \in 0..MaxSends
    BY <2>2, RunsAssumption
  <2>4. ~rs.finished /\ ~rs.terminalEmitted /\ session.running
    BY <2>1 DEF Reported, Placed, Closed, Serving
  <2>5. QED BY <2>1, <2>2, <2>3, <2>4 DEF RunSessions
<1>2. PICK s : s = Stamped(seq)
    OBVIOUS
<1>3. /\ s \in RunSessions /\ s.seq = (IF seq > 0 THEN seq ELSE rs.seq) /\ s.seq \in 0..MaxSends
      /\ s.finished = FALSE /\ s.terminalEmitted = FALSE /\ s.timer = rs.timer
  <2>1. /\ s \in RunSessions /\ s.seq = (IF seq > 0 THEN seq ELSE rs.seq)
        /\ s.finished = FALSE /\ s.terminalEmitted = FALSE /\ s.timer = rs.timer
    BY <1>1, <1>2, StampedSound
  <2>2. QED BY <2>1 DEF RunSessions
<1>4. /\ SetTurnSeq(seq)
      /\ \/ /\ kind = "ModelTurnDelta"
            /\ rs' = Scheduled([s EXCEPT !.answerPending = @ \o text, !.answerSoFar = @ \o text])
            /\ UNCHANGED outbox
         \/ /\ kind = "ModelReasoningDelta"
            /\ rs' = Scheduled([s EXCEPT !.reasoningPending = @ \o text])
            /\ UNCHANGED outbox
         \/ /\ kind \in Terminal
            /\ rs' = [Flushed(s) EXCEPT !.terminalEmitted = TRUE]
            /\ outbox' = FlushFrames(s) \o
                 <<Frame(kind, seq, IF kind = "RunFailed" /\ text = <<>> THEN s.answerSoFar ELSE text,
                         FinishTerminalStatus(err))>>
         \/ /\ kind \in {"RunStarted", "ModelTurnStarted", "Tool"}
            /\ rs' = IF kind = "ModelTurnStarted"
                     THEN [Flushed(s) EXCEPT !.answerSoFar = <<>>] ELSE Flushed(s)
            /\ outbox' = FlushFrames(s) \o <<Frame(kind, seq, <<>>, "")>>
    BY <1>1, <1>2 DEF OnRunEvent
<1>5. session' = [session EXCEPT !.turnSeq = IF seq > 0 THEN seq ELSE session.turnSeq]
    BY <1>1, <1>4 DEF SetTurnSeq, Typed, TypeOK
<1>6. /\ s.answerPending \o text \in Seq(Int) /\ s.answerSoFar \o text \in Seq(Int)
      /\ s.reasoningPending \o text \in Seq(Int) /\ s.answerSoFar \in Seq(Int)
    BY <1>3, ConcatProperties DEF RunSessions
<1>7. CASE kind \in DeltaKinds
  <2>1. kind \notin Terminal /\ outbox' = <<>>
    BY <1>4, <1>7 DEF DeltaKinds, Terminal, Unlocked
  <2>2. Goes(kind, seq)
    BY <1>3, <1>4, <1>6, <1>7, <2>1 DEF DeltaKinds, Goes, Scheduled, RunSessions
  <2>3. Adds(kind \in Terminal, FinishTerminalStatus(err))
    BY <2>1 DEF Adds
  <2>4. QED BY <1>5, <2>2, <2>3 DEF Reports
<1>8. CASE kind \in Terminal
  <2>1. PICK f : f = Frame(kind, seq, IF kind = "RunFailed" /\ text = <<>> THEN s.answerSoFar ELSE text,
                           FinishTerminalStatus(err))
    OBVIOUS
  <2>2. /\ f \in Frames /\ f.run = run /\ f.turn = seq /\ f.kind = kind
        /\ f.status = FinishTerminalStatus(err)
    BY <1>1, <1>6, <1>8, <2>1 DEF Frame, Frames, Kinds, FinishTerminalStatus, RunFailedStatus
  <2>3. kind \notin DeltaKinds \cup {"RunStarted", "ModelTurnStarted", "Tool"}
    BY <1>8 DEF Terminal, DeltaKinds
  <2>4. rs' = [Flushed(s) EXCEPT !.terminalEmitted = TRUE] /\ outbox' = FlushFrames(s) \o <<f>>
    BY <1>4, <2>1, <2>3 DEF DeltaKinds
  <2>5. Goes(kind, seq)
    <3>1. PICK t : t = Flushed(s)
      OBVIOUS
    <3>2. /\ t \in RunSessions /\ t.seq = s.seq /\ t.timer = "nil" /\ t.finished = FALSE
          /\ t.answerPending = <<>> /\ t.reasoningPending = <<>>
      BY <1>3, <3>1, FlushedSound
    <3>3. /\ rs' \in RunSessions /\ rs'.seq = s.seq /\ rs'.timer = "nil" /\ rs'.finished = FALSE
          /\ rs'.answerPending = <<>> /\ rs'.reasoningPending = <<>> /\ rs'.terminalEmitted = TRUE
      BY <2>4, <3>1, <3>2 DEF RunSessions
    <3>4. QED BY <1>3, <1>8, <3>3 DEF Goes
  <2>6. rs'.seq = s.seq /\ (seq = 0 \/ seq = s.seq)
    BY <1>1, <1>3, <2>5 DEF Goes
  <2>7. /\ outbox' \in Seq(Frames) /\ Len(outbox') >= 1 /\ outbox'[Len(outbox')] = f
        /\ \A i \in 1..Len(outbox') : i # Len(outbox') => outbox'[i] \in Quiet(s.seq)
    BY <1>1, <1>3, <2>2, <2>4, FlushThen
  <2>8. Adds(kind \in Terminal, FinishTerminalStatus(err))
    BY <1>8, <2>2, <2>6, <2>7 DEF Adds, Quiet
  <2>9. QED BY <1>5, <2>5, <2>8 DEF Reports
<1>9. CASE kind \in {"RunStarted", "ModelTurnStarted", "Tool"}
  <2>1. PICK f : f = Frame(kind, seq, <<>>, "")
    OBVIOUS
  <2>2. kind \notin DeltaKinds \cup Terminal /\ kind \in Kinds
    BY <1>9 DEF Terminal, DeltaKinds, Kinds
  <2>3. f \in Frames /\ f.run = run /\ f.turn = seq /\ f.kind = kind /\ f.status = ""
    <3>1. <<>> \in Seq(Int)
      OBVIOUS
    <3>2. QED BY <1>1, <2>1, <2>2, <3>1 DEF Frame, Frames
  <2>4. /\ rs' = (IF kind = "ModelTurnStarted" THEN [Flushed(s) EXCEPT !.answerSoFar = <<>>] ELSE Flushed(s))
        /\ outbox' = FlushFrames(s) \o <<f>>
    BY <1>4, <2>1, <2>2 DEF DeltaKinds
  <2>5. Goes(kind, seq)
    <3>1. PICK t : t = Flushed(s)
      OBVIOUS
    <3>2. /\ t \in RunSessions /\ t.seq = s.seq /\ t.timer = "nil" /\ t.finished = FALSE
          /\ t.answerPending = <<>> /\ t.reasoningPending = <<>> /\ t.terminalEmitted = FALSE
      BY <1>3, <3>1, FlushedSound
    <3>3. <<>> \in Seq(Int)
      OBVIOUS
    <3>4. /\ rs' \in RunSessions /\ rs'.seq = s.seq /\ rs'.timer = "nil" /\ rs'.finished = FALSE
          /\ rs'.answerPending = <<>> /\ rs'.reasoningPending = <<>> /\ rs'.terminalEmitted = FALSE
      BY <2>4, <3>1, <3>2, <3>3 DEF RunSessions
    <3>5. QED BY <1>3, <2>2, <3>4 DEF Goes
  <2>6. rs'.seq = s.seq /\ (seq = 0 \/ seq = s.seq)
    BY <1>1, <1>3, <2>5 DEF Goes
  <2>7. /\ outbox' \in Seq(Frames) /\ Len(outbox') >= 1 /\ outbox'[Len(outbox')] = f
        /\ \A i \in 1..Len(outbox') : i # Len(outbox') => outbox'[i] \in Quiet(s.seq)
    BY <1>1, <1>3, <2>3, <2>4, FlushThen
  <2>8. Adds(kind \in Terminal, FinishTerminalStatus(err))
    BY <2>2, <2>3, <2>6, <2>7 DEF Adds, Quiet
  <2>9. QED BY <1>5, <2>5, <2>8 DEF Reports
<1>10. QED BY <1>7, <1>8, <1>9 DEF EventKinds

-----------------------------------------------------------------------------
(* What a step does to the frames. *)

\* No frame is added or lost, and the session still knows its turn.
LEMMA FramesKept ==
    ASSUME BridgeInv, Typed', Whole' = Whole, UNCHANGED run,
           rs'.terminalEmitted <=> rs.terminalEmitted, rs'.seq = rs.seq,
           rs'.finished /\ run # 0 => rs'.terminalEmitted,
           pc' \in Serving => pc \in Serving /\ session'.turnSeq = session.turnSeq,
           Cancelled(run) => Cancelled(run)', rs.terminalEmitted => UNCHANGED result
    PROVE  FramesTold' /\ StatusTruthful' /\ OneTerminal'
<1>1. /\ Typed /\ FramesTold /\ StatusTruthful /\ OneTerminal /\ DOMAIN Whole = 1..Len(Whole)
      /\ run \in Nat
  <2>1. Typed /\ FramesTold /\ StatusTruthful /\ OneTerminal
    BY DEF BridgeInv
  <2>2. run \in Nat
    BY <2>1 DEF Typed, TypeOK
  <2>3. QED BY <2>1, <2>2, WholeParts
<1>2. FramesTold'
    BY <1>1 DEF FramesTold, FrameTold
<1>3. StatusTruthful'
  <2>1. SUFFICES ASSUME NEW i \in DOMAIN Whole, Whole[i].run = run
                 PROVE  /\ Whole[i].status = "ABORTED" => Cancelled(run)' \/ result' = "stop"
                        /\ Whole[i].status = "COMPLETED" => result' = "nil"
                        /\ Whole[i].status = "FAILED" => result' = "other"
    BY DEF StatusTruthful
  <2>2. FrameTold(Whole[i])
    BY <1>1, <2>1 DEF FramesTold
  <2>3. CASE rs.terminalEmitted
    BY <1>1, <2>1, <2>3 DEF StatusTruthful
  <2>4. CASE ~rs.terminalEmitted
    BY <2>1, <2>2, <2>4 DEF FrameTold
  <2>5. QED BY <2>3, <2>4
<1>4. OneTerminal'
  <2>1. \A i, j \in DOMAIN Whole : i < j /\ Whole[i].run = Whole[j].run => Whole[i].kind \notin Terminal
    BY <1>1 DEF OneTerminal
  <2>2. ASSUME NEW r \in 1..run, r < run \/ rs'.finished
        PROVE  \E i \in DOMAIN Whole : Whole[i].run = r /\ Whole[i].kind \in Terminal
    <3>1. CASE r < run
      BY <1>1, <3>1 DEF OneTerminal
    <3>2. CASE r = run /\ rs'.finished
      BY <1>1, <3>2 DEF FramesTold
    <3>3. QED BY <1>1, <2>2, <3>1, <3>2
  <2>3. QED BY <2>1, <2>2 DEF OneTerminal
<1>5. QED BY <1>2, <1>3, <1>4

\* A critical section appends frames to a run that has no terminal frame yet.
LEMMA FramesAdded ==
    ASSUME BridgeInv, Typed', NEW ends \in BOOLEAN, NEW status \in {"ABORTED", "COMPLETED", "FAILED"},
           Adds(ends, status), ~rs.terminalEmitted, rs'.terminalEmitted <=> ends,
           rs'.finished => ends, pc \in Serving, pc' \in Serving, rs'.seq \in {0, run},
           rs'.seq = run => session'.turnSeq = run,
           session.turnSeq = run => session'.turnSeq = run,
           ends => /\ status = "ABORTED" => Cancelled(run)' \/ result' = "stop"
                   /\ status = "COMPLETED" => result' = "nil"
                   /\ status = "FAILED" => result' = "other"
    PROVE  FramesTold' /\ StatusTruthful' /\ OneTerminal'
<1>1. /\ Typed /\ FramesTold /\ OneTerminal /\ run \in Nat /\ run' = run /\ run # 0
      /\ DOMAIN Whole = 1..Len(Whole)
  <2>1. Typed /\ FramesTold /\ OneTerminal /\ Placed
    BY DEF BridgeInv
  <2>2. run \in Nat /\ run' = run /\ run # 0
    <3>1. run \in Nat
      BY <2>1 DEF Typed, TypeOK
    <3>2. run # 0
      BY <2>1 DEF Placed
    <3>3. run' = run
      BY DEF Adds
    <3>4. QED BY <3>1, <3>2, <3>3
  <2>3. QED BY <2>1, <2>2, WholeParts
<1>2. /\ Len(Whole') = Len(Whole) + Len(outbox') /\ Len(Whole) \in Nat /\ Len(outbox') \in Nat
      /\ \A i \in 1..Len(Whole) : Whole'[i] = Whole[i]
      /\ \A i \in 1..Len(outbox') : Whole'[Len(Whole) + i] = outbox'[i]
      /\ DOMAIN Whole' = 1..Len(Whole')
  <2>1. Unlocked /\ UNCHANGED stream /\ outbox' \in Seq(Frames)
    BY DEF Adds
  <2>2. QED BY <1>1, <2>1, WholeGrows
<1>3. \A i \in 1..Len(Whole) :
          /\ Whole'[i] = Whole[i] /\ FrameTold(Whole[i])
          /\ Whole[i].run = run => Whole[i].kind \notin Terminal /\ Whole[i].status = ""
    BY <1>1, <1>2 DEF FramesTold, FrameTold
<1>31. \A i \in 1..Len(Whole') : i > Len(Whole) =>
          /\ Whole'[i].run = run /\ Whole'[i].turn \in {0, rs'.seq}
          /\ ends /\ i = Len(Whole') => Whole'[i].kind \in Terminal /\ Whole'[i].status = status
          /\ ~(ends /\ i = Len(Whole')) => Whole'[i].kind \notin Terminal /\ Whole'[i].status = ""
  <2>1. SUFFICES ASSUME NEW i \in 1..Len(Whole'), i > Len(Whole)
                 PROVE  /\ Whole'[i].run = run /\ Whole'[i].turn \in {0, rs'.seq}
                        /\ ends /\ i = Len(Whole') => Whole'[i].kind \in Terminal /\ Whole'[i].status = status
                        /\ ~(ends /\ i = Len(Whole')) => Whole'[i].kind \notin Terminal /\ Whole'[i].status = ""
    OBVIOUS
  <2>2. i - Len(Whole) \in 1..Len(outbox') /\ i = Len(Whole) + (i - Len(Whole))
    BY <1>2, <2>1
  <2>3. PICK j \in 1..Len(outbox') : i = Len(Whole) + j
    BY <2>2
  <2>4. Whole'[i] = outbox'[j] /\ (i = Len(Whole') <=> j = Len(outbox'))
    <3>1. Whole'[Len(Whole) + j] = outbox'[j]
      BY <1>2
    <3>2. i = Len(Whole') <=> j = Len(outbox')
      <4>1. PICK n \in Nat, m \in Nat : n = Len(Whole) /\ m = Len(outbox')
        BY <1>2
      <4>2. Len(Whole') = n + m /\ i = n + j
        BY <1>2, <2>3, <4>1
      <4>3. n + j = n + m <=> j = m
        BY <4>1
      <4>4. QED BY <4>1, <4>2, <4>3
    <3>3. QED BY <2>3, <3>1, <3>2
  <2>5. QED BY <2>3, <2>4 DEF Adds
<1>4. ends => \E i \in 1..Len(Whole') : Whole'[i].run = run /\ Whole'[i].kind \in Terminal
  <2>1. SUFFICES ASSUME ends PROVE Whole'[Len(Whole')].run = run /\ Whole'[Len(Whole')].kind \in Terminal /\ Len(Whole') \in 1..Len(Whole')
    OBVIOUS
  <2>2. Len(outbox') >= 1
    BY <2>1 DEF Adds
  <2>3. Len(Whole') \in 1..Len(Whole') /\ Len(Whole') > Len(Whole)
    BY <1>2, <2>2
  <2>4. QED BY <1>31, <2>1, <2>3
<1>5. FramesTold'
  <2>1. ASSUME NEW i \in 1..Len(Whole') PROVE FrameTold(Whole[i])'
    <3>1. CASE i \in 1..Len(Whole)
      BY <1>1, <1>3, <3>1 DEF FrameTold
    <3>2. CASE i > Len(Whole)
      <4>1. PICK f : f = Whole'[i]
        OBVIOUS
      <4>2. f.run = run' /\ f.turn \in {0, rs'.seq}
        BY <1>1, <1>31, <3>2, <4>1
      <4>3. f.run <= run' /\ f.turn \in {0, f.run}
        BY <1>1, <4>2
      <4>4. f.status # "" <=> f.kind \in Terminal
        BY <1>31, <3>2, <4>1
      <4>5. f.turn = run' => session'.turnSeq = run'
        BY <1>1, <4>2
      <4>6. f.kind \in Terminal => rs'.terminalEmitted
        BY <1>31, <3>2, <4>1
      <4>7. QED BY <4>1, <4>3, <4>4, <4>5, <4>6 DEF FrameTold
    <3>3. i \in 1..Len(Whole) \/ i > Len(Whole)
      BY <1>2
    <3>4. QED BY <3>1, <3>2, <3>3
  <2>2. QED BY <1>1, <1>4, <2>1 DEF FramesTold
<1>6. StatusTruthful'
  <2>1. SUFFICES ASSUME NEW i \in 1..Len(Whole'), Whole'[i].run = run
                 PROVE  /\ Whole'[i].status = "ABORTED" => Cancelled(run)' \/ result' = "stop"
                        /\ Whole'[i].status = "COMPLETED" => result' = "nil"
                        /\ Whole'[i].status = "FAILED" => result' = "other"
    BY <1>1, <1>2 DEF StatusTruthful
  <2>2. CASE i \in 1..Len(Whole)
    BY <1>3, <2>1, <2>2
  <2>3. CASE i > Len(Whole)
    BY <1>31, <2>1, <2>3
  <2>4. QED BY <1>2, <2>2, <2>3
<1>7. OneTerminal'
  <2>1. ASSUME NEW i \in 1..Len(Whole'), NEW j \in 1..Len(Whole'), i < j, Whole'[i].run = Whole'[j].run
        PROVE  Whole'[i].kind \notin Terminal
    <3>1. CASE i > Len(Whole)
      <4>1. i # Len(Whole')
        BY <1>2, <2>1
      <4>2. QED BY <1>31, <3>1, <4>1
    <3>2. CASE i \in 1..Len(Whole) /\ j > Len(Whole)
      <4>1. Whole'[j].run = run
        BY <1>31, <3>2
      <4>2. QED BY <1>3, <2>1, <3>2, <4>1
    <3>3. CASE i \in 1..Len(Whole) /\ j \in 1..Len(Whole)
      <4>1. Whole[i].kind \notin Terminal
        BY <1>1, <1>2, <2>1, <3>3 DEF OneTerminal
      <4>2. QED BY <1>2, <3>3, <4>1
    <3>4. QED BY <1>2, <3>1, <3>2, <3>3
  <2>2. ASSUME NEW r \in 1..run, r < run \/ rs'.finished
        PROVE  \E i \in 1..Len(Whole') : Whole'[i].run = r /\ Whole'[i].kind \in Terminal
    <3>1. CASE r < run
      <4>1. PICK i \in 1..Len(Whole) : Whole[i].run = r /\ Whole[i].kind \in Terminal
        BY <1>1, <3>1 DEF OneTerminal
      <4>2. i \in 1..Len(Whole') /\ Whole'[i] = Whole[i]
        BY <1>2
      <4>3. QED BY <4>1, <4>2
    <3>2. CASE r = run /\ rs'.finished
      BY <1>4, <3>2
    <3>3. QED BY <1>1, <2>2, <3>1, <3>2
  <2>3. QED BY <1>1, <1>2, <2>1, <2>2 DEF OneTerminal
<1>8. QED BY <1>5, <1>6, <1>7

-----------------------------------------------------------------------------
(* The steps.  Each preserves the invariant. *)

\* The engine's events.
LEMMA EventKeeps ==
    ASSUME BridgeInv, pc = "replying", stage # "done", Unlocked, UNCHANGED engineVars,
           UNCHANGED <<pc, fired>>,
           NEW kind \in EventKinds, NEW seq \in {0, run}, NEW text \in Seq(Int), NEW err \in Results,
           OnRunEvent(kind, seq, text, err), err = "canceled" => Cancelled(run),
           tokens' \in 0..MaxTokens, tokens' >= tokens, kind \in DeltaKinds => tokens' = tokens + 1,
           steps' \in 0..MaxSteps,
           kind \in Terminal => stage' = "done" /\ result' = err,
           kind \notin Terminal => stage' \in {"started", "attempt"} /\ UNCHANGED result
    PROVE  BridgeInv'
<1>1. Typed /\ Placed /\ Reported /\ StopKnown /\ FramesTold /\ StopsAreExact
    BY DEF BridgeInv
<1>2. Reports(kind, seq, err)
    BY EventStep DEF engineVars
<1>3. /\ session' = [session EXCEPT !.turnSeq = IF seq > 0 THEN seq ELSE session.turnSeq]
      /\ Goes(kind, seq) /\ outbox' \in Seq(Frames) /\ Adds(kind \in Terminal, FinishTerminalStatus(err))
    BY <1>2 DEF Reports, Adds
<1>4. /\ inbound' = inbound /\ sent' = sent /\ run' = run /\ cancelled' = cancelled /\ shutdown' = shutdown
      /\ stream' = stream /\ stops' = stops /\ named' = named /\ blanket' = blanket
      /\ pc' = pc /\ fired' = fired
    BY DEF engineVars
<1>5. /\ session.running /\ session.cancel = run /\ run # 0 /\ session.turnSeq \in {0, run}
      /\ rs.finished = FALSE /\ rs.terminalEmitted = FALSE /\ result = "nil" /\ rs.seq \in {0, run}
      /\ run \in 1..MaxSends /\ run \in Runs
  <2>1. /\ session.running /\ session.cancel = run /\ run # 0 /\ session.turnSeq \in {0, run}
        /\ rs.seq \in {0, run} /\ ~rs.finished /\ ~rs.terminalEmitted /\ result = "nil"
    BY <1>1 DEF Placed, Reported, Serving, Closed
  <2>2. run \in 0..sent /\ sent \in 0..MaxSends /\ rs \in RunSessions
    BY <1>1 DEF Typed, TypeOK
  <2>3. QED BY <2>1, <2>2, RunsAssumption DEF RunSessions, Runs
<1>6. /\ session'.running /\ session'.cancel = run /\ session'.turnSeq \in {0, run}
      /\ session'.abortRequested = session.abortRequested
      /\ session'.turnSeq = (IF seq > 0 THEN seq ELSE session.turnSeq)
      /\ session' \in [running : BOOLEAN, turnSeq : 0..MaxSends, cancel : 0..MaxSends, abortRequested : BOOLEAN]
  <2>1. session \in [running : BOOLEAN, turnSeq : 0..MaxSends, cancel : 0..MaxSends, abortRequested : BOOLEAN]
    BY <1>1 DEF Typed, TypeOK
  <2>2. QED BY <1>3, <1>5, <2>1
<1>7. /\ rs'.seq \in {0, run}
      /\ rs'.seq = run => session'.turnSeq = run
      /\ session.turnSeq = run => session'.turnSeq = run
    BY <1>1, <1>3, <1>5, <1>6 DEF Goes, FramesTold, Serving
<1>8. Typed'
  <2>1. /\ rs' \in RunSessions /\ rs'.timer \in {"nil", "armed", "fired"}
        /\ rs'.timer = "fired" => rs.timer = "fired"
        /\ rs'.timer = "armed" => (rs.timer = "armed" \/ tokens' = tokens + 1)
    BY <1>3 DEF Goes, RunSessions
  <2>2. /\ fired \in [Runs -> 0..MaxTokens] /\ \A r \in Runs : fired[r] <= tokens
        /\ rs.timer = "armed" => fired[run] + 1 <= tokens
        /\ tokens \in 0..MaxTokens /\ MaxTokens \in Nat
    BY <1>1, RunsAssumption DEF Typed, TypeOK
  <2>3. /\ \A r \in Runs : fired[r] <= tokens'
        /\ rs'.timer = "armed" => fired[run] + 1 <= tokens'
    <3>1. \A r \in Runs : fired[r] \in Nat
      BY <2>2
    <3>2. QED BY <1>5, <2>1, <2>2, <3>1
  <2>4. rs'.timer = "fired" => fired[run] > 0
    BY <1>1, <2>1 DEF Typed, TypeOK
  <2>5. stage' \in {"start", "reserved", "started", "attempt", "done"} /\ result' \in Results
    <3>1. result \in Results
      BY <1>1 DEF Typed, TypeOK
    <3>2. QED BY <3>1
  <2>6. TypeOK'
    BY <1>1, <1>4, <1>6, <2>1, <2>4, <2>5 DEF Typed, TypeOK
  <2>7. QED BY <1>1, <1>3, <1>4, <2>1, <2>3, <2>6 DEF Typed
<1>9. Placed'
  <2>1. pc' \in Serving /\ pc' \notin Closed /\ pc' # "opened" /\ pc' \notin {"select", "opened", "stopped"}
    BY <1>4 DEF Serving, Closed
  <2>2. ~rs'.finished
    BY <1>3 DEF Goes
  <2>3. session'.cancel = (IF pc' \in Serving \ {"opened"} THEN run' ELSE 0)
    BY <1>4, <1>6, <2>1
  <2>4. session'.turnSeq \in {0, run'} /\ rs'.seq \in {0, run'} /\ run' # 0
    BY <1>4, <1>5, <1>6, <1>7
  <2>5. session'.running
    BY <1>6
  <2>6. QED BY <2>1, <2>2, <2>3, <2>4, <2>5 DEF Placed
<1>10. Reported'
  <2>1. /\ rs'.finished = FALSE /\ (rs'.terminalEmitted <=> kind \in Terminal)
        /\ rs'.answerPending # <<>> \/ rs'.reasoningPending # <<>> =>
              rs'.timer # "nil" /\ kind \notin Terminal
    BY <1>3 DEF Goes, Terminal, DeltaKinds
  <2>2. Cancelled(run)' <=> Cancelled(run)
    BY <1>4 DEF Cancelled
  <2>3. QED BY <1>4, <1>5, <2>1, <2>2 DEF Reported
<1>11. StopKnown' /\ StopsAreExact'
  <2>1. Cancelled(run)' <=> Cancelled(run)
    BY <1>4 DEF Cancelled
  <2>2. StopKnown'
    BY <1>1, <1>4, <1>6 DEF StopKnown
  <2>3. StopHitsItsTarget'
    BY <1>1, <1>4 DEF StopsAreExact, StopHitsItsTarget, TurnSeqOf
  <2>4. StopNotLost'
    BY <1>1, <1>4, <2>1 DEF StopsAreExact, StopNotLost, TurnSeqOf
  <2>5. QED BY <2>2, <2>3, <2>4 DEF StopsAreExact
<1>12. FramesTold' /\ StatusTruthful' /\ OneTerminal'
  <2>1. PICK ends \in BOOLEAN : ends <=> kind \in Terminal
    OBVIOUS
  <2>2. PICK status : status = FinishTerminalStatus(err)
    OBVIOUS
  <2>3. /\ status \in {"ABORTED", "COMPLETED", "FAILED"}
        /\ status = "ABORTED" => err \in {"canceled", "stop"}
        /\ status = "COMPLETED" => err = "nil"
        /\ status = "FAILED" => err = "other"
    BY <2>2 DEF FinishTerminalStatus, RunFailedStatus, Results
  <2>4. Adds(ends, status)
    BY <1>3, <2>1, <2>2 DEF Adds
  <2>5. (rs'.terminalEmitted <=> ends) /\ rs'.finished = FALSE
    BY <1>3, <2>1 DEF Goes
  <2>6. pc \in Serving /\ pc' \in Serving
    BY <1>4 DEF Serving
  <2>7. Cancelled(run)' <=> Cancelled(run)
    BY <1>4 DEF Cancelled
  <2>8. ends => /\ status = "ABORTED" => Cancelled(run)' \/ result' = "stop"
                /\ status = "COMPLETED" => result' = "nil"
                /\ status = "FAILED" => result' = "other"
    BY <2>1, <2>3, <2>7
  <2>9. ~rs.terminalEmitted /\ (rs'.finished => ends) /\ rs'.seq \in {0, run}
    BY <1>5, <1>7, <2>5
  <2>10. rs'.terminalEmitted <=> ends
    BY <2>5
  <2>11. (rs'.seq = run => session'.turnSeq = run) /\ (session.turnSeq = run => session'.turnSeq = run)
    BY <1>7
  <2>12. QED BY <1>8, <2>3, <2>4, <2>6, <2>8, <2>9, <2>10, <2>11, FramesAdded
<1>13. QED BY <1>8, <1>9, <1>10, <1>11, <1>12 DEF BridgeInv

LEMMA EngineKeeps == BridgeInv /\ EngineStep => BridgeInv'
<1> SUFFICES ASSUME BridgeInv, EngineStep PROVE BridgeInv'
    OBVIOUS
<1>1. Typed /\ Placed /\ Reported /\ StopKnown /\ FramesTold /\ StopsAreExact
    BY DEF BridgeInv
<1>2. /\ tokens \in 0..MaxTokens /\ steps \in 0..MaxSteps /\ MaxTokens \in Nat /\ MaxSteps \in Nat
      /\ stage \in {"start", "reserved", "started", "attempt", "done"} /\ result \in Results
    BY <1>1, RunsAssumption DEF Typed, TypeOK
<1>3. <<>> \in Seq(Int) /\ Final \in Seq(Int) /\ <<tokens + 1>> \in Seq(Int)
    BY <1>2 DEF Final
<1>4. stage # "done" => result = "nil" /\ ~rs.terminalEmitted
    BY <1>1 DEF Reported
<1>5. TurnSeqOf(run) \in {0, run}
    BY DEF TurnSeqOf
<1>6. /\ "RunStarted" \notin Terminal /\ "ModelTurnStarted" \notin Terminal /\ "Tool" \notin Terminal
      /\ "RunStarted" \notin DeltaKinds /\ "ModelTurnStarted" \notin DeltaKinds /\ "Tool" \notin DeltaKinds
      /\ "RunFailed" \in Terminal /\ "RunFinished" \in Terminal /\ Terminal \cap DeltaKinds = {}
      /\ {"RunStarted", "ModelTurnStarted", "Tool", "RunFailed", "RunFinished"} \cup DeltaKinds = EventKinds
      /\ {"nil", "canceled", "other", "stop"} = Results
    BY DEF Terminal, DeltaKinds, EventKinds, Results
<1>7. CASE RefuseMessage \/ ReserveTurnSeq
  <2>1. /\ pc = "replying" /\ stage = "start" /\ UNCHANGED engineVars
        /\ UNCHANGED <<pc, session, rs, fired, tokens, steps, outbox>>
        /\ \/ stage' = "done" /\ result' = "other"
           \/ stage' = "reserved" /\ UNCHANGED result
    BY <1>7 DEF RefuseMessage, ReserveTurnSeq, Engine
  <2>2. /\ inbound' = inbound /\ sent' = sent /\ run' = run /\ cancelled' = cancelled /\ shutdown' = shutdown
        /\ stream' = stream /\ stops' = stops /\ named' = named /\ blanket' = blanket
        /\ pc' = pc /\ session' = session /\ rs' = rs /\ fired' = fired /\ tokens' = tokens
        /\ steps' = steps /\ outbox' = outbox
    BY <2>1 DEF engineVars
  <2>3. stage' \in {"done", "reserved"} /\ result' \in Results
    BY <1>2, <2>1 DEF Results
  <2>4. TypeOK'
    BY <1>1, <2>2, <2>3 DEF Typed, TypeOK
  <2>5. Typed'
    BY <1>1, <2>2, <2>4 DEF Typed
  <2>6. Placed'
    BY <1>1, <2>1, <2>2 DEF Placed
  <2>7. Cancelled(run)' <=> Cancelled(run)
    BY <2>2 DEF Cancelled
  <2>8. Reported'
    BY <1>1, <1>4, <2>1, <2>2, <2>7 DEF Reported
  <2>9. StopKnown' /\ StopsAreExact'
    BY <1>1, <2>2, <2>7 DEF StopKnown, StopsAreExact, StopHitsItsTarget, StopNotLost, TurnSeqOf
  <2>10. /\ Whole' = Whole /\ UNCHANGED run /\ (rs'.terminalEmitted <=> rs.terminalEmitted)
         /\ rs'.seq = rs.seq /\ (pc' \in Serving => pc \in Serving /\ session'.turnSeq = session.turnSeq)
    BY <2>2 DEF Whole
  <2>11. (rs.terminalEmitted => UNCHANGED result) /\ (rs'.finished /\ run # 0 => rs'.terminalEmitted)
    BY <1>1, <1>4, <2>1, <2>2 DEF Placed
  <2>12. FramesTold' /\ StatusTruthful' /\ OneTerminal'
    BY <2>5, <2>7, <2>10, <2>11, FramesKept
  <2>13. QED BY <2>5, <2>6, <2>8, <2>9, <2>12 DEF BridgeInv
<1>8. CASE RunStarted
  <2>1. steps' \in 0..MaxSteps
    BY <1>2, <1>8 DEF RunStarted
  <2>2. /\ pc = "replying" /\ stage # "done" /\ Unlocked /\ UNCHANGED engineVars /\ UNCHANGED <<pc, fired>>
        /\ OnRunEvent("RunStarted", TurnSeqOf(run), <<>>, "nil")
        /\ tokens' = tokens /\ result' = result /\ stage' \in {"started", "attempt"}
    BY <1>8 DEF RunStarted, Engine
  <2>3. tokens' \in 0..MaxTokens /\ tokens' >= tokens
    BY <1>2, <2>2
  <2>4. "nil" \in Results /\ "RunStarted" \in EventKinds \ (Terminal \cup DeltaKinds)
    BY <1>6
  <2>5. QED BY <1>3, <1>5, <2>1, <2>2, <2>3, <2>4, EventKeeps
<1>9. CASE ModelTurnStarted
  <2>1. steps' \in 0..MaxSteps
    BY <1>2, <1>9 DEF ModelTurnStarted
  <2>2. /\ pc = "replying" /\ stage # "done" /\ Unlocked /\ UNCHANGED engineVars /\ UNCHANGED <<pc, fired>>
        /\ OnRunEvent("ModelTurnStarted", TurnSeqOf(run), <<>>, "nil")
        /\ tokens' = tokens /\ result' = result /\ stage' \in {"started", "attempt"}
    BY <1>9 DEF ModelTurnStarted, Engine
  <2>3. tokens' \in 0..MaxTokens /\ tokens' >= tokens
    BY <1>2, <2>2
  <2>4. "nil" \in Results /\ "ModelTurnStarted" \in EventKinds \ (Terminal \cup DeltaKinds)
    BY <1>6
  <2>5. QED BY <1>3, <1>5, <2>1, <2>2, <2>3, <2>4, EventKeeps
<1>10. CASE ToolEvent
  <2>1. steps' \in 0..MaxSteps
    BY <1>2, <1>10 DEF ToolEvent
  <2>2. /\ pc = "replying" /\ stage # "done" /\ Unlocked /\ UNCHANGED engineVars /\ UNCHANGED <<pc, fired>>
        /\ OnRunEvent("Tool", TurnSeqOf(run), <<>>, "nil")
        /\ tokens' = tokens /\ result' = result /\ stage' \in {"started", "attempt"}
    BY <1>10 DEF ToolEvent, Engine
  <2>3. tokens' \in 0..MaxTokens /\ tokens' >= tokens
    BY <1>2, <2>2
  <2>4. "nil" \in Results /\ "Tool" \in EventKinds \ (Terminal \cup DeltaKinds)
    BY <1>6
  <2>5. QED BY <1>3, <1>5, <2>1, <2>2, <2>3, <2>4, EventKeeps
<1>11. CASE RunFinishes
    BY <1>2, <1>3, <1>4, <1>5, <1>6, <1>11, EventKeeps DEF RunFinishes, Engine
<1>12. ASSUME NEW k \in DeltaKinds, Delta(k) PROVE BridgeInv'
  <2>1. tokens' \in 0..MaxTokens /\ tokens' >= tokens /\ tokens' = tokens + 1
    BY <1>2, <1>12 DEF Delta
  <2>2. k \notin Terminal /\ k \in EventKinds
    BY <1>6
  <2>3. QED BY <1>2, <1>3, <1>5, <1>6, <1>12, <2>1, <2>2, EventKeeps DEF Delta, Engine
<1>13. ASSUME NEW err \in Errors, ReserveFails(err) PROVE BridgeInv'
  <2>1. err \in Results /\ (err = "canceled" => Cancelled(run))
    BY <1>13 DEF Errors, Results, ReserveFails, MayFail
  <2>2. /\ pc = "replying" /\ stage # "done" /\ Unlocked /\ UNCHANGED engineVars /\ UNCHANGED <<pc, fired>>
        /\ OnRunEvent("RunFailed", 0, <<>>, err)
        /\ tokens' = tokens /\ steps' = steps /\ result' = err /\ stage' = "done"
    BY <1>13 DEF ReserveFails, Engine
  <2>3. tokens' \in 0..MaxTokens /\ tokens' >= tokens /\ steps' \in 0..MaxSteps
    BY <1>2, <2>2
  <2>4. "RunFailed" \in EventKinds \cap Terminal /\ "RunFailed" \notin DeltaKinds /\ 0 \in {0, run}
    BY <1>6
  <2>5. QED BY <1>3, <2>1, <2>2, <2>3, <2>4, EventKeeps
<1>14. ASSUME NEW err \in Errors \cup {"stop"}, NEW text \in {<<>>, Final}, RunFails(err, text)
       PROVE  BridgeInv'
  <2>1. err \in Results /\ (err = "canceled" => Cancelled(run)) /\ text \in Seq(Int)
    BY <1>3, <1>14 DEF Errors, Results, RunFails, MayFail
  <2>2. /\ pc = "replying" /\ stage # "done" /\ Unlocked /\ UNCHANGED engineVars /\ UNCHANGED <<pc, fired>>
        /\ OnRunEvent("RunFailed", TurnSeqOf(run), text, err)
        /\ tokens' = tokens /\ steps' = steps /\ result' = err /\ stage' = "done"
    BY <1>14 DEF RunFails, Engine
  <2>3. tokens' \in 0..MaxTokens /\ tokens' >= tokens /\ steps' \in 0..MaxSteps
    BY <1>2, <2>2
  <2>4. "RunFailed" \in EventKinds \cap Terminal /\ "RunFailed" \notin DeltaKinds
    BY <1>6
  <2>5. QED BY <1>5, <2>1, <2>2, <2>3, <2>4, EventKeeps
<1>15. QED BY <1>7, <1>8, <1>9, <1>10, <1>11, <1>12, <1>13, <1>14 DEF EngineStep, DeltaKinds

\* Steps that leave the run session and the frames alone.
LEMMA FramesUntouched ==
    ASSUME BridgeInv, Typed', UNCHANGED <<run, rs, outbox, stream, result>>,
           pc' \in Serving => pc \in Serving /\ session'.turnSeq = session.turnSeq,
           Cancelled(run) => Cancelled(run)'
    PROVE  FramesTold' /\ StatusTruthful' /\ OneTerminal'
<1>1. Placed
    BY DEF BridgeInv
<1>2. Whole' = Whole /\ run' = run /\ rs' = rs
    BY DEF Whole
<1>3. /\ rs'.terminalEmitted <=> rs.terminalEmitted
      /\ rs'.seq = rs.seq
      /\ rs'.finished /\ run # 0 => rs'.terminalEmitted
    BY <1>1, <1>2 DEF Placed
<1>4. QED BY <1>2, <1>3, FramesKept

LEMMA SendKeeps == BridgeInv /\ SendMessage => BridgeInv'
<1> SUFFICES ASSUME BridgeInv, SendMessage PROVE BridgeInv'
    OBVIOUS
<1>1. Typed /\ Placed /\ Reported /\ StopKnown /\ StopsAreExact
    BY DEF BridgeInv
<1>2. /\ sent < MaxSends /\ inbound < BusSize /\ inbound' = inbound + 1 /\ sent' = sent + 1
      /\ UNCHANGED <<pc, run, session, cancelled, shutdown, rs, fired, stage, result,
                     tokens, steps, outbox, stream, stops, named, blanket>>
    BY DEF SendMessage
<1>3. /\ inbound \in 0..BusSize /\ sent \in 0..MaxSends /\ run \in 0..sent /\ run + inbound = sent
      /\ MaxSends \in Nat /\ BusSize \in Nat
    BY <1>1, RunsAssumption DEF Typed, TypeOK
<1>4. inbound' \in 0..BusSize /\ sent' \in 0..MaxSends /\ run \in 0..sent' /\ run + inbound' = sent'
    BY <1>2, <1>3
<1>5. TypeOK'
    BY <1>1, <1>2, <1>4 DEF Typed, TypeOK
<1>6. Typed'
    BY <1>1, <1>2, <1>4, <1>5 DEF Typed
<1>7. Cancelled(run)' <=> Cancelled(run)
    BY <1>2 DEF Cancelled
<1>8. Placed' /\ Reported'
    BY <1>1, <1>2, <1>7 DEF Placed, Reported
<1>9. StopKnown' /\ StopsAreExact'
    BY <1>1, <1>2, <1>7 DEF StopKnown, StopsAreExact, StopHitsItsTarget, StopNotLost, TurnSeqOf
<1>10. FramesTold' /\ StatusTruthful' /\ OneTerminal'
    BY <1>2, <1>6, <1>7, FramesUntouched
<1>11. QED BY <1>6, <1>8, <1>9, <1>10 DEF BridgeInv

\* A client names a run it was told of, and the session knows that run's turn.
LEMMA AbortKeeps ==
    ASSUME BridgeInv, NEW q \in {0} \cup KnownSeqs, Abort(q)
    PROVE  BridgeInv'
<1>1. Typed /\ Placed /\ Reported /\ StopKnown /\ FramesTold /\ StopsAreExact
    BY DEF BridgeInv
<1>2. /\ stops < MaxStops /\ stops' = stops + 1
      /\ \/ ~Targets(q) /\ UNCHANGED <<session, cancelled>>
         \/ /\ Targets(q) /\ session.cancel = 0
            /\ session' = [session EXCEPT !.abortRequested = TRUE] /\ UNCHANGED cancelled
         \/ /\ Targets(q) /\ session.cancel # 0
            /\ cancelled' = cancelled \cup {session.cancel} /\ UNCHANGED session
      /\ named' = (IF q # 0 THEN named \cup {q} ELSE named)
      /\ blanket' = (IF q = 0 /\ session.running THEN blanket \cup {run} ELSE blanket)
      /\ UNCHANGED <<inbound, sent, pc, run, shutdown, rs, fired, stage, result, tokens, steps, outbox, stream>>
    BY DEF Abort
<1>3. /\ run \in 0..sent /\ sent \in 0..MaxSends /\ MaxSends \in Nat /\ MaxStops \in Nat
      /\ session \in [running : BOOLEAN, turnSeq : 0..MaxSends, cancel : 0..MaxSends, abortRequested : BOOLEAN]
      /\ session.cancel \in {0, run} /\ cancelled \subseteq 1..run /\ stops \in 0..MaxStops
      /\ named \subseteq Runs /\ blanket \subseteq Runs /\ shutdown \in BOOLEAN
    BY <1>1, RunsAssumption DEF Typed, TypeOK
<1>4. /\ session.running <=> pc \in Serving
      /\ session.running => run \in 1..MaxSends
      /\ session.cancel # 0 => session.cancel = run /\ run # 0
    BY <1>1, <1>3 DEF Placed, Idle
\* A named run is the current one only if the session has its turn.
<1>5. q # 0 => q \in 1..run /\ (q = run /\ session.running => session.turnSeq = run)
  <2>1. SUFFICES ASSUME q # 0, q \in KnownSeqs
                 PROVE  q \in 1..run /\ (q = run /\ session.running => session.turnSeq = run)
    OBVIOUS
  <2>2. PICK i \in DOMAIN stream : q = stream[i].turn
    BY <2>1 DEF KnownSeqs
  <2>3. i \in 1..Len(stream) /\ Whole[i] = stream[i] /\ i \in 1..Len(Whole)
    <3>1. /\ Len(Whole) = Len(stream) + Len(outbox)
          /\ \A j \in 1..Len(stream) : Whole[j] = stream[j]
      BY <1>1, WholeParts
    <3>2. stream \in Seq(Frames) /\ outbox \in Seq(Frames)
      BY <1>1 DEF Typed
    <3>3. DOMAIN stream = 1..Len(stream) /\ Len(stream) \in Nat /\ Len(outbox) \in Nat
      BY <3>2, LenProperties
    <3>4. QED BY <3>1, <3>3
  <2>4. FrameTold(Whole[i]) /\ Whole[i].turn = q /\ Whole[i].run \in 0..MaxSends
    <3>1. FrameTold(Whole[i])
      BY <1>1, <2>3 DEF FramesTold
    <3>2. Whole[i] \in Frames
      BY <1>1, <2>3, WholeParts
    <3>3. QED BY <2>2, <2>3, <3>1, <3>2 DEF Frames
  <2>5. q \in 1..run
    <3>1. Whole[i].run <= run /\ Whole[i].turn \in {0, Whole[i].run}
      BY <2>4 DEF FrameTold
    <3>2. q = Whole[i].run
      BY <2>1, <2>4, <3>1
    <3>3. QED BY <1>3, <2>1, <2>4, <3>1, <3>2
  <2>6. q = run /\ pc \in Serving => session.turnSeq = run
    BY <2>4 DEF FrameTold
  <2>7. QED BY <1>4, <2>5, <2>6
<1>6. Targets(q) => session.running /\ (run \in named' \/ run \in blanket')
    BY <1>1, <1>2, <1>5 DEF Targets, Placed
<1>7. /\ named' \cup blanket' \subseteq 1..run /\ named \subseteq named' /\ blanket \subseteq blanket'
      /\ \A r \in (named' \cup blanket') \ (named \cup blanket) : r = run /\ session.running => Targets(q)
  <2>1. named \cup blanket \subseteq 1..run
    BY <1>1 DEF StopKnown
  <2>2. session.running => run \in 1..run
    BY <1>3, <1>4
  <2>3. named' \subseteq 1..run
    BY <1>2, <1>5, <2>1
  <2>4. blanket' \subseteq 1..run
    BY <1>2, <2>1, <2>2
  <2>5. named \subseteq named' /\ blanket \subseteq blanket'
    BY <1>2
  <2>6. ASSUME NEW r \in (named' \cup blanket') \ (named \cup blanket), r = run, session.running PROVE Targets(q)
    BY <1>2, <1>5, <2>6 DEF Targets
  <2>7. QED BY <2>3, <2>4, <2>5, <2>6
<1>8. /\ session' \in [running : BOOLEAN, turnSeq : 0..MaxSends, cancel : 0..MaxSends, abortRequested : BOOLEAN]
      /\ session'.running = session.running /\ session'.turnSeq = session.turnSeq /\ session'.cancel = session.cancel
      /\ session.abortRequested => session'.abortRequested
      /\ session'.abortRequested => session.abortRequested \/ Targets(q)
      /\ Targets(q) /\ session.cancel = 0 => session'.abortRequested
      /\ ~session.running => session' = session
      /\ Targets(q) /\ session.cancel # 0 => run \in cancelled'
      /\ cancelled \subseteq cancelled'
      /\ \A r \in cancelled' : r \in cancelled \/ (r = run /\ run # 0 /\ Targets(q))
  <2>1. CASE ~Targets(q) /\ UNCHANGED <<session, cancelled>>
    BY <1>3, <2>1
  <2>2. CASE /\ Targets(q) /\ session.cancel = 0
             /\ session' = [session EXCEPT !.abortRequested = TRUE] /\ UNCHANGED cancelled
    BY <1>3, <2>2 DEF Targets
  <2>3. CASE /\ Targets(q) /\ session.cancel # 0
             /\ cancelled' = cancelled \cup {session.cancel} /\ UNCHANGED session
    BY <1>3, <1>4, <2>3
  <2>4. QED BY <1>2, <2>1, <2>2, <2>3
<1>9. Typed'
  <2>1. named' \subseteq Runs /\ blanket' \subseteq Runs
    BY <1>3, <1>7 DEF Runs
  <2>2. cancelled' \subseteq 1..run
    BY <1>3, <1>8
  <2>3. stops' \in 0..MaxStops
    BY <1>2, <1>3
  <2>4. TypeOK'
    BY <1>1, <1>2, <1>3, <1>8, <2>1, <2>2, <2>3 DEF Typed, TypeOK
  <2>5. QED BY <1>1, <1>2, <2>4 DEF Typed
<1>10. Placed'
    BY <1>1, <1>2, <1>4, <1>8 DEF Placed
<1>11. Cancelled(run) => Cancelled(run)'
    BY <1>2, <1>8 DEF Cancelled
<1>12. Reported'
    BY <1>1, <1>2, <1>11 DEF Reported
<1>13. StopKnown'
  <2>1. session'.abortRequested => run \in named' \cup blanket'
    BY <1>1, <1>6, <1>7, <1>8 DEF StopKnown
  <2>2. pc = "opened" /\ run \in named' \cup blanket' => session'.abortRequested
    <3>1. SUFFICES ASSUME pc = "opened", run \in named' \cup blanket' PROVE session'.abortRequested
      OBVIOUS
    <3>2. session.cancel = 0 /\ session.running
      BY <1>1, <3>1 DEF Placed, Serving
    <3>3. CASE run \in named \cup blanket
      BY <1>1, <1>8, <3>1, <3>3 DEF StopKnown
    <3>4. CASE run \notin named \cup blanket
      BY <1>7, <1>8, <3>1, <3>2, <3>4
    <3>5. QED BY <3>3, <3>4
  <2>3. QED BY <1>2, <1>7, <2>1, <2>2 DEF StopKnown
<1>14. StopsAreExact'
  <2>1. StopHitsItsTarget'
    <3>1. \A r \in cancelled : r \in named \/ r \in blanket
      BY <1>1 DEF StopsAreExact, StopHitsItsTarget, TurnSeqOf
    <3>2. \A r \in cancelled' : r \in named' \/ r \in blanket'
      BY <1>6, <1>7, <1>8, <3>1
    <3>3. QED BY <3>2 DEF StopHitsItsTarget, TurnSeqOf
  <2>2. ASSUME pc \in {"replying", "returned"}, run \in blanket' \/ run \in named'
        PROVE  Cancelled(run)'
    <3>1. session.running /\ session.cancel # 0
      BY <1>1, <2>2 DEF Placed, Serving
    <3>2. CASE run \in named \cup blanket
      <4>1. Cancelled(run)
        BY <1>1, <2>2, <3>2 DEF StopsAreExact, StopNotLost, TurnSeqOf
      <4>2. QED BY <1>11, <4>1
    <3>3. CASE run \notin named \cup blanket
      <4>1. run \in cancelled'
        BY <1>7, <1>8, <2>2, <3>1, <3>3
      <4>2. QED BY <1>2, <4>1 DEF Cancelled
    <3>4. QED BY <3>2, <3>3
  <2>3. StopNotLost'
    BY <1>2, <2>2 DEF StopNotLost, TurnSeqOf
  <2>4. QED BY <2>1, <2>3 DEF StopsAreExact
<1>15. FramesTold' /\ StatusTruthful' /\ OneTerminal'
  <2>1. pc' \in Serving => pc \in Serving /\ session'.turnSeq = session.turnSeq
    BY <1>2, <1>8
  <2>2. QED BY <1>2, <1>9, <1>11, <2>1, FramesUntouched
<1>16. QED BY <1>9, <1>10, <1>12, <1>13, <1>14, <1>15 DEF BridgeInv

LEMMA OpenKeeps == BridgeInv /\ OpenSession => BridgeInv'
<1> SUFFICES ASSUME BridgeInv, OpenSession PROVE BridgeInv'
    OBVIOUS
<1>1. Typed /\ Placed /\ Reported /\ StopKnown /\ FramesTold /\ StopsAreExact /\ OneTerminal
    BY DEF BridgeInv
<1>2. /\ pc = "select" /\ inbound > 0 /\ pc' = "opened" /\ inbound' = inbound - 1 /\ run' = run + 1
      /\ session' = [running |-> TRUE, turnSeq |-> 0, cancel |-> 0, abortRequested |-> FALSE]
      /\ rs' = NewRunSession /\ stage' = "start" /\ result' = "nil" /\ steps' = 0
      /\ UNCHANGED <<sent, cancelled, shutdown, fired, tokens, outbox, stream, stops, named, blanket>>
    BY DEF OpenSession, StartRun, Idle
<1>3. /\ inbound \in 0..BusSize /\ sent \in 0..MaxSends /\ run \in 0..sent /\ run + inbound = sent
      /\ MaxSends \in Nat /\ BusSize \in Nat /\ MaxSteps \in Nat /\ cancelled \subseteq 1..run
      /\ fired \in [Runs -> 0..MaxTokens] /\ outbox = <<>> /\ rs.finished
    BY <1>1, <1>2, RunsAssumption DEF Typed, TypeOK, Placed, Closed
<1>4. /\ inbound' \in 0..BusSize /\ run' \in 0..sent /\ run' + inbound' = sent /\ run' \in 1..MaxSends
      /\ 1..run \subseteq 1..run' /\ run' # run /\ run' \notin 1..run /\ run \in Nat
    BY <1>2, <1>3
<1>5. /\ rs' \in RunSessions /\ rs'.seq = 0 /\ rs'.timer = "nil" /\ rs'.finished = FALSE
      /\ rs'.terminalEmitted = FALSE /\ rs'.answerPending = <<>> /\ rs'.reasoningPending = <<>>
  <2>1. <<>> \in Seq(Int) /\ 0 \in 0..MaxSends
    BY <1>3
  <2>2. QED BY <1>2, <2>1 DEF NewRunSession, RunSessions
<1>6. Typed'
  <2>1. session' \in [running : BOOLEAN, turnSeq : 0..MaxSends, cancel : 0..MaxSends, abortRequested : BOOLEAN]
    BY <1>2, <1>3
  <2>2. session'.cancel = 0 /\ steps' \in 0..MaxSteps /\ cancelled' \subseteq 1..run'
    BY <1>2, <1>3, <1>4
  <2>3. TypeOK'
    BY <1>1, <1>2, <1>4, <1>5, <2>1, <2>2 DEF Typed, TypeOK, Results
  <2>4. QED BY <1>1, <1>2, <1>4, <1>5, <2>3 DEF Typed
<1>7. Placed'
    BY <1>2, <1>3, <1>4, <1>5 DEF Placed, Serving, Closed
<1>8. Reported'
    BY <1>2, <1>5 DEF Reported
<1>9. StopKnown' /\ StopsAreExact'
  <2>1. run' \notin named' \cup blanket'
    BY <1>1, <1>2, <1>4 DEF StopKnown
  <2>2. StopKnown'
    BY <1>1, <1>2, <1>4, <2>1 DEF StopKnown
  <2>3. StopsAreExact'
    BY <1>1, <1>2 DEF StopsAreExact, StopHitsItsTarget, StopNotLost, TurnSeqOf
  <2>4. QED BY <2>2, <2>3
<1>10. Whole' = Whole /\ DOMAIN Whole = 1..Len(Whole)
    BY <1>1, <1>2, WholeParts DEF Whole
<1>11. ASSUME NEW i \in 1..Len(Whole)
       PROVE  /\ Whole[i].run <= run' /\ Whole[i].run # run'
              /\ Whole[i].turn \in {0, Whole[i].run} /\ Whole[i].turn # run'
              /\ Whole[i].status # "" <=> Whole[i].kind \in Terminal
  <2>1. FrameTold(Whole[i])
    BY <1>1 DEF FramesTold
  <2>2. Whole[i] \in Frames
    BY <1>1, WholeParts
  <2>3. Whole[i].run \in 0..MaxSends
    BY <2>2 DEF Frames
  <2>4. Whole[i].run <= run /\ Whole[i].turn \in {0, Whole[i].run}
    BY <2>1 DEF FrameTold
  <2>5. Whole[i].run <= run' /\ Whole[i].run # run' /\ Whole[i].turn # run'
    BY <1>2, <1>4, <2>3, <2>4
  <2>6. QED BY <2>1, <2>4, <2>5 DEF FrameTold
<1>12. FramesTold'
  <2>1. ASSUME NEW i \in 1..Len(Whole) PROVE FrameTold(Whole[i])'
    BY <1>10, <1>11 DEF FrameTold
  <2>2. rs'.seq # run'
    BY <1>4, <1>5
  <2>3. QED BY <1>5, <1>10, <2>1, <2>2 DEF FramesTold
<1>13. StatusTruthful'
    BY <1>10, <1>11 DEF StatusTruthful
<1>14. OneTerminal'
  <2>1. ASSUME NEW r \in 1..run', r < run' \/ rs'.finished
        PROVE  \E i \in DOMAIN Whole : Whole[i].run = r /\ Whole[i].kind \in Terminal
    <3>1. r \in 1..run
      BY <1>2, <1>4, <1>5, <2>1
    <3>2. QED BY <1>1, <1>3, <3>1 DEF OneTerminal
  <2>2. QED BY <1>1, <1>10, <2>1 DEF OneTerminal
<1>15. QED BY <1>6, <1>7, <1>8, <1>9, <1>12, <1>13, <1>14 DEF BridgeInv

LEMMA SetCancelKeeps == BridgeInv /\ SetCancel => BridgeInv'
<1> SUFFICES ASSUME BridgeInv, SetCancel PROVE BridgeInv'
    OBVIOUS
<1>1. Typed /\ Placed /\ Reported /\ StopKnown /\ StopsAreExact
    BY DEF BridgeInv
<1>2. /\ pc = "opened" /\ pc' = "replying"
      /\ session' = [session EXCEPT !.cancel = run, !.abortRequested = FALSE]
      /\ cancelled' = (IF session.abortRequested THEN cancelled \cup {run} ELSE cancelled)
      /\ UNCHANGED <<inbound, sent, run, shutdown, rs, fired, stage, result, tokens, steps, outbox,
                     stream, stops, named, blanket>>
    BY DEF SetCancel, RecordCancel
<1>3. /\ run \in 0..sent /\ sent \in 0..MaxSends /\ MaxSends \in Nat /\ cancelled \subseteq 1..run
      /\ session \in [running : BOOLEAN, turnSeq : 0..MaxSends, cancel : 0..MaxSends, abortRequested : BOOLEAN]
    BY <1>1, RunsAssumption DEF Typed, TypeOK
<1>4. /\ session.running /\ run # 0 /\ session.turnSeq = 0 /\ rs = NewRunSession /\ stage = "start"
      /\ outbox = <<>> /\ run \in 1..run /\ run \in 1..MaxSends /\ ~rs.finished
  <2>1. /\ session.running /\ run # 0 /\ session.turnSeq = 0 /\ rs = NewRunSession /\ stage = "start"
        /\ outbox = <<>> /\ ~rs.finished
    BY <1>1, <1>2 DEF Placed, Serving, Closed
  <2>2. QED BY <1>3, <2>1
<1>5. /\ session' \in [running : BOOLEAN, turnSeq : 0..MaxSends, cancel : 0..MaxSends, abortRequested : BOOLEAN]
      /\ session'.running /\ session'.turnSeq = 0 /\ session'.cancel = run /\ session'.abortRequested = FALSE
  <2>1. /\ session.running /\ session.turnSeq = 0 /\ run \in 0..MaxSends
        /\ session' = [session EXCEPT !.cancel = run, !.abortRequested = FALSE]
    BY <1>2, <1>3, <1>4
  <2>2. QED BY <1>3, <2>1
<1>6. cancelled' \subseteq 1..run /\ cancelled \subseteq cancelled'
    BY <1>2, <1>3, <1>4
<1>7. Typed'
  <2>1. TypeOK'
    BY <1>1, <1>2, <1>5, <1>6 DEF Typed, TypeOK
  <2>2. QED BY <1>1, <1>2, <2>1 DEF Typed
<1>8. Placed'
  <2>1. pc' \in Serving \ {"opened"} /\ pc' \notin Closed
    BY <1>2 DEF Serving, Closed
  <2>2. QED BY <1>1, <1>2, <1>4, <1>5, <2>1 DEF Placed
<1>9. Cancelled(run) => Cancelled(run)'
    BY <1>2, <1>6 DEF Cancelled
<1>10. Reported'
    BY <1>1, <1>2, <1>9 DEF Reported
<1>11. StopKnown'
    BY <1>1, <1>2, <1>5 DEF StopKnown
<1>12. StopsAreExact'
  <2>1. StopHitsItsTarget'
    BY <1>1, <1>2 DEF StopsAreExact, StopHitsItsTarget, TurnSeqOf, StopKnown
  <2>2. StopNotLost'
    BY <1>1, <1>2 DEF StopNotLost, TurnSeqOf, StopKnown, Cancelled
  <2>3. QED BY <2>1, <2>2 DEF StopsAreExact
<1>13. FramesTold' /\ StatusTruthful' /\ OneTerminal'
  <2>1. pc' \in Serving => pc \in Serving /\ session'.turnSeq = session.turnSeq
    BY <1>2, <1>4, <1>5 DEF Serving
  <2>2. QED BY <1>2, <1>7, <1>9, <2>1, FramesUntouched
<1>14. QED BY <1>7, <1>8, <1>10, <1>11, <1>12, <1>13 DEF BridgeInv

\* Reply returns, the worker stops, the session goes idle, the runtime shuts down.
LEMMA WorkerKeeps ==
    BridgeInv /\ (ReplyReturns \/ StopWorker \/ ReturnToIdle \/ Shutdown) => BridgeInv'
<1> SUFFICES ASSUME BridgeInv, ReplyReturns \/ StopWorker \/ ReturnToIdle \/ Shutdown PROVE BridgeInv'
    OBVIOUS
<1>1. Typed /\ Placed /\ Reported /\ StopKnown /\ StopsAreExact
    BY DEF BridgeInv
<1>2. /\ UNCHANGED <<inbound, sent, run, cancelled, rs, fired, stage, result, tokens, steps, outbox,
                     stream, stops, named, blanket>>
      /\ shutdown' \in {shutdown, TRUE}
      /\ \/ pc = "replying" /\ stage = "done" /\ outbox = <<>> /\ pc' = "returned" /\ UNCHANGED session
         \/ pc = "select" /\ pc' = "stopped" /\ UNCHANGED session
         \/ pc \in {"aborting", "finishing"} /\ outbox = <<>> /\ pc' \in {"stopped", "select"} /\ session' = Idle
         \/ UNCHANGED <<pc, session>>
    BY DEF ReplyReturns, StopWorker, ReturnToIdle, Shutdown, Unlocked, IdleSession
<1>3. Cancelled(run) => Cancelled(run)'
    BY <1>2 DEF Cancelled
<1>4. /\ session' \in [running : BOOLEAN, turnSeq : 0..MaxSends, cancel : 0..MaxSends, abortRequested : BOOLEAN]
      /\ session'.cancel \in {0, run} /\ shutdown' \in BOOLEAN
      /\ pc' \in {"select", "opened", "replying", "returned", "aborting", "finishing", "stopped"}
  <2>1. /\ session \in [running : BOOLEAN, turnSeq : 0..MaxSends, cancel : 0..MaxSends, abortRequested : BOOLEAN]
        /\ session.cancel \in {0, run} /\ shutdown \in BOOLEAN
        /\ pc \in {"select", "opened", "replying", "returned", "aborting", "finishing", "stopped"}
    BY <1>1 DEF Typed, TypeOK
  <2>2. /\ Idle \in [running : BOOLEAN, turnSeq : 0..MaxSends, cancel : 0..MaxSends, abortRequested : BOOLEAN]
        /\ Idle.cancel = 0
    <3>1. 0 \in 0..MaxSends
      BY RunsAssumption
    <3>2. QED BY <3>1 DEF Idle
  <2>3. session' = session \/ session' = Idle
    BY <1>2
  <2>4. QED BY <1>2, <2>1, <2>2, <2>3
<1>5. Typed'
  <2>1. TypeOK'
    BY <1>1, <1>2, <1>4 DEF Typed, TypeOK
  <2>2. QED BY <1>1, <1>2, <2>1 DEF Typed
<1>6. Placed'
    BY <1>1, <1>2 DEF Placed, Serving, Closed, Idle
<1>7. Reported'
    BY <1>1, <1>2, <1>3 DEF Reported
<1>8. StopKnown' /\ StopsAreExact'
  <2>1. StopKnown'
    BY <1>1, <1>2 DEF StopKnown, Idle
  <2>2. StopHitsItsTarget'
    BY <1>1, <1>2 DEF StopsAreExact, StopHitsItsTarget, TurnSeqOf
  <2>3. StopNotLost'
    BY <1>1, <1>2, <1>3 DEF StopsAreExact, StopNotLost, TurnSeqOf
  <2>4. QED BY <2>1, <2>2, <2>3 DEF StopsAreExact
<1>9. FramesTold' /\ StatusTruthful' /\ OneTerminal'
  <2>1. pc' \in Serving => pc \in Serving /\ session'.turnSeq = session.turnSeq
    BY <1>2 DEF Serving
  <2>2. QED BY <1>2, <1>3, <1>5, <2>1, FramesUntouched
<1>10. QED BY <1>5, <1>6, <1>7, <1>8, <1>9 DEF BridgeInv

\* The worker closes the run: a terminal frame, unless the engine gave it one.
LEMMA CloseKeeps == BridgeInv /\ (AbortRun \/ FinishRun) => BridgeInv'
<1> SUFFICES ASSUME BridgeInv, AbortRun \/ FinishRun PROVE BridgeInv'
    OBVIOUS
<1>1. Typed /\ Placed /\ Reported /\ StopKnown /\ FramesTold /\ StopsAreExact
    BY DEF BridgeInv
<1>2. rs \in RunSessions /\ run \in 0..MaxSends /\ result \in Results
  <2>1. rs \in RunSessions /\ run \in 0..sent /\ sent \in 0..MaxSends /\ result \in Results
    BY <1>1 DEF Typed, TypeOK
  <2>2. QED BY <2>1, RunsAssumption
\* The frame, and what it says.
<1>3. PICK f :
        /\ f \in Frames /\ f.run = run /\ f.turn = rs.seq /\ f.kind \in Terminal
        /\ f.status \in {"ABORTED", "COMPLETED", "FAILED"}
        /\ f.status = "ABORTED" => Cancelled(run) \/ result = "stop"
        /\ f.status = "COMPLETED" => result = "nil"
        /\ f.status = "FAILED" => result = "other"
        /\ pc = "returned" /\ Unlocked /\ pc' \in {"aborting", "finishing"}
        /\ rs' = [Flushed(rs) EXCEPT !.finished = TRUE, !.terminalEmitted = TRUE]
        /\ outbox' = FlushFrames(rs) \o (IF rs.terminalEmitted THEN <<>> ELSE <<f>>)
        /\ UNCHANGED <<inbound, sent, run, session, cancelled, shutdown, fired, stage,
                       result, tokens, steps, stream, stops, named, blanket>>
  <2>1. rs.answerSoFar \in Seq(Int) /\ rs.seq \in 0..MaxSends /\ run \in 0..MaxSends
    BY <1>2 DEF RunSessions
  <2>2. Final \in Seq(Int) /\ ErrorText \in Seq(Int)
    BY DEF Final, ErrorText
  <2>3. CASE AbortRun
    <3>1. PICK g : g = Frame("RunFinished", rs.seq, rs.answerSoFar, "ABORTED")
      OBVIOUS
    <3>2. g \in Frames /\ g.run = run /\ g.turn = rs.seq /\ g.kind \in Terminal /\ g.status = "ABORTED"
      BY <2>1, <3>1 DEF Frame, Frames, Kinds, Terminal
    <3>3. /\ pc = "returned" /\ Cancelled(run) /\ CloseRun(AbortFrame, "aborting")
          /\ AbortFrame = (IF rs.terminalEmitted THEN <<>> ELSE <<g>>)
      BY <2>3, <3>1 DEF AbortRun, AbortFrame, Closing
    <3>4. QED BY <3>2, <3>3 DEF CloseRun
  <2>4. CASE FinishRun
    <3>1. PICK status : status = FinishTerminalStatus(result)
      OBVIOUS
    <3>2. /\ status \in {"ABORTED", "COMPLETED", "FAILED"}
          /\ status = "ABORTED" => result \in {"canceled", "stop"}
          /\ status = "COMPLETED" => result = "nil"
          /\ status = "FAILED" => result = "other"
      BY <1>2, <3>1 DEF FinishTerminalStatus, RunFailedStatus, Results
    <3>3. PICK g : g = Frame(IF status = "FAILED" THEN "RunFailed" ELSE "RunFinished", rs.seq,
                             IF result = "nil" THEN Final ELSE ErrorText, status)
      OBVIOUS
    <3>4. g \in Frames /\ g.run = run /\ g.turn = rs.seq /\ g.kind \in Terminal /\ g.status = status
      BY <2>1, <2>2, <3>2, <3>3 DEF Frame, Frames, Kinds, Terminal
    <3>5. /\ pc = "returned" /\ CloseRun(FinishFrame, "finishing")
          /\ FinishFrame = (IF rs.terminalEmitted THEN <<>> ELSE <<g>>)
      BY <2>4, <3>1, <3>3 DEF FinishRun, FinishFrame, Closing
    <3>6. status = "ABORTED" => Cancelled(run) \/ result = "stop"
      BY <1>1, <3>2 DEF Reported
    <3>7. QED BY <3>2, <3>4, <3>5, <3>6 DEF CloseRun
  <2>5. QED BY <2>3, <2>4
<1>4. /\ rs' \in RunSessions /\ rs'.seq = rs.seq /\ rs'.timer = "nil" /\ rs'.finished = TRUE
      /\ rs'.terminalEmitted = TRUE /\ rs'.answerPending = <<>> /\ rs'.reasoningPending = <<>>
  <2>1. PICK t : t = Flushed(rs)
    OBVIOUS
  <2>2. /\ t \in RunSessions /\ t.seq = rs.seq /\ t.timer = "nil"
        /\ t.answerPending = <<>> /\ t.reasoningPending = <<>>
    BY <1>2, <2>1, FlushedSound
  <2>3. QED BY <1>3, <2>1, <2>2 DEF RunSessions
<1>5. /\ rs.terminalEmitted => outbox' = <<>>
      /\ ~rs.terminalEmitted => outbox' = FlushFrames(rs) \o <<f>>
      /\ outbox' \in Seq(Frames)
  <2>1. rs.terminalEmitted => FlushFrames(rs) = <<>>
    BY <1>1, FlushOfNothing DEF Reported
  <2>2. rs.terminalEmitted => outbox' = <<>>
    BY <1>3, <2>1
  <2>3. ~rs.terminalEmitted => outbox' = FlushFrames(rs) \o <<f>>
    BY <1>3
  <2>4. ~rs.terminalEmitted => outbox' \in Seq(Frames)
    BY <1>2, <1>3, <2>3, FlushThen
  <2>5. <<>> \in Seq(Frames)
    OBVIOUS
  <2>6. QED BY <2>2, <2>3, <2>4, <2>5
<1>6. Typed'
  <2>1. TypeOK'
    BY <1>1, <1>3, <1>4 DEF Typed, TypeOK
  <2>2. QED BY <1>1, <1>3, <1>4, <1>5, <2>1 DEF Typed
<1>7. Placed'
  <2>1. pc \in Serving \ {"opened"} /\ pc' \in (Serving \ {"opened"}) \cap Closed /\ pc' \notin {"select", "opened", "stopped"}
    BY <1>3 DEF Serving, Closed
  <2>2. session.running /\ run # 0 /\ session.cancel = run /\ session.turnSeq \in {0, run} /\ rs.seq \in {0, run}
    BY <1>1, <2>1 DEF Placed
  <2>3. QED BY <1>3, <1>4, <2>1, <2>2 DEF Placed
<1>8. Cancelled(run)' <=> Cancelled(run)
    BY <1>3 DEF Cancelled
<1>9. Reported'
    BY <1>1, <1>3, <1>4, <1>8 DEF Reported
<1>10. StopKnown' /\ StopsAreExact'
    BY <1>1, <1>3, <1>8 DEF StopKnown, StopsAreExact, StopHitsItsTarget, StopNotLost, TurnSeqOf
<1>11. FramesTold' /\ StatusTruthful' /\ OneTerminal'
  <2>1. pc \in Serving /\ pc' \in Serving
    BY <1>3 DEF Serving
  <2>2. CASE rs.terminalEmitted
    <3>1. Whole' = Whole
      BY <1>3, <1>5, <2>2 DEF Whole, Unlocked
    <3>2. (rs'.terminalEmitted <=> rs.terminalEmitted) /\ (rs'.finished /\ run # 0 => rs'.terminalEmitted)
      BY <1>4, <2>2
    <3>3. rs'.seq = rs.seq /\ session' = session /\ run' = run /\ result' = result
      BY <1>3, <1>4
    <3>4. QED BY <1>6, <1>8, <2>1, <3>1, <3>2, <3>3, FramesKept
  <2>3. CASE ~rs.terminalEmitted
    <3>1. /\ Len(outbox') \in Nat /\ Len(outbox') >= 1 /\ outbox'[Len(outbox')] = f
          /\ \A i \in 1..Len(outbox') : i # Len(outbox') => outbox'[i] \in Quiet(rs.seq)
      BY <1>2, <1>3, <1>5, <2>3, FlushThen
    <3>2. PICK status \in {"ABORTED", "COMPLETED", "FAILED"} : status = f.status
      BY <1>3
    <3>3. Adds(TRUE, status)
      <4>1. Unlocked /\ UNCHANGED <<stream, run>> /\ outbox' \in Seq(Frames)
        BY <1>3, <1>5
      <4>2. ASSUME NEW i \in 1..Len(outbox'), i # Len(outbox')
            PROVE  /\ outbox'[i].run = run /\ outbox'[i].turn \in {0, rs'.seq}
                   /\ outbox'[i].kind \notin Terminal /\ outbox'[i].status = ""
        BY <1>4, <3>1, <4>2 DEF Quiet
      <4>3. f.run = run /\ f.turn \in {0, rs'.seq} /\ f.kind \in Terminal /\ f.status = status
        BY <1>3, <1>4, <3>2
      <4>4. QED BY <3>1, <4>1, <4>2, <4>3 DEF Adds
    <3>4. /\ status = "ABORTED" => Cancelled(run)' \/ result' = "stop"
          /\ status = "COMPLETED" => result' = "nil"
          /\ status = "FAILED" => result' = "other"
      BY <1>3, <1>8, <3>2
    <3>5. /\ rs'.terminalEmitted <=> TRUE
          /\ rs'.finished => TRUE
          /\ rs'.seq \in {0, run}
      BY <1>1, <1>4 DEF Placed
    <3>6. (rs'.seq = run => session'.turnSeq = run) /\ (session.turnSeq = run => session'.turnSeq = run)
      BY <1>1, <1>3, <1>4, <2>1 DEF FramesTold
    <3>7. QED BY <1>6, <2>1, <2>3, <3>3, <3>4, <3>5, <3>6, FramesAdded
  <2>4. QED BY <2>2, <2>3
<1>12. QED BY <1>6, <1>7, <1>9, <1>10, <1>11 DEF BridgeInv

LEMMA TimerKeeps == BridgeInv /\ TimerFires => BridgeInv'
<1> SUFFICES ASSUME BridgeInv, TimerFires PROVE BridgeInv'
    OBVIOUS
<1>1. Typed /\ Placed /\ Reported /\ StopKnown /\ StopsAreExact
    BY DEF BridgeInv
<1>2. /\ rs.timer = "armed" /\ rs' = [rs EXCEPT !.timer = "fired"]
      /\ fired' = [fired EXCEPT ![run] = @ + 1]
      /\ UNCHANGED <<inbound, sent, pc, run, session, cancelled, shutdown, stage, result, tokens,
                     steps, outbox, stream, stops, named, blanket>>
    BY DEF TimerFires
<1>3. /\ rs \in RunSessions /\ run \in 0..sent /\ sent \in 0..MaxSends /\ MaxSends \in Nat
      /\ fired \in [Runs -> 0..MaxTokens] /\ tokens \in 0..MaxTokens /\ MaxTokens \in Nat
      /\ fired[run] + 1 <= tokens /\ \A r \in Runs : fired[r] <= tokens
    BY <1>1, <1>2, RunsAssumption DEF Typed, TypeOK
<1>4. ~rs.finished /\ run # 0 /\ run \in Runs
  <2>1. ~rs.finished
    BY <1>1, <1>2 DEF Reported
  <2>2. run # 0
    BY <1>1, <2>1 DEF Placed, Serving, Closed, Typed, TypeOK
  <2>3. QED BY <1>3, <2>1, <2>2 DEF Runs
<1>5. /\ rs' \in RunSessions /\ rs'.seq = rs.seq /\ rs'.timer = "fired" /\ rs'.finished = rs.finished
      /\ rs'.terminalEmitted = rs.terminalEmitted /\ rs'.answerPending = rs.answerPending
      /\ rs'.reasoningPending = rs.reasoningPending
    BY <1>2, <1>3 DEF RunSessions
<1>6. /\ fired' \in [Runs -> 0..MaxTokens] /\ fired'[run] > 0 /\ \A r \in Runs : fired'[r] <= tokens
  <2>1. fired[run] \in Nat /\ fired[run] + 1 \in 0..MaxTokens
    BY <1>3, <1>4
  <2>2. QED BY <1>2, <1>3, <1>4, <2>1
<1>7. Typed'
  <2>1. TypeOK'
    BY <1>1, <1>2, <1>5, <1>6 DEF Typed, TypeOK
  <2>2. QED BY <1>1, <1>2, <1>5, <1>6, <2>1 DEF Typed
<1>8. Placed'
  <2>1. pc # "opened"
    BY <1>1, <1>2 DEF Placed, NewRunSession
  <2>2. QED BY <1>1, <1>2, <1>5, <2>1 DEF Placed
<1>9. Cancelled(run)' <=> Cancelled(run)
    BY <1>2 DEF Cancelled
<1>10. Reported'
    BY <1>1, <1>2, <1>4, <1>5, <1>9 DEF Reported
<1>11. StopKnown' /\ StopsAreExact'
    BY <1>1, <1>2, <1>9 DEF StopKnown, StopsAreExact, StopHitsItsTarget, StopNotLost, TurnSeqOf
<1>12. FramesTold' /\ StatusTruthful' /\ OneTerminal'
  <2>1. Whole' = Whole /\ run' = run /\ session' = session /\ pc' = pc /\ result' = result
    BY <1>2 DEF Whole
  <2>2. /\ rs'.terminalEmitted <=> rs.terminalEmitted
        /\ rs'.finished /\ run # 0 => rs'.terminalEmitted
    BY <1>4, <1>5
  <2>3. QED BY <1>5, <1>7, <1>9, <2>1, <2>2, FramesKept
<1>13. QED BY <1>7, <1>8, <1>10, <1>11, <1>12 DEF BridgeInv

\* A flush callback that gets the mutex, of the run in progress or of an
\* earlier one.
LEMMA FlushKeeps ==
    ASSUME BridgeInv, NEW r \in Runs, FlushDeltaBuffers(r)
    PROVE  BridgeInv'
<1>1. Typed /\ Placed /\ Reported /\ StopKnown /\ FramesTold /\ StopsAreExact
    BY DEF BridgeInv
<1>2. /\ fired[r] > 0 /\ (r = run => Unlocked) /\ fired' = [fired EXCEPT ![r] = @ - 1]
      /\ IF r # run \/ rs.finished THEN UNCHANGED <<rs, outbox>>
         ELSE rs' = Flushed(rs) /\ outbox' = FlushFrames(rs)
      /\ UNCHANGED <<inbound, sent, pc, run, session, cancelled, shutdown, stage,
                     result, tokens, steps, stream, stops, named, blanket>>
    BY DEF FlushDeltaBuffers
<1>3. /\ rs \in RunSessions /\ run \in 0..MaxSends /\ outbox \in Seq(Frames)
      /\ fired \in [Runs -> 0..MaxTokens] /\ MaxTokens \in Nat /\ tokens \in 0..MaxTokens
      /\ \A x \in Runs : fired[x] <= tokens
      /\ rs.timer = "armed" => fired[run] + 1 <= tokens
      /\ rs.timer = "fired" => fired[run] > 0
  <2>1. rs \in RunSessions /\ run \in 0..sent /\ sent \in 0..MaxSends /\ outbox \in Seq(Frames)
    BY <1>1 DEF Typed, TypeOK
  <2>2. run \in 0..MaxSends
    BY <2>1, RunsAssumption
  <2>3. /\ fired \in [Runs -> 0..MaxTokens] /\ MaxTokens \in Nat /\ tokens \in 0..MaxTokens
        /\ \A x \in Runs : fired[x] <= tokens
        /\ rs.timer = "armed" => fired[run] + 1 <= tokens
        /\ rs.timer = "fired" => fired[run] > 0
    BY <1>1, RunsAssumption DEF Typed, TypeOK
  <2>4. QED BY <2>1, <2>2, <2>3
<1>4. /\ fired' \in [Runs -> 0..MaxTokens]
      /\ \A x \in Runs : fired'[x] <= tokens /\ fired'[x] <= fired[x]
      /\ r # run => fired'[run] = fired[run]
  <2>1. fired[r] \in 0..MaxTokens /\ fired[r] - 1 \in 0..MaxTokens /\ fired[r] - 1 <= tokens
    BY <1>2, <1>3
  <2>2. fired' \in [Runs -> 0..MaxTokens] /\ \A x \in Runs : fired'[x] = IF x = r THEN fired[r] - 1 ELSE fired[x]
    BY <1>2, <1>3, <2>1
  <2>3. \A x \in Runs : fired[x] \in Int
    BY <1>3
  <2>4. ASSUME NEW x \in Runs PROVE fired'[x] <= tokens /\ fired'[x] <= fired[x]
    BY <1>3, <2>1, <2>2, <2>3
  <2>5. r # run => fired'[run] = fired[run]
    BY <1>2, <1>3
  <2>6. QED BY <2>2, <2>4, <2>5
<1>5. /\ rs' \in RunSessions /\ rs'.seq = rs.seq /\ rs'.finished = rs.finished
      /\ rs'.terminalEmitted = rs.terminalEmitted
      /\ \/ rs' = rs /\ outbox' = outbox /\ (r # run \/ rs.finished)
         \/ /\ rs' = Flushed(rs) /\ rs'.timer = "nil" /\ rs'.answerPending = <<>> /\ rs'.reasoningPending = <<>>
            /\ outbox' = FlushFrames(rs) /\ ~rs.finished /\ r = run /\ Unlocked
    BY <1>2, <1>3, FlushedSound
<1>6. outbox' \in Seq(Frames)
  <2>1. FlushFrames(rs) \in Seq(Quiet(rs.seq))
    BY <1>3, FlushIsQuiet
  <2>2. Quiet(rs.seq) \subseteq Frames
    BY DEF Quiet
  <2>3. FlushFrames(rs) \in Seq(Frames)
    BY <2>1, <2>2
  <2>4. QED BY <1>3, <1>5, <2>3
<1>7. Typed'
  <2>1. rs.finished => rs.timer = "nil"
    BY <1>1 DEF Reported
  <2>2. /\ rs'.timer = "fired" => fired'[run] > 0
        /\ rs'.timer = "armed" => fired'[run] + 1 <= tokens
    BY <1>3, <1>4, <1>5, <2>1
  <2>3. rs'.timer \in {"nil", "armed", "fired"}
    BY <1>5 DEF RunSessions
  <2>4. TypeOK'
    BY <1>1, <1>2, <1>4, <2>2, <2>3 DEF Typed, TypeOK
  <2>5. QED BY <1>1, <1>2, <1>4, <1>5, <1>6, <2>2, <2>4 DEF Typed
<1>8. pc \in {"select", "opened", "stopped"} => rs' = rs /\ outbox' = outbox
  <2>1. pc \in {"select", "stopped"} => rs.finished
    BY <1>1 DEF Placed, Closed
  <2>2. CASE r # run \/ rs.finished
    BY <1>2, <2>2
  <2>3. CASE r = run /\ ~rs.finished /\ pc = "opened"
    <3>1. rs = NewRunSession /\ outbox = <<>>
      BY <1>1, <2>3 DEF Placed
    <3>2. Flushed(rs) = rs /\ FlushFrames(rs) = <<>>
      <4>1. Flushed(rs) = rs
        <5>1. ASSUME NEW s \in RunSessions
              PROVE  s = [finished |-> s.finished, terminalEmitted |-> s.terminalEmitted, timer |-> s.timer,
                          answerPending |-> s.answerPending, reasoningPending |-> s.reasoningPending,
                          answerSoFar |-> s.answerSoFar, seq |-> s.seq]
          BY DEF RunSessions
        <5>2. Flushed(rs).answerSoFar = rs.answerSoFar
          BY <1>3 DEF Flushed, RunSessions
        <5>3. rs.timer = "nil" /\ rs.answerPending = <<>> /\ rs.reasoningPending = <<>>
          BY <3>1 DEF NewRunSession
        <5>4. PICK t \in RunSessions : t = Flushed(rs)
          BY <1>3, FlushedSound
        <5>5. /\ t.timer = rs.timer /\ t.answerPending = rs.answerPending /\ t.seq = rs.seq
              /\ t.reasoningPending = rs.reasoningPending /\ t.answerSoFar = rs.answerSoFar
              /\ t.finished = rs.finished /\ t.terminalEmitted = rs.terminalEmitted
          BY <1>3, <5>2, <5>3, <5>4, FlushedSound
        <5>6. t = rs
          BY <1>3, <5>1, <5>5
        <5>7. QED BY <5>4, <5>6
      <4>2. rs.answerPending = <<>> /\ rs.reasoningPending = <<>>
        BY <3>1 DEF NewRunSession
      <4>3. QED BY <4>1, <4>2, FlushOfNothing
    <3>3. QED BY <1>5, <3>1, <3>2
  <2>4. QED BY <2>1, <2>2, <2>3
<1>9. Placed'
    BY <1>1, <1>2, <1>5, <1>8 DEF Placed
<1>10. Cancelled(run)' <=> Cancelled(run)
    BY <1>2 DEF Cancelled
<1>11. Reported'
    BY <1>1, <1>2, <1>5, <1>10 DEF Reported
<1>12. StopKnown' /\ StopsAreExact'
    BY <1>1, <1>2, <1>10 DEF StopKnown, StopsAreExact, StopHitsItsTarget, StopNotLost, TurnSeqOf
<1>13. FramesTold' /\ StatusTruthful' /\ OneTerminal'
  <2>1. CASE Whole' = Whole
    <3>1. run' = run /\ session' = session /\ pc' = pc /\ result' = result
      BY <1>2
    <3>2. /\ rs'.terminalEmitted <=> rs.terminalEmitted
          /\ rs'.finished /\ run # 0 => rs'.terminalEmitted
      BY <1>1, <1>5 DEF Placed
    <3>3. QED BY <1>5, <1>7, <1>10, <2>1, <3>1, <3>2, FramesKept
  <2>2. CASE rs' = rs /\ outbox' = outbox
    BY <1>2, <2>1, <2>2 DEF Whole
  <2>3. CASE outbox' = FlushFrames(rs) /\ ~rs.finished /\ Unlocked /\ rs.terminalEmitted
    <3>1. FlushFrames(rs) = <<>>
      BY <1>1, <2>3, FlushOfNothing DEF Reported
    <3>2. QED BY <1>2, <2>1, <2>3, <3>1 DEF Whole, Unlocked
  <2>4. CASE outbox' = FlushFrames(rs) /\ ~rs.finished /\ Unlocked /\ ~rs.terminalEmitted
    <3>1. outbox' \in Seq(Quiet(rs.seq))
      BY <1>3, <2>4, FlushIsQuiet
    <3>2. \A i \in 1..Len(outbox') : outbox'[i] \in Quiet(rs.seq)
      BY <3>1
    <3>3. Adds(FALSE, "FAILED")
      BY <1>2, <1>5, <1>6, <2>4, <3>2 DEF Adds, Quiet
    <3>4. pc \in Serving /\ pc' \in Serving
      BY <1>1, <1>2, <2>4 DEF Placed, Closed, Serving, Typed, TypeOK
    <3>5. (rs'.seq = run => session'.turnSeq = run) /\ (session.turnSeq = run => session'.turnSeq = run)
      BY <1>1, <1>2, <1>5, <3>4 DEF FramesTold
    <3>6. /\ rs'.terminalEmitted <=> FALSE
          /\ rs'.finished => FALSE
          /\ rs'.seq \in {0, run}
      BY <1>1, <1>5, <2>4 DEF Placed
    <3>7. QED BY <1>7, <2>4, <3>3, <3>4, <3>5, <3>6, FramesAdded
  <2>5. QED BY <1>5, <2>2, <2>3, <2>4
<1>14. QED BY <1>7, <1>9, <1>11, <1>12, <1>13 DEF BridgeInv

LEMMA AppendKeeps == BridgeInv /\ AppendFrame => BridgeInv'
<1> SUFFICES ASSUME BridgeInv, AppendFrame PROVE BridgeInv'
    OBVIOUS
<1>1. Typed /\ Placed /\ Reported /\ StopKnown /\ StopsAreExact
    BY DEF BridgeInv
<1>2. /\ outbox # <<>>
      /\ UNCHANGED <<inbound, sent, pc, run, session, cancelled, shutdown, rs, fired,
                     stage, result, tokens, steps, stops, named, blanket>>
    BY DEF AppendFrame
<1>3. Whole' = Whole /\ outbox' \in Seq(Frames) /\ stream' \in Seq(Frames)
    BY <1>1, WholeMoves
<1>4. Typed'
  <2>1. TypeOK'
    BY <1>1, <1>2 DEF Typed, TypeOK
  <2>2. QED BY <1>1, <1>2, <1>3, <2>1 DEF Typed
<1>5. Cancelled(run)' <=> Cancelled(run)
    BY <1>2 DEF Cancelled
<1>6. Placed' /\ Reported'
    BY <1>1, <1>2, <1>5 DEF Placed, Reported
<1>7. StopKnown' /\ StopsAreExact'
    BY <1>1, <1>2, <1>5 DEF StopKnown, StopsAreExact, StopHitsItsTarget, StopNotLost, TurnSeqOf
<1>8. FramesTold' /\ StatusTruthful' /\ OneTerminal'
  <2>1. /\ rs'.terminalEmitted <=> rs.terminalEmitted
        /\ rs'.finished /\ run # 0 => rs'.terminalEmitted
        /\ rs'.seq = rs.seq /\ run' = run /\ session' = session /\ pc' = pc /\ result' = result
    BY <1>1, <1>2 DEF Placed
  <2>2. QED BY <1>3, <1>4, <1>5, <2>1, FramesKept
<1>9. QED BY <1>4, <1>6, <1>7, <1>8 DEF BridgeInv

-----------------------------------------------------------------------------
LEMMA InitBridge == Init => BridgeInv
<1> SUFFICES ASSUME Init PROVE BridgeInv
    OBVIOUS
<1>1. /\ inbound = 0 /\ sent = 0 /\ pc = "select" /\ run = 0 /\ session = Idle /\ cancelled = {}
      /\ shutdown = FALSE /\ rs = [NewRunSession EXCEPT !.finished = TRUE] /\ fired = [r \in Runs |-> 0]
      /\ stage = "done" /\ result = "nil" /\ tokens = 0 /\ steps = 0 /\ outbox = <<>>
      /\ stops = 0 /\ named = {} /\ blanket = {}
    BY DEF Init
<1>2. PICK f : f = [kind |-> "SessionOpened", run |-> 0, turn |-> 0, text |-> <<>>, status |-> ""]
    OBVIOUS
<1>3. stream = <<f>>
    BY <1>2 DEF Init
<1>4. MaxSends \in Nat /\ BusSize \in Nat /\ MaxTokens \in Nat /\ MaxSteps \in Nat /\ MaxStops \in Nat
    BY RunsAssumption
<1>5. <<>> \in Seq(Int) /\ <<>> \in Seq(Frames)
    OBVIOUS
<1>6. f \in Frames /\ f.run = 0 /\ f.turn = 0 /\ f.kind \notin Terminal /\ f.status = ""
  <2>1. 0 \in 0..MaxSends /\ "SessionOpened" \in Kinds \ Terminal
    BY <1>4 DEF Kinds, Terminal, DeltaKinds
  <2>2. f \in Frames
    BY <1>2, <1>5, <2>1 DEF Frames
  <2>3. QED BY <1>2, <2>1, <2>2
<1>7. /\ rs \in RunSessions /\ rs.finished = TRUE /\ rs.terminalEmitted = FALSE /\ rs.timer = "nil"
      /\ rs.answerPending = <<>> /\ rs.reasoningPending = <<>> /\ rs.seq = 0
  <2>1. 0 \in 0..MaxSends
    BY <1>4
  <2>2. rs = [finished |-> TRUE, terminalEmitted |-> FALSE, timer |-> "nil", answerPending |-> <<>>,
              reasoningPending |-> <<>>, answerSoFar |-> <<>>, seq |-> 0]
    BY <1>1 DEF NewRunSession
  <2>3. QED BY <1>5, <2>1, <2>2 DEF RunSessions
<1>8. Typed
  <2>1. fired \in [Runs -> 0..MaxTokens] /\ \A r \in Runs : fired[r] = 0
    BY <1>1, <1>4
  <2>2. stream \in Seq(Frames)
    BY <1>3, <1>6, OneOrNone
  <2>3. /\ session \in [running : BOOLEAN, turnSeq : 0..MaxSends, cancel : 0..MaxSends, abortRequested : BOOLEAN]
        /\ session.cancel = 0
    BY <1>1, <1>4 DEF Idle
  <2>4. TypeOK
    <3>1. /\ inbound \in 0..BusSize /\ sent \in 0..MaxSends /\ run \in 0..sent /\ tokens \in 0..MaxTokens
          /\ steps \in 0..MaxSteps /\ stops \in 0..MaxStops
      BY <1>1, <1>4
    <3>2. cancelled \subseteq 1..run /\ named \subseteq Runs /\ blanket \subseteq Runs /\ shutdown \in BOOLEAN
      BY <1>1
    <3>3. session.cancel \in {0, run}
      BY <2>3
    <3>4. QED BY <1>1, <1>7, <2>1, <2>3, <3>1, <3>2, <3>3 DEF TypeOK, Results
  <2>5. QED BY <1>1, <1>4, <1>5, <1>7, <2>1, <2>2, <2>4 DEF Typed
<1>9. Placed
    BY <1>1, <1>7 DEF Placed, Serving, Closed, Idle
<1>10. Reported /\ StopKnown
    BY <1>1, <1>7 DEF Reported, StopKnown, Idle
<1>11. StopsAreExact
    BY <1>1 DEF StopsAreExact, StopHitsItsTarget, StopNotLost
<1>12. Whole = <<f>> /\ Len(Whole) = 1 /\ Whole[1] = f /\ DOMAIN Whole = 1..1
  <2>1. Whole = <<f>>
    BY <1>1, <1>3 DEF Whole
  <2>2. QED BY <2>1
<1>13. \A i \in 1..1 : Whole[i] = f
    BY <1>12
<1>14. FramesTold
  <2>1. FrameTold(f)
    <3>1. f.run <= run
      <4>1. f.run = 0
        BY <1>6
      <4>2. run = 0
        BY <1>1
      <4>3. 0 <= 0
        OBVIOUS
      <4>4. QED BY <4>1, <4>2, <4>3
    <3>2. f.turn \in {0, f.run}
      BY <1>6
    <3>3. pc \notin Serving
      BY <1>1 DEF Serving
    <3>4. QED BY <1>6, <3>1, <3>2, <3>3 DEF FrameTold
  <2>2. QED BY <1>1, <1>7, <1>12, <1>13, <2>1 DEF FramesTold, Serving
<1>15. StatusTruthful
    BY <1>6, <1>12, <1>13 DEF StatusTruthful
<1>16. OneTerminal
  <2>1. 1..run = {}
    BY <1>1
  <2>2. QED BY <1>6, <1>12, <1>13, <2>1 DEF OneTerminal
<1>17. QED BY <1>8, <1>9, <1>10, <1>11, <1>14, <1>15, <1>16 DEF BridgeInv

LEMMA StutterKeeps == BridgeInv /\ UNCHANGED runVars => BridgeInv'
<1> SUFFICES ASSUME BridgeInv, UNCHANGED runVars PROVE BridgeInv'
    OBVIOUS
<1>1. Typed /\ Placed /\ Reported /\ StopKnown /\ StopsAreExact
    BY DEF BridgeInv
<1>2. UNCHANGED <<inbound, sent, pc, run, session, cancelled, shutdown, rs, fired, stage, result,
                  tokens, steps, outbox, stream, stops, named, blanket>>
    BY DEF runVars
<1>3. TypeOK'
    BY <1>1, <1>2 DEF Typed, TypeOK
<1>4. Typed'
    BY <1>1, <1>2, <1>3 DEF Typed
<1>5. Cancelled(run)' <=> Cancelled(run)
    BY <1>2 DEF Cancelled
<1>6. Placed' /\ Reported'
    BY <1>1, <1>2, <1>5 DEF Placed, Reported
<1>7. StopKnown' /\ StopsAreExact'
    BY <1>1, <1>2, <1>5 DEF StopKnown, StopsAreExact, StopHitsItsTarget, StopNotLost, TurnSeqOf
<1>8. FramesTold' /\ StatusTruthful' /\ OneTerminal'
    BY <1>2, <1>4, <1>5, FramesUntouched
<1>9. QED BY <1>4, <1>6, <1>7, <1>8 DEF BridgeInv

LEMMA BridgeStep == BridgeInv /\ [Next]_runVars => BridgeInv'
<1> SUFFICES ASSUME BridgeInv, [Next]_runVars PROVE BridgeInv'
    OBVIOUS
<1>1. CASE Rpc
    BY <1>1, SendKeeps, AbortKeeps DEF Rpc
<1>2. CASE Worker
    BY <1>2, OpenKeeps, SetCancelKeeps, WorkerKeeps, CloseKeeps DEF Worker
<1>3. CASE EngineStep
    BY <1>3, EngineKeeps
<1>4. CASE Timer
    BY <1>4, TimerKeeps, FlushKeeps DEF Timer
<1>5. CASE AppendFrame
    BY <1>5, AppendKeeps
<1>6. CASE Shutdown
    BY <1>6, WorkerKeeps
<1>7. CASE UNCHANGED runVars
    BY <1>7, StutterKeeps
<1>8. QED BY <1>1, <1>2, <1>3, <1>4, <1>5, <1>6, <1>7 DEF Next

\* The inductive invariant, for every number of messages, deltas and Stops.
THEOREM BridgeInvariant == Spec => []BridgeInv
BY InitBridge, BridgeStep, PTL DEF Spec

\* cancelRun and setCancel: a Stop cancels the run it names, or whichever was
\* in flight when it named none, and a Stop that came before the run had a
\* cancel func is honoured when it gets one.
THEOREM StopsAreExactCorrect == Spec => []StopsAreExact
<1>1. BridgeInv => StopsAreExact
    BY DEF BridgeInv
<1>2. QED BY <1>1, BridgeInvariant, PTL

\* runFailedStatus, finishTerminalStatus, Finish and Abort: the terminal frame
\* says of its run what Reply returned and whether it was cancelled, and every
\* variable keeps its type.
THEOREM SessionTruthfulCorrect == Spec => []SessionTruthful
<1>1. BridgeInv => SessionTruthful
    BY DEF BridgeInv, Typed, SessionTruthful
<1>2. QED BY <1>1, BridgeInvariant, PTL

\* OnRunEvent, Finish and Abort: a run has one terminal frame and no frame
\* after it, whichever of them emitted it.
THEOREM OneTerminalCorrect == Spec => []OneTerminal
<1>1. BridgeInv => OneTerminal
    BY DEF BridgeInv
<1>2. QED BY <1>1, BridgeInvariant, PTL

\* scheduleDeltaFlushLocked and flushDeltaBuffersLocked: pending text is never
\* left without a timer or a callback that will flush it.
THEOREM PendingIsArmedCorrect == Spec => []PendingIsArmed
<1>1. BridgeInv => PendingIsArmed
  <2>1. SUFFICES ASSUME Typed, Reported PROVE PendingIsArmed
    BY DEF BridgeInv
  <2>2. (rs.answerPending # <<>> \/ rs.reasoningPending # <<>>) => rs.timer # "nil"
    BY <2>1 DEF Reported
  <2>3. rs.timer \in {"nil", "armed", "fired"} /\ (rs.timer = "fired" => fired[run] > 0)
    BY <2>1 DEF Typed, TypeOK
  <2>4. QED BY <2>2, <2>3 DEF PendingIsArmed
<1>2. QED BY <1>1, BridgeInvariant, PTL

-----------------------------------------------------------------------------
(* The text a sequence of frames carries. *)

LEMMA LeastOf ==
    ASSUME NEW T, T \subseteq Nat, T # {}
    PROVE  \E x \in T : \A y \in T : x <= y
  <1>1. PICK x \in T : \A y \in T : ~(<<y, x>> \in OpToRel(<, Nat))
    BY NatLessThanWellFounded, WFMin
  <1>2. \A y \in T : ~(y < x)
    BY <1>1 DEF OpToRel
  <1> QED  BY <1>2

\* The beginnings of a sequence.
LEMMA Beginning ==
    ASSUME NEW Q, NEW s \in Seq(Q)
    PROVE  /\ Len(s) \in Nat /\ SubSeq(s, 1, Len(s)) = s /\ SubSeq(s, 1, 0) = <<>>
           /\ \A n \in 1..Len(s) : /\ s[n] \in Q /\ SubSeq(s, 1, n - 1) \in Seq(Q) /\ Len(SubSeq(s, 1, n - 1)) = n - 1
                                   /\ SubSeq(s, 1, n) = Append(SubSeq(s, 1, n - 1), s[n])
  <1>1. Len(s) \in Nat /\ SubSeq(s, 1, Len(s)) = s /\ SubSeq(s, 1, 0) = <<>>
    OBVIOUS
  <1>2. ASSUME NEW n \in 1..Len(s)
        PROVE  /\ s[n] \in Q /\ SubSeq(s, 1, n - 1) \in Seq(Q) /\ Len(SubSeq(s, 1, n - 1)) = n - 1
               /\ SubSeq(s, 1, n) = Append(SubSeq(s, 1, n - 1), s[n])
    OBVIOUS
  <1> QED  BY <1>1, <1>2

LEMMA Longer ==
    ASSUME NEW Q, NEW s \in Seq(Q), NEW x \in Q
    PROVE  /\ Append(s, x) \in Seq(Q) /\ Append(s, x) # <<>> /\ Len(Append(s, x)) = Len(s) + 1 /\ Len(s) \in Nat
           /\ Append(s, x)[Len(s) + 1] = x /\ \A i \in 1..Len(s) : Append(s, x)[i] = s[i]
  OBVIOUS

\* The parts up to each place, put together: f is the recursive function of FlattenSeq.
Sums(f, ss) ==
    /\ DOMAIN f = 1..Len(ss)
    /\ \A i \in 1..Len(ss) : f[i] = IF i = 1 THEN ss[i] ELSE f[i - 1] \o ss[i]

\* There is at most one such function.
LEMMA SumsAgree ==
    ASSUME NEW S, NEW ss \in Seq(Seq(S)), NEW tt \in Seq(Seq(S)), NEW f, NEW g, Sums(f, ss), Sums(g, tt),
           Len(ss) <= Len(tt), \A i \in 1..Len(ss) : tt[i] = ss[i]
    PROVE  \A i \in 1..Len(ss) : f[i] = g[i]
  <1> DEFINE T == {i \in 1..Len(ss) : f[i] # g[i]}
  <1>1. SUFFICES ASSUME T # {}  PROVE FALSE
    OBVIOUS
  <1>2. Len(ss) \in Nat /\ Len(tt) \in Nat /\ T \subseteq Nat
    OBVIOUS
  <1>3. PICK i \in T : \A j \in T : i <= j
    <2> HIDE DEF T
    <2> QED  BY <1>1, <1>2, LeastOf
  <1>4. i \in 1..Len(ss) /\ i \in 1..Len(tt) /\ f[i] # g[i]
    BY <1>2, <1>3
  <1>5. i # 1
    BY <1>4 DEF Sums
  <1>6. i - 1 \in 1..Len(ss) /\ i - 1 \notin T
    BY <1>2, <1>3, <1>4, <1>5
  <1>7. f[i - 1] = g[i - 1]
    BY <1>6
  <1>8. f[i] = f[i - 1] \o ss[i] /\ g[i] = g[i - 1] \o tt[i] /\ tt[i] = ss[i]
    BY <1>4, <1>5 DEF Sums
  <1>9. g[i] = f[i - 1] \o ss[i]
    BY <1>7, <1>8
  <1> QED  BY <1>4, <1>8, <1>9

\* There is one, and FlattenSeq returns its last value.
LEMMA SumsExtend ==
    ASSUME NEW S, NEW ss \in Seq(Seq(S)), NEW x \in Seq(S), NEW f, Sums(f, ss), ss # <<>>
    PROVE  \E g : Sums(g, Append(ss, x)) /\ g[Len(ss) + 1] = f[Len(ss)] \o x
  <1> DEFINE n == Len(ss)
             g == [i \in 1..(n + 1) |-> IF i = n + 1 THEN f[n] \o x ELSE f[i]]
             tt == Append(ss, x)
  <1>1. n \in Nat /\ n # 0 /\ Len(tt) = n + 1 /\ tt[n + 1] = x /\ \A i \in 1..n : tt[i] = ss[i]
    OBVIOUS
  <1> HIDE DEF tt
  <1>2. DOMAIN g = 1..Len(tt)
    BY <1>1
  <1>3. ASSUME NEW i \in 1..(n + 1)  PROVE g[i] = IF i = 1 THEN tt[i] ELSE g[i - 1] \o tt[i]
    <2>1. CASE i = n + 1
      <3>1. i # 1 /\ i - 1 = n /\ n \in 1..(n + 1) /\ n # n + 1
        BY <1>1, <2>1
      <3> QED  BY <3>1, <2>1, <1>1
    <2>2. CASE i # n + 1
      <3>1. i \in 1..n /\ g[i] = f[i] /\ (i # 1 => i - 1 \in 1..(n + 1) /\ i - 1 # n + 1)
        BY <1>1, <2>2
      <3>2. f[i] = IF i = 1 THEN ss[i] ELSE f[i - 1] \o ss[i]
        BY <3>1 DEF Sums
      <3>3. i # 1 => g[i - 1] = f[i - 1]
        BY <3>1
      <3> QED  BY <3>1, <3>2, <3>3, <1>1
    <2> QED  BY <2>1, <2>2
  <1>4. Sums(g, tt)
    BY <1>1, <1>2, <1>3 DEF Sums
  <1>5. g[n + 1] = f[n] \o x
    BY <1>1
  <1> HIDE DEF g
  <1> QED  BY <1>4, <1>5 DEF tt

LEMMA SumsAre ==
    ASSUME NEW S, NEW ss \in Seq(Seq(S)), ss # <<>>
    PROVE  \E f : Sums(f, ss)
  <1> DEFINE Reaches(n) == \E f : Sums(f, SubSeq(ss, 1, n))
             T == {n \in 1..Len(ss) : ~Reaches(n)}
  <1>0. Len(ss) \in Nat /\ Len(ss) # 0 /\ SubSeq(ss, 1, Len(ss)) = ss
    OBVIOUS
  <1>b. \A n \in 1..Len(ss) : /\ ss[n] \in Seq(S) /\ SubSeq(ss, 1, n - 1) \in Seq(Seq(S)) /\ Len(SubSeq(ss, 1, n - 1)) = n - 1
                             /\ SubSeq(ss, 1, n) = Append(SubSeq(ss, 1, n - 1), ss[n])
    <2> DEFINE Q == Seq(S)
    <2>1. ss \in Seq(Q)
      OBVIOUS
    <2> HIDE DEF Q
    <2>2. \A n \in 1..Len(ss) : /\ ss[n] \in Q /\ SubSeq(ss, 1, n - 1) \in Seq(Q) /\ Len(SubSeq(ss, 1, n - 1)) = n - 1
                               /\ SubSeq(ss, 1, n) = Append(SubSeq(ss, 1, n - 1), ss[n])
      BY <2>1, Beginning
    <2> QED  BY <2>2 DEF Q
  <1>1. T = {}
    <2>1. SUFFICES ASSUME T # {}  PROVE FALSE
      OBVIOUS
    <2>2. T \subseteq Nat
      OBVIOUS
    <2>3. PICK n \in T : \A m \in T : n <= m
      <3> HIDE DEF T
      <3> QED  BY <2>1, <2>2, LeastOf
    <2>4. n \in 1..Len(ss) /\ ~Reaches(n)
      BY <2>3
    <2>5. CASE n = 1
      <3>1. SubSeq(ss, 1, 1) = <<ss[1]>>
        <4>1. SubSeq(ss, 1, 1) = Append(SubSeq(ss, 1, 1 - 1), ss[1])
          BY <1>b, <2>4, <2>5
        <4>2. SubSeq(ss, 1, 1 - 1) = <<>>
          OBVIOUS
        <4>3. Append(<<>>, ss[1]) = <<ss[1]>>
          OBVIOUS
        <4> QED  BY <4>1, <4>2, <4>3
      <3>2. PICK f : f = [i \in 1..1 |-> ss[1]]
        OBVIOUS
      <3>3. Len(<<ss[1]>>) = 1 /\ <<ss[1]>>[1] = ss[1] /\ DOMAIN f = 1..1 /\ f[1] = ss[1]
        BY <3>2
      <3>4. Sums(f, <<ss[1]>>)
        <4>1. \A i \in 1..1 : i = 1
          OBVIOUS
        <4> QED  BY <3>3, <4>1 DEF Sums
      <3>5. Reaches(1)
        BY <3>1, <3>4
      <3> QED  BY <3>5, <2>4, <2>5
    <2>6. CASE n # 1
      <3>1. n - 1 \in 1..Len(ss) /\ n - 1 \notin T
        <4>1. n - 1 \in 1..Len(ss) /\ ~(n <= n - 1)
          BY <2>4, <2>6, <1>0
        <4> HIDE DEF T
        <4> QED  BY <4>1, <2>3
      <3>2. PICK f : Sums(f, SubSeq(ss, 1, n - 1))
        BY <3>1
      <3>3. PICK tt \in Seq(Seq(S)) : tt = SubSeq(ss, 1, n - 1)
        BY <2>4, <1>b
      <3>4. tt # <<>> /\ ss[n] \in Seq(S) /\ SubSeq(ss, 1, n) = Append(tt, ss[n])
        <4>1. ss[n] \in Seq(S) /\ SubSeq(ss, 1, n) = Append(tt, ss[n]) /\ Len(tt) = n - 1
          BY <2>4, <3>3, <1>b
        <4>2. n - 1 # 0
          BY <2>4, <2>6
        <4>3. Len(<<>>) = 0
          OBVIOUS
        <4> QED  BY <4>1, <4>2, <4>3
      <3>5. \E g : Sums(g, Append(tt, ss[n]))
        BY <3>2, <3>3, <3>4, SumsExtend
      <3> QED  BY <3>4, <3>5, <2>4
    <2> QED  BY <2>5, <2>6
  <1>2. Reaches(Len(ss))
    <2>1. Len(ss) \in 1..Len(ss)
      BY <1>0
    <2> QED  BY <1>1, <2>1
  <1> QED  BY <1>0, <1>2

LEMMA FlattenIs ==
    ASSUME NEW S, NEW ss \in Seq(Seq(S)), ss # <<>>, NEW f, Sums(f, ss)
    PROVE  FlattenSeq(ss) = f[Len(ss)]
  <1> DEFINE E(h) == [i \in 1..Len(ss) |-> IF i = 1 THEN ss[i] ELSE h[i - 1] \o ss[i]]
             flat == CHOOSE h : h = E(h)
  <1>1. Len(ss) \in Nat /\ Len(ss) # 0
    OBVIOUS
  <1>2. PICK h : h = [i \in 1..Len(ss) |-> f[i]]
    OBVIOUS
  <1>3. Sums(h, ss)
    <2>1. \A i \in 1..Len(ss) : i # 1 => i - 1 \in 1..Len(ss)
      BY <1>1
    <2> QED  BY <1>2, <2>1 DEF Sums
  <1>4. h = E(h)
    BY <1>2, <1>3 DEF Sums
  <1>5. flat = E(flat)
    BY <1>4
  <1>6. FlattenSeq(ss) = flat[Len(ss)]
    BY <1>1 DEF FlattenSeq
  <1> HIDE DEF flat
  <1>7. Sums(flat, ss)
    BY <1>5 DEF Sums
  <1>8. f[Len(ss)] = flat[Len(ss)]
    BY <1>1, <1>7, SumsAgree
  <1> QED  BY <1>6, <1>8

LEMMA FlattenAppend ==
    ASSUME NEW S, NEW ss \in Seq(Seq(S)), NEW x \in Seq(S)
    PROVE  FlattenSeq(Append(ss, x)) = FlattenSeq(ss) \o x
  <1>1. PICK tt \in Seq(Seq(S)) : /\ tt = Append(ss, x) /\ tt # <<>> /\ Len(tt) = Len(ss) + 1 /\ Len(ss) \in Nat
                                 /\ tt[Len(tt)] = x
    <2> DEFINE Q == Seq(S)
    <2>1. ss \in Seq(Q) /\ x \in Q
      OBVIOUS
    <2> HIDE DEF Q
    <2>2. PICK tt \in Seq(Q) : tt = Append(ss, x)
      BY <2>1, Longer
    <2>3. tt # <<>> /\ Len(tt) = Len(ss) + 1 /\ Len(ss) \in Nat /\ tt[Len(ss) + 1] = x
      BY <2>1, <2>2, Longer
    <2> QED  BY <2>2, <2>3 DEF Q
  <1>2. PICK g : Sums(g, tt)
    BY <1>1, SumsAre
  <1>3. FlattenSeq(tt) = g[Len(tt)]
    BY <1>1, <1>2, FlattenIs
  <1>4. CASE ss = <<>>
    <2>1. FlattenSeq(ss) = <<>>
      BY <1>4 DEF FlattenSeq
    <2>2. Len(tt) = 1
      <3>1. Len(ss) = 0
        BY <1>4
      <3> QED  BY <1>1, <3>1
    <2>3. g[1] = x
      <3>1. tt[1] = x /\ 1 \in 1..Len(tt)
        BY <1>1, <2>2
      <3>2. \A i \in 1..Len(tt) : i = 1 => g[i] = tt[i]
        BY <1>2 DEF Sums
      <3> QED  BY <3>1, <3>2
    <2>4. <<>> \o x = x
      OBVIOUS
    <2> QED  BY <1>1, <1>3, <2>1, <2>2, <2>3, <2>4
  <1>5. CASE ss # <<>>
    <2>1. PICK f : Sums(f, ss)
      BY <1>5, SumsAre
    <2>2. PICK h : Sums(h, tt) /\ h[Len(ss) + 1] = f[Len(ss)] \o x
      <3>1. \E h : Sums(h, Append(ss, x)) /\ h[Len(ss) + 1] = f[Len(ss)] \o x
        BY <1>5, <2>1, SumsExtend
      <3> QED  BY <1>1, <3>1
    <2>3. FlattenSeq(ss) = f[Len(ss)]
      BY <1>5, <2>1, FlattenIs
    <2>4. FlattenSeq(tt) = h[Len(tt)]
      BY <1>1, <2>2, FlattenIs
    <2> QED  BY <1>1, <2>2, <2>3, <2>4
  <1> QED  BY <1>4, <1>5

\* A sequence of sequences flattened is a sequence of what they hold.
LEMMA FlattenTyped ==
    ASSUME NEW S, NEW ss \in Seq(Seq(S))
    PROVE  FlattenSeq(ss) \in Seq(S)
  <1> DEFINE Fits(n) == FlattenSeq(SubSeq(ss, 1, n)) \in Seq(S)
             T == {n \in 0..Len(ss) : ~Fits(n)}
  <1>0. /\ Len(ss) \in Nat /\ SubSeq(ss, 1, Len(ss)) = ss /\ SubSeq(ss, 1, 0) = <<>>
        /\ \A n \in 1..Len(ss) : /\ ss[n] \in Seq(S) /\ SubSeq(ss, 1, n - 1) \in Seq(Seq(S))
                                /\ SubSeq(ss, 1, n) = Append(SubSeq(ss, 1, n - 1), ss[n])
    <2> DEFINE Q == Seq(S)
    <2>1. ss \in Seq(Q)
      OBVIOUS
    <2> HIDE DEF Q
    <2>2. /\ Len(ss) \in Nat /\ SubSeq(ss, 1, Len(ss)) = ss /\ SubSeq(ss, 1, 0) = <<>>
          /\ \A n \in 1..Len(ss) : /\ ss[n] \in Q /\ SubSeq(ss, 1, n - 1) \in Seq(Q)
                                  /\ SubSeq(ss, 1, n) = Append(SubSeq(ss, 1, n - 1), ss[n])
      BY <2>1, Beginning
    <2> QED  BY <2>2 DEF Q
  <1>1. T = {}
    <2>1. SUFFICES ASSUME T # {}  PROVE FALSE
      OBVIOUS
    <2>2. T \subseteq Nat
      BY <1>0
    <2>3. PICK n \in T : \A m \in T : n <= m
      <3> HIDE DEF T
      <3> QED  BY <2>1, <2>2, LeastOf
    <2>4. n \in 0..Len(ss) /\ ~Fits(n)
      BY <2>3
    <2>5. CASE n = 0
      <3>1. SubSeq(ss, 1, 0) = <<>>
        OBVIOUS
      <3>2. FlattenSeq(<<>>) = <<>>
        BY DEF FlattenSeq
      <3>3. <<>> \in Seq(S)
        OBVIOUS
      <3> QED  BY <3>1, <3>2, <3>3, <2>4, <2>5
    <2>6. CASE n # 0
      <3>1. n - 1 \in 0..Len(ss) /\ n - 1 \notin T /\ n \in 1..Len(ss)
        <4>1. n - 1 \in 0..Len(ss) /\ ~(n <= n - 1) /\ n \in 1..Len(ss)
          BY <2>4, <2>6, <1>0
        <4> HIDE DEF T
        <4> QED  BY <4>1, <2>3
      <3>2. PICK tt \in Seq(Seq(S)) : tt = SubSeq(ss, 1, n - 1)
        BY <3>1, <1>0
      <3>3. ss[n] \in Seq(S) /\ SubSeq(ss, 1, n) = Append(tt, ss[n])
        BY <3>1, <3>2, <1>0
      <3>4. FlattenSeq(tt) \in Seq(S)
        BY <3>1, <3>2
      <3>5. FlattenSeq(Append(tt, ss[n])) = FlattenSeq(tt) \o ss[n]
        BY <3>3, FlattenAppend
      <3>6. FlattenSeq(tt) \o ss[n] \in Seq(S)
        BY <3>3, <3>4, ConcatProperties
      <3> QED  BY <3>3, <3>5, <3>6, <2>4
    <2> QED  BY <2>5, <2>6
  <1>2. Fits(Len(ss))
    BY <1>0, <1>1
  <1> QED  BY <1>0, <1>2

-----------------------------------------------------------------------------
(* The draft and its keyframes, one frame at a time. *)

Part(f, kinds) == IF f.kind \in kinds THEN f.text ELSE <<>>

LEMMA PartIs == ASSUME NEW f \in Frames, NEW kinds  PROVE Part(f, kinds) \in Seq(Int)
  <1>1. f.text \in Seq(Int)
    BY DEF Frames
  <1>2. <<>> \in Seq(Int)
    OBVIOUS
  <1> QED  BY <1>1, <1>2 DEF Part

LEMMA TextTyped == ASSUME NEW s \in Seq(Frames), NEW kinds  PROVE TextOf(s, kinds) \in Seq(Int)
  <1> DEFINE P == [i \in 1..Len(s) |-> Part(s[i], kinds)]
             Q == Seq(Int)
  <1>1. TextOf(s, kinds) = FlattenSeq(P)
    BY DEF TextOf, Part
  <1> HIDE DEF Q
  <1>2. \A i \in 1..Len(s) : Part(s[i], kinds) \in Q
    BY PartIs DEF Q
  <1>3. P \in Seq(Q)
    BY <1>2
  <1> HIDE DEF P
  <1> QED  BY <1>1, <1>3, FlattenTyped DEF Q

LEMMA SameSeq ==
    ASSUME NEW Q, NEW p \in Seq(Q), NEW q \in Seq(Q), Len(p) = Len(q), \A i \in 1..Len(p) : p[i] = q[i]
    PROVE  p = q
  OBVIOUS

LEMMA TextAppend ==
    ASSUME NEW s \in Seq(Frames), NEW f \in Frames, NEW kinds
    PROVE  TextOf(Append(s, f), kinds) = TextOf(s, kinds) \o Part(f, kinds) /\ TextOf(s, kinds) \in Seq(Int)
  <1> DEFINE P(t) == [i \in 1..Len(t) |-> Part(t[i], kinds)]
  <1>1. Append(s, f) \in Seq(Frames) /\ Len(Append(s, f)) = Len(s) + 1 /\ Len(s) \in Nat /\ Append(s, f)[Len(s) + 1] = f
        /\ \A i \in 1..Len(s) : Append(s, f)[i] = s[i]
    BY Longer
  <1>2. Part(f, kinds) \in Seq(Int) /\ \A i \in 1..Len(s) : Part(s[i], kinds) \in Seq(Int)
    BY PartIs
  <1>3. TextOf(s, kinds) = FlattenSeq(P(s)) /\ TextOf(Append(s, f), kinds) = FlattenSeq(P(Append(s, f)))
    BY DEF TextOf, Part
  <1>4. P(s) \in Seq(Seq(Int)) /\ P(Append(s, f)) = Append(P(s), Part(f, kinds))
    <2> DEFINE Q == Seq(Int)
    <2> HIDE DEF Q
    <2>1. Part(f, kinds) \in Q /\ \A i \in 1..Len(s) : Part(s[i], kinds) \in Q
      BY <1>2 DEF Q
    <2>2. P(s) \in Seq(Q) /\ Len(P(s)) = Len(s) /\ \A i \in 1..Len(s) : P(s)[i] = Part(s[i], kinds)
      BY <2>1, <1>1
    <2>3. P(Append(s, f)) \in Seq(Q) /\ Len(P(Append(s, f))) = Len(s) + 1 /\ P(Append(s, f))[Len(s) + 1] = Part(f, kinds)
          /\ \A i \in 1..Len(s) : P(Append(s, f))[i] = Part(s[i], kinds)
      <3>1. PICK u \in Seq(Frames) : u = Append(s, f)
        BY <1>1
      <3>2. Len(u) = Len(s) + 1 /\ \A i \in 1..(Len(s) + 1) : u[i] = IF i = Len(s) + 1 THEN f ELSE s[i]
        BY <1>1, <3>1
      <3>3. \A i \in 1..(Len(s) + 1) : Part(u[i], kinds) \in Q
        BY <2>1, <3>2, <1>1
      <3>4. P(u) \in Seq(Q) /\ Len(P(u)) = Len(s) + 1 /\ \A i \in 1..(Len(s) + 1) : P(u)[i] = Part(u[i], kinds)
        BY <3>2, <3>3, <1>1
      <3> HIDE DEF P
      <3>5. \A i \in 1..Len(s) : i \in 1..(Len(s) + 1) /\ i # Len(s) + 1
        BY <1>1
      <3>6. Len(s) + 1 \in 1..(Len(s) + 1)
        BY <1>1
      <3> QED  BY <3>1, <3>2, <3>4, <3>5, <3>6
    <2> HIDE DEF P
    <2>4. /\ Append(P(s), Part(f, kinds)) \in Seq(Q) /\ Len(Append(P(s), Part(f, kinds))) = Len(s) + 1
          /\ Append(P(s), Part(f, kinds))[Len(s) + 1] = Part(f, kinds)
          /\ \A i \in 1..Len(s) : Append(P(s), Part(f, kinds))[i] = Part(s[i], kinds)
      BY <2>1, <2>2, Longer
    <2>5. \A i \in 1..(Len(s) + 1) : i = Len(s) + 1 \/ i \in 1..Len(s)
      BY <1>1
    <2>6. P(Append(s, f)) = Append(P(s), Part(f, kinds))
      BY <2>3, <2>4, <2>5, SameSeq
    <2> QED  BY <2>2, <2>6 DEF Q
  <1> HIDE DEF P
  <1>5. FlattenSeq(Append(P(s), Part(f, kinds))) = FlattenSeq(P(s)) \o Part(f, kinds) /\ FlattenSeq(P(s)) \in Seq(Int)
    BY <1>2, <1>4, FlattenAppend, FlattenTyped
  <1> QED  BY <1>3, <1>4, <1>5

LEMMA TextOfNothing == ASSUME NEW kinds  PROVE TextOf(<<>>, kinds) = <<>>
  <1>1. Len(<<>>) = 0
    OBVIOUS
  <1>2. [i \in 1..0 |-> IF <<>>[i].kind \in kinds THEN <<>>[i].text ELSE <<>>] = <<>>
    OBVIOUS
  <1>3. FlattenSeq(<<>>) = <<>>
    BY DEF FlattenSeq
  <1> QED  BY <1>1, <1>2, <1>3 DEF TextOf

\* The frames of an attempt, and the draft at place i.
Starts(w, i) == {j \in 1..i : w[j].kind = "ModelTurnStarted"}
From(w, i) == IF Starts(w, i) = {} THEN 1 ELSE Max(Starts(w, i))
DraftIn(w, i) == TextOf(SubSeq(w, From(w, i), i), {"ModelTurnDelta"})

LEMMA GreatestOf ==
    ASSUME NEW n \in Nat, NEW T, T \subseteq 1..n, T # {}
    PROVE  Max(T) \in T /\ \A y \in T : y <= Max(T)
  <1> DEFINE B == {m \in 0..n : \A y \in T : y <= m}
  <1>1. n \in B /\ B \subseteq Nat
    OBVIOUS
  <1>2. PICK m \in B : \A x \in B : m <= x
    <2> HIDE DEF B
    <2> QED  BY <1>1, LeastOf
  <1>3. m \in T
    <2>1. SUFFICES ASSUME m \notin T  PROVE FALSE
      OBVIOUS
    <2>2. m \in Nat /\ m # 0 /\ \A y \in T : y \in Nat /\ y <= m /\ y # m
      <3>1. m \in 0..n /\ \A y \in T : y <= m
        BY <1>2
      <3>2. PICK y \in T : y \in 1..n
        OBVIOUS
      <3>3. \A z \in T : z \in Nat
        OBVIOUS
      <3> QED  BY <2>1, <3>1, <3>2, <3>3
    <2>3. m - 1 \in B
      BY <1>2, <2>2
    <2>4. m <= m - 1
      <3> HIDE DEF B
      <3> QED  BY <1>2, <2>3
    <2> QED  BY <2>2, <2>4
  <1>4. \E x \in T : \A y \in T : y <= x
    BY <1>2, <1>3
  <1> QED  BY <1>4 DEF Max

LEMMA FromIs ==
    ASSUME NEW w, NEW i \in Nat
    PROVE  From(w, i) \in Nat /\ 1 <= From(w, i) /\ (From(w, i) <= i \/ From(w, i) = 1)
  <1>1. Starts(w, i) \subseteq 1..i
    BY DEF Starts
  <1> QED  BY <1>1, GreatestOf DEF From

LEMMA SubAppend ==
    ASSUME NEW S, NEW w \in Seq(S), NEW f \in S, NEW a \in 1..(Len(w) + 1), NEW i \in 1..Len(w)
    PROVE  /\ SubSeq(Append(w, f), a, Len(w) + 1) = Append(SubSeq(w, a, Len(w)), f)
           /\ SubSeq(w, a, Len(w)) \in Seq(S)
           /\ SubSeq(Append(w, f), a, i) = SubSeq(w, a, i)
  OBVIOUS

LEMMA DraftAppend ==
    ASSUME NEW w \in Seq(Frames), NEW f \in Frames
    PROVE  DraftIn(Append(w, f), Len(w) + 1) =
             IF f.kind = "ModelTurnStarted" THEN <<>> ELSE DraftIn(w, Len(w)) \o Part(f, {"ModelTurnDelta"})
  <1> DEFINE v == Append(w, f)
             n == Len(w)
  <1>1. v \in Seq(Frames) /\ n \in Nat /\ v[n + 1] = f /\ \A i \in 1..n : v[i] = w[i]
    BY Longer
  <1> HIDE DEF v
  <1>2. CASE f.kind = "ModelTurnStarted"
    <2>1. n + 1 \in Starts(v, n + 1) /\ Starts(v, n + 1) \subseteq 1..(n + 1)
      BY <1>1, <1>2 DEF Starts
    <2>2. From(v, n + 1) = n + 1
      <3>1. Max(Starts(v, n + 1)) \in 1..(n + 1) /\ n + 1 <= Max(Starts(v, n + 1))
        BY <1>1, <2>1, GreatestOf
      <3>2. Max(Starts(v, n + 1)) = n + 1
        BY <1>1, <3>1
      <3> QED  BY <2>1, <3>2 DEF From
    <2>3. SubSeq(v, n + 1, n + 1) = <<f>> /\ <<f>> = Append(<<>>, f) /\ <<>> \in Seq(Frames)
      <3>1. Len(v) = n + 1 /\ n + 1 \in 1..(n + 1)
        BY <1>1, Longer DEF v
      <3>2. SubSeq(v, n + 1, n + 1) = Append(SubSeq(v, n + 1, n), v[n + 1])
        BY <1>1, <3>1
      <3>3. SubSeq(v, n + 1, n) = <<>>
        BY <1>1, <3>1
      <3>4. <<f>> = Append(<<>>, f) /\ <<>> \in Seq(Frames)
        OBVIOUS
      <3> QED  BY <1>1, <3>2, <3>3, <3>4
    <2>4. TextOf(Append(<<>>, f), {"ModelTurnDelta"}) = <<>> \o Part(f, {"ModelTurnDelta"})
      BY <2>3, TextAppend, TextOfNothing
    <2>5. Part(f, {"ModelTurnDelta"}) = <<>>
      BY <1>2 DEF Part
    <2>6. <<>> \o <<>> = <<>>
      OBVIOUS
    <2> QED  BY <1>2, <2>2, <2>3, <2>4, <2>5, <2>6 DEF DraftIn, v
  <1>3. CASE f.kind # "ModelTurnStarted"
    <2>1. Starts(v, n + 1) = Starts(w, n)
      <3>1. \A j \in 1..(n + 1) : j = n + 1 \/ j \in 1..n
        BY <1>1
      <3>2. \A j \in 1..n : j \in 1..(n + 1)
        BY <1>1
      <3> QED  BY <1>1, <1>3, <3>1, <3>2 DEF Starts
    <2>2. From(v, n + 1) = From(w, n) /\ From(w, n) \in 1..(n + 1)
      BY <2>1, <1>1, FromIs DEF From
    <2>3. PICK a \in 1..(n + 1) : a = From(w, n)
      BY <2>2
    <2>4. SubSeq(v, a, n + 1) = Append(SubSeq(w, a, n), f) /\ SubSeq(w, a, n) \in Seq(Frames)
      <3>1. CASE n = 0
        <4>1. w = <<>> /\ a = 1
          BY <3>1
        <4> QED  BY <4>1, <3>1 DEF v
      <3>2. CASE n # 0
        <4>1. 1 \in 1..n
          BY <1>1, <3>2
        <4> QED  BY <4>1, SubAppend DEF v
      <3> QED  BY <3>1, <3>2
    <2>5. TextOf(Append(SubSeq(w, a, n), f), {"ModelTurnDelta"}) = TextOf(SubSeq(w, a, n), {"ModelTurnDelta"}) \o Part(f, {"ModelTurnDelta"})
      BY <2>4, TextAppend
    <2> QED  BY <1>3, <2>2, <2>3, <2>4, <2>5 DEF DraftIn, v
  <1> QED  BY <1>2, <1>3 DEF v

LEMMA DraftStays ==
    ASSUME NEW w \in Seq(Frames), NEW f \in Frames, NEW i \in 1..Len(w)
    PROVE  DraftIn(Append(w, f), i) = DraftIn(w, i)
  <1> DEFINE v == Append(w, f)
  <1>1. \A j \in 1..i : v[j] = w[j]
    BY Longer
  <1> HIDE DEF v
  <1>2. Starts(v, i) = Starts(w, i)
    BY <1>1 DEF Starts
  <1>3. PICK a \in 1..(Len(w) + 1) : From(v, i) = a /\ From(w, i) = a
    BY <1>2, FromIs DEF From
  <1>4. SubSeq(v, a, i) = SubSeq(w, a, i)
    BY SubAppend DEF v
  <1> QED  BY <1>3, <1>4 DEF DraftIn, v

\* A run has begun an attempt by place i; what a keyframe at i, and a terminal frame without a final text, hold.
BegunAt(w, i, r) == \E j \in 1..i : w[j].run = r /\ w[j].kind = "ModelTurnStarted"
Held(w, i, r) == IF BegunAt(w, i, r) THEN DraftIn(w, i) ELSE <<>>
Keyed(w, i) ==
    w[i].kind = "Snapshot" \/ (w[i].kind \in Terminal /\ w[i].text \notin {Final, ErrorText})
      => w[i].text = Held(w, i, w[i].run)

LEMMA KeyedStays ==
    ASSUME NEW w \in Seq(Frames), NEW f \in Frames, NEW i \in 1..Len(w), Keyed(w, i)
    PROVE  Keyed(Append(w, f), i)
  <1>1. (\A j \in 1..i : Append(w, f)[j] = w[j]) /\ i \in 1..i
    BY Longer
  <1>2. DraftIn(Append(w, f), i) = DraftIn(w, i)
    BY DraftStays
  <1>3. \A r : BegunAt(Append(w, f), i, r) <=> BegunAt(w, i, r)
    BY <1>1 DEF BegunAt
  <1> QED  BY <1>1, <1>2, <1>3 DEF Keyed, Held

LEMMA BegunNow ==
    ASSUME NEW w \in Seq(Frames), NEW f \in Frames, NEW r
    PROVE  BegunAt(Append(w, f), Len(w) + 1, r) <=> BegunAt(w, Len(w), r) \/ (f.run = r /\ f.kind = "ModelTurnStarted")
  <1>1. Len(w) \in Nat /\ Append(w, f)[Len(w) + 1] = f /\ \A j \in 1..Len(w) : Append(w, f)[j] = w[j]
    BY Longer
  <1>2. \A j \in 1..(Len(w) + 1) : j = Len(w) + 1 \/ j \in 1..Len(w)
    BY <1>1
  <1>3. (\A j \in 1..Len(w) : j \in 1..(Len(w) + 1)) /\ Len(w) + 1 \in 1..(Len(w) + 1)
    BY <1>1
  <1> QED  BY <1>1, <1>2, <1>3 DEF BegunAt

\* The deltas produced so far: a of the answer, b of the reasoning.
Rising(s) == \A i \in 1..(Len(s) - 1) : s[i] < s[i + 1]
Exact(a, b, n) ==
    /\ ToSet(a) \cup ToSet(b) = 1..n /\ Len(a) + Len(b) = n
    /\ Rising(a) /\ Rising(b)

\* The frames w tell what run r has produced, with ap and rp pending and the draft sf, and n deltas in all.
Draftful(w, r, ap, rp, sf, n) ==
    /\ w \in Seq(Frames) /\ ap \in Seq(Int) /\ rp \in Seq(Int) /\ sf \in Seq(Int)
    /\ Exact(TextOf(w, {"ModelTurnDelta"}) \o ap, TextOf(w, {"ModelReasoningDelta"}) \o rp, n)
    /\ sf = Held(w, Len(w), r) \o ap /\ (ap # <<>> => BegunAt(w, Len(w), r))
    /\ \A i \in 1..Len(w) : Keyed(w, i)

LEMMA HeldIs == ASSUME NEW w \in Seq(Frames), NEW r  PROVE Held(w, Len(w), r) \in Seq(Int)
  <1>1. PICK a : a = From(w, Len(w)) /\ a \in Nat /\ 1 <= a
    BY FromIs
  <1>2. SubSeq(w, a, Len(w)) \in Seq(Frames)
    BY <1>1
  <1>3. PICK s \in Seq(Frames) : s = SubSeq(w, a, Len(w))
    BY <1>2
  <1>4. TextOf(s, {"ModelTurnDelta"}) \in Seq(Int)
    BY TextTyped
  <1>5. <<>> \in Seq(Int)
    OBVIOUS
  <1> QED  BY <1>1, <1>3, <1>4, <1>5 DEF Held, DraftIn

LEMMA Empties == \A s \in Seq(Int) : s \o <<>> = s /\ <<>> \o s = s
  OBVIOUS

LEMMA Joins ==
    ASSUME NEW a \in Seq(Int), NEW b \in Seq(Int), NEW c \in Seq(Int)
    PROVE  (a \o b) \o c = a \o (b \o c) /\ a \o b \in Seq(Int)
  BY ConcatAssociative, ConcatProperties

LEMMA BothEmpty == \A a, b \in Seq(Int) : a \o b = <<>> => a = <<>> /\ b = <<>>
  OBVIOUS

\* f carries what ap has and rest has not.
Carries(f, kind, rest, ap) == Part(f, {kind}) \o rest = ap

\* The text of a kind with what is pending is the same after f as before.
SameText(w, f, kind, rest, ap) == TextOf(Append(w, f), {kind}) \o rest = TextOf(w, {kind}) \o ap
SameDraft(w, f, r, rest, ap) == Held(Append(w, f), Len(w) + 1, r) \o rest = Held(w, Len(w), r) \o ap

\* What is held after one more frame of run r.
LEMMA HeldNow ==
    ASSUME NEW w \in Seq(Frames), NEW f \in Frames, f.kind # "ModelTurnStarted", NEW r, NEW ap \in Seq(Int),
           ap # <<>> => BegunAt(w, Len(w), r), NEW rest \in Seq(Int), Carries(f, "ModelTurnDelta", rest, ap)
    PROVE  /\ SameDraft(w, f, r, rest, ap)
           /\ rest # <<>> => BegunAt(Append(w, f), Len(w) + 1, r)
  <1>1. PICK p \in Seq(Int), h \in Seq(Int) : p = Part(f, {"ModelTurnDelta"}) /\ h = Held(w, Len(w), r)
    BY PartIs, HeldIs
  <1>2. BegunAt(Append(w, f), Len(w) + 1, r) <=> BegunAt(w, Len(w), r)
    BY BegunNow
  <1>3. DraftIn(Append(w, f), Len(w) + 1) = DraftIn(w, Len(w)) \o p
    BY <1>1, DraftAppend
  <1>4. p \o rest = ap
    BY <1>1 DEF Carries
  <1>5. CASE BegunAt(w, Len(w), r)
    <2>1. h = DraftIn(w, Len(w)) /\ Held(Append(w, f), Len(w) + 1, r) = h \o p
      BY <1>1, <1>2, <1>3, <1>5 DEF Held
    <2>2. (h \o p) \o rest = h \o (p \o rest)
      BY Joins
    <2> QED  BY <1>1, <1>2, <1>4, <1>5, <2>1, <2>2 DEF SameDraft
  <1>6. CASE ~BegunAt(w, Len(w), r)
    <2>1. ap = <<>> /\ rest = <<>>
      BY <1>4, <1>6, BothEmpty
    <2>2. Held(w, Len(w), r) = <<>> /\ Held(Append(w, f), Len(w) + 1, r) = <<>>
      BY <1>2, <1>6 DEF Held
    <2> QED  BY <2>1, <2>2 DEF SameDraft
  <1> QED  BY <1>5, <1>6

\* The texts after one more frame, which takes what it carries from what was pending.
LEMMA ExactNow ==
    ASSUME NEW w \in Seq(Frames), NEW f \in Frames, NEW ap \in Seq(Int), NEW rest \in Seq(Int), NEW kind,
           Carries(f, kind, rest, ap)
    PROVE  SameText(w, f, kind, rest, ap)
  <1>1. PICK p \in Seq(Int), s \in Seq(Int) : p = Part(f, {kind}) /\ s = TextOf(w, {kind})
    BY PartIs, TextTyped
  <1>2. TextOf(Append(w, f), {kind}) = s \o p
    BY <1>1, TextAppend
  <1>3. (s \o p) \o rest = s \o (p \o rest)
    BY Joins
  <1>4. p \o rest = ap
    BY <1>1 DEF Carries
  <1> QED  BY <1>1, <1>2, <1>3, <1>4 DEF SameText

\* A frame that starts no attempt: it carries pending text, or none, and what it holds is the draft.
LEMMA PutFrame ==
    ASSUME NEW w, NEW r, NEW ap, NEW rp, NEW sf, NEW n, Draftful(w, r, ap, rp, sf, n),
           NEW f \in Frames, f.kind # "ModelTurnStarted", NEW a \in Seq(Int), NEW b \in Seq(Int),
           Carries(f, "ModelTurnDelta", a, ap), Carries(f, "ModelReasoningDelta", b, rp),
           f.kind = "Snapshot" \/ (f.kind \in Terminal /\ f.text \notin {Final, ErrorText}) => f.run = r /\ f.text = sf /\ a = <<>>
    PROVE  Draftful(Append(w, f), r, a, b, sf, n)
  <1> DEFINE v == Append(w, f)
  <1>1. /\ w \in Seq(Frames) /\ ap \in Seq(Int) /\ rp \in Seq(Int) /\ sf \in Seq(Int)
        /\ Exact(TextOf(w, {"ModelTurnDelta"}) \o ap, TextOf(w, {"ModelReasoningDelta"}) \o rp, n)
        /\ sf = Held(w, Len(w), r) \o ap /\ (ap # <<>> => BegunAt(w, Len(w), r))
        /\ \A i \in 1..Len(w) : Keyed(w, i)
    BY DEF Draftful
  <1>a. w \in Seq(Frames) /\ ap \in Seq(Int) /\ rp \in Seq(Int) /\ sf \in Seq(Int) /\ (ap # <<>> => BegunAt(w, Len(w), r))
    BY <1>1
  <1>2. v \in Seq(Frames) /\ Len(v) = Len(w) + 1 /\ Len(w) \in Nat /\ v[Len(w) + 1] = f
    BY <1>1, Longer
  <1>3. SameText(w, f, "ModelTurnDelta", a, ap)
    BY <1>a, ExactNow
  <1>4. SameText(w, f, "ModelReasoningDelta", b, rp)
    BY <1>a, ExactNow
  <1>5. sf = Held(v, Len(v), r) \o a /\ (a # <<>> => BegunAt(v, Len(v), r))
    <2>1. /\ SameDraft(w, f, r, a, ap)
          /\ a # <<>> => BegunAt(v, Len(w) + 1, r)
      BY <1>a, HeldNow
    <2> QED  BY <1>1, <1>2, <2>1 DEF SameDraft, v
  <1> HIDE DEF v
  <1>6. Keyed(v, Len(v))
    <2>1. f.kind = "Snapshot" \/ (f.kind \in Terminal /\ f.text \notin {Final, ErrorText}) => f.text = Held(v, Len(v), f.run)
      <3>1. Held(v, Len(v), r) \in Seq(Int)
        BY <1>2, HeldIs
      <3>2. a = <<>> => sf = Held(v, Len(v), r)
        BY <1>5, <3>1, Empties
      <3> QED  BY <3>2
    <2> QED  BY <1>2, <2>1 DEF Keyed
  <1>7. \A i \in 1..Len(v) : Keyed(v, i)
    <2>1. \A i \in 1..Len(w) : Keyed(v, i)
      BY <1>1, KeyedStays DEF v
    <2>2. \A i \in 1..Len(v) : i = Len(v) \/ i \in 1..Len(w)
      BY <1>2
    <2> QED  BY <1>6, <2>1, <2>2
  <1> QED  BY <1>1, <1>2, <1>3, <1>4, <1>5, <1>7 DEF Draftful, v, SameText

\* A frame that starts an attempt, with nothing pending: the draft is empty.
LEMMA PutStart ==
    ASSUME NEW w, NEW r, NEW sf, NEW n, Draftful(w, r, <<>>, <<>>, sf, n),
           NEW f \in Frames, f.kind = "ModelTurnStarted", f.run = r
    PROVE  Draftful(Append(w, f), r, <<>>, <<>>, <<>>, n)
  <1> DEFINE v == Append(w, f)
  <1>1. /\ w \in Seq(Frames) /\ <<>> \in Seq(Int)
        /\ Exact(TextOf(w, {"ModelTurnDelta"}) \o <<>>, TextOf(w, {"ModelReasoningDelta"}) \o <<>>, n)
        /\ \A i \in 1..Len(w) : Keyed(w, i)
    BY DEF Draftful
  <1>a. w \in Seq(Frames) /\ <<>> \in Seq(Int)
    BY <1>1
  <1>2. v \in Seq(Frames) /\ Len(v) = Len(w) + 1 /\ Len(w) \in Nat /\ v[Len(w) + 1] = f
    BY <1>1, Longer
  <1>3. Carries(f, "ModelTurnDelta", <<>>, <<>>) /\ Carries(f, "ModelReasoningDelta", <<>>, <<>>)
    BY <1>1, Empties DEF Part, Carries
  <1>4. SameText(w, f, "ModelTurnDelta", <<>>, <<>>)
    BY <1>a, <1>3, ExactNow
  <1>5. SameText(w, f, "ModelReasoningDelta", <<>>, <<>>)
    BY <1>a, <1>3, ExactNow
  <1>6. Held(v, Len(v), r) = <<>>
    BY <1>1, <1>2, DraftAppend DEF Held
  <1>7. \A i \in 1..Len(w) : Keyed(v, i)
    BY <1>1, KeyedStays
  <1> HIDE DEF v
  <1>8. Keyed(v, Len(v))
    BY <1>2 DEF Keyed, Terminal
  <1>9. \A i \in 1..Len(v) : i = Len(v) \/ i \in 1..Len(w)
    BY <1>2
  <1> QED  BY <1>1, <1>2, <1>3, <1>4, <1>5, <1>6, <1>7, <1>8, <1>9 DEF Draftful, v, SameText

\* A frame of the run with a text.
LEMMA FrameIs ==
    ASSUME run \in 0..MaxSends, NEW kind \in Kinds, NEW seq \in 0..MaxSends, NEW text \in Seq(Int),
           NEW status \in {"", "ABORTED", "COMPLETED", "FAILED"}
    PROVE  /\ Frame(kind, seq, text, status) \in Frames /\ Frame(kind, seq, text, status).kind = kind
           /\ Frame(kind, seq, text, status).run = run /\ Frame(kind, seq, text, status).text = text
  BY DEF Frame, Frames

\* Frames joined one by one.
Joined(s, t) == s \o t

LEMMA Single ==
    ASSUME NEW w \in Seq(Frames), NEW a \in Frames
    PROVE  /\ Append(w, a) \in Seq(Frames) /\ <<a>> \in Seq(Frames) /\ Append(w, a) = w \o <<a>>
  <1>1. Append(w, a) = w \o <<a>>
    BY AppendIsConcat
  <1>2. Append(w, a) \in Seq(Frames) /\ <<a>> \in Seq(Frames)
    OBVIOUS
  <1> QED  BY <1>1, <1>2

LEMMA JoinsOne ==
    ASSUME NEW w \in Seq(Frames), NEW a \in Frames
    PROVE  /\ Append(w, a) \in Seq(Frames) /\ <<a>> \in Seq(Frames) /\ Joined(w, <<a>>) = Append(w, a)
           /\ Joined(w, <<>>) = w /\ <<>> \in Seq(Frames)
  <1>1. /\ Append(w, a) \in Seq(Frames) /\ <<a>> \in Seq(Frames) /\ Append(w, a) = w \o <<a>>
    BY Single
  <1>2. w \o <<>> = w /\ <<>> \in Seq(Frames)
    OBVIOUS
  <1> QED  BY <1>1, <1>2 DEF Joined

LEMMA JoinsFrames ==
    ASSUME NEW u \in Seq(Frames), NEW v \in Seq(Frames), NEW w \in Seq(Frames)
    PROVE  Joined(Joined(u, v), w) = Joined(u, Joined(v, w)) /\ Joined(u, v) \in Seq(Frames)
  BY ConcatAssociative, ConcatProperties DEF Joined

LEMMA JoinsThree ==
    ASSUME NEW w \in Seq(Frames), NEW X \in Seq(Frames), NEW Y \in Seq(Frames), NEW Z \in Seq(Frames)
    PROVE  Joined(w, Joined(Joined(X, Y), Z)) = Joined(Joined(Joined(w, X), Y), Z)
  <1>1. PICK d \in Seq(Frames) : d = Joined(X, Y)
    BY JoinsFrames
  <1>2. Joined(w, Joined(d, Z)) = Joined(Joined(w, d), Z)
    BY JoinsFrames
  <1>3. Joined(w, Joined(X, Y)) = Joined(Joined(w, X), Y)
    BY JoinsFrames
  <1> QED  BY <1>1, <1>2, <1>3

LEMMA CarriesIt ==
    ASSUME NEW f, NEW text \in Seq(Int), f.text = text, NEW rest \in Seq(Int), NEW kind
    PROVE  /\ f.kind = kind => Carries(f, kind, <<>>, text)
           /\ f.kind # kind => Carries(f, kind, rest, rest)
  <1>1. f.kind = kind => Part(f, {kind}) = text
    BY DEF Part
  <1>2. f.kind # kind => Part(f, {kind}) = <<>>
    BY DEF Part
  <1> QED  BY <1>1, <1>2, Empties DEF Carries

\* The frames of a flush, one by one.
LEMMA FlushPuts ==
    ASSUME run \in 0..MaxSends, NEW s \in RunSessions, NEW w, NEW n,
           Draftful(w, run, s.answerPending, s.reasoningPending, s.answerSoFar, n)
    PROVE  Draftful(w \o FlushFrames(s), run, <<>>, <<>>, s.answerSoFar, n)
  <1>1. PICK ap \in Seq(Int), rp \in Seq(Int), sf \in Seq(Int), seq \in 0..MaxSends :
           ap = s.answerPending /\ rp = s.reasoningPending /\ sf = s.answerSoFar /\ seq = s.seq
    BY DEF RunSessions
  <1>2. PICK a, b, c : /\ a = Frame("ModelTurnDelta", seq, ap, "") /\ b = Frame("ModelReasoningDelta", seq, rp, "")
                       /\ c = Frame("Snapshot", seq, sf, "")
    OBVIOUS
  <1>3. "ModelTurnDelta" \in Kinds /\ "ModelReasoningDelta" \in Kinds /\ "Snapshot" \in Kinds /\ <<>> \in Seq(Int)
    BY DEF Kinds, DeltaKinds
  <1>4. a \in Frames /\ a.kind = "ModelTurnDelta" /\ a.run = run /\ a.text = ap
    <2>1. a = Frame("ModelTurnDelta", seq, ap, "")
      BY <1>2
    <2> QED  BY <1>3, <2>1 DEF Frame, Frames
  <1>5. b \in Frames /\ b.kind = "ModelReasoningDelta" /\ b.run = run /\ b.text = rp
    <2>1. b = Frame("ModelReasoningDelta", seq, rp, "")
      BY <1>2
    <2> QED  BY <1>3, <2>1 DEF Frame, Frames
  <1>6. c \in Frames /\ c.kind = "Snapshot" /\ c.run = run /\ c.text = sf
    <2>1. c = Frame("Snapshot", seq, sf, "")
      BY <1>2
    <2> QED  BY <1>3, <2>1 DEF Frame, Frames
  <1>7. w \in Seq(Frames) /\ Draftful(w, run, ap, rp, sf, n)
    BY <1>1 DEF Draftful
  <1>8. "ModelTurnDelta" \notin Terminal /\ "ModelReasoningDelta" \notin Terminal
    BY DEF Terminal
  <1>a. PICK u \in Seq(Frames) : u = (IF ap # <<>> THEN Append(w, a) ELSE w) /\ Draftful(u, run, <<>>, rp, sf, n)
    <2>1. CASE ap = <<>>
      BY <1>7, <2>1
    <2>2. CASE ap # <<>>
      <3>1. Carries(a, "ModelTurnDelta", <<>>, ap) /\ Carries(a, "ModelReasoningDelta", rp, rp)
        BY <1>4, CarriesIt
      <3>2. Draftful(Append(w, a), run, <<>>, rp, sf, n)
        BY <1>3, <1>4, <1>7, <1>8, <3>1, PutFrame
      <3>3. Append(w, a) \in Seq(Frames)
        BY <1>4, <1>7
      <3> QED  BY <2>2, <3>2, <3>3
    <2> QED  BY <2>1, <2>2
  <1>b. PICK v \in Seq(Frames) : v = (IF rp # <<>> THEN Append(u, b) ELSE u) /\ Draftful(v, run, <<>>, <<>>, sf, n)
    <2>1. CASE rp = <<>>
      BY <1>a, <2>1
    <2>2. CASE rp # <<>>
      <3>1. Carries(b, "ModelTurnDelta", <<>>, <<>>) /\ Carries(b, "ModelReasoningDelta", <<>>, rp)
        BY <1>3, <1>5, CarriesIt
      <3>2. Draftful(Append(u, b), run, <<>>, <<>>, sf, n)
        BY <1>3, <1>5, <1>a, <1>8, <3>1, PutFrame
      <3>3. Append(u, b) \in Seq(Frames)
        BY <1>5, <1>a
      <3> QED  BY <2>2, <3>2, <3>3
    <2> QED  BY <2>1, <2>2
  <1>c. Draftful(Append(v, c), run, <<>>, <<>>, sf, n)
    <2>1. Carries(c, "ModelTurnDelta", <<>>, <<>>) /\ Carries(c, "ModelReasoningDelta", <<>>, <<>>)
      BY <1>3, <1>6, CarriesIt
    <2> QED  BY <1>3, <1>6, <1>b, <2>1, PutFrame
  <1>d. PICK X \in Seq(Frames) : X = (IF ap # <<>> THEN <<a>> ELSE <<>>) /\ Joined(w, X) = u
    BY <1>4, <1>7, <1>a, JoinsOne
  <1>e. PICK Y \in Seq(Frames) : Y = (IF rp # <<>> THEN <<b>> ELSE <<>>) /\ Joined(u, Y) = v
    BY <1>5, <1>a, <1>b, JoinsOne
  <1>f. PICK Z \in Seq(Frames) :
          /\ Z = (IF ap # <<>> \/ rp # <<>> THEN <<c>> ELSE <<>>)
          /\ Joined(v, Z) = (IF ap # <<>> \/ rp # <<>> THEN Append(v, c) ELSE v)
    BY <1>6, <1>b, JoinsOne
  <1>k. PICK t : t = (IF ap # <<>> \/ rp # <<>> THEN Append(v, c) ELSE v)
    OBVIOUS
  <1>g. FlushFrames(s) = Joined(Joined(X, Y), Z)
    <2>1. PICK p, q, r : /\ p = (IF ap # <<>> THEN <<a>> ELSE <<>>) /\ q = (IF rp # <<>> THEN <<b>> ELSE <<>>)
                         /\ r = (IF ap # <<>> \/ rp # <<>> THEN <<c>> ELSE <<>>)
      OBVIOUS
    <2>2. FlushFrames(s) = Joined(Joined(p, q), r)
      BY <1>1, <1>2, <2>1 DEF FlushFrames, Joined
    <2>3. p = X /\ q = Y /\ r = Z
      BY <1>d, <1>e, <1>f, <2>1
    <2> QED  BY <2>2, <2>3
  <1>h. Joined(w, FlushFrames(s)) = t
    <2>1. Joined(w, Joined(Joined(X, Y), Z)) = Joined(Joined(Joined(w, X), Y), Z)
      BY <1>7, JoinsThree
    <2>2. Joined(w, X) = u /\ Joined(u, Y) = v /\ Joined(v, Z) = t
      BY <1>d, <1>e, <1>f, <1>k
    <2> QED  BY <1>g, <2>1, <2>2
  <1>i. Draftful(t, run, <<>>, <<>>, sf, n)
    BY <1>b, <1>c, <1>k
  <1>j. w \o FlushFrames(s) = t
    BY <1>h DEF Joined
  <1> QED  BY <1>1, <1>i, <1>j

\* The frames of a flush and one more.
LEMMA FlushAnd ==
    ASSUME run \in 0..MaxSends, NEW s \in RunSessions, NEW w \in Seq(Frames), NEW f \in Frames
    PROVE  w \o (FlushFrames(s) \o <<f>>) = Append(w \o FlushFrames(s), f)
  <1>1. FlushFrames(s) \in Seq(Quiet(s.seq)) /\ Quiet(s.seq) \subseteq Frames
    BY FlushIsQuiet DEF Quiet
  <1>2. PICK q \in Seq(Frames) : q = FlushFrames(s)
    BY <1>1
  <1>3. w \o (q \o <<f>>) = (w \o q) \o <<f>>
    BY ConcatAssociative
  <1>4. (w \o q) \o <<f>> = Append(w \o q, f)
    <2>1. w \o q \in Seq(Frames)
      OBVIOUS
    <2> QED  BY <2>1, AppendIsConcat
  <1> QED  BY <1>2, <1>3, <1>4

\* One delta more, the last that was produced.
LEMMA RisingMore ==
    ASSUME NEW n \in Nat, NEW a \in Seq(Int), Rising(a), ToSet(a) \subseteq 1..n, NEW c, c = a \o <<n + 1>>
    PROVE  c \in Seq(Int) /\ Len(c) = Len(a) + 1 /\ ToSet(c) = ToSet(a) \cup {n + 1} /\ Rising(c)
  <1>1. /\ c \in Seq(Int) /\ Len(c) = Len(a) + 1 /\ Len(a) \in Nat /\ c[Len(a) + 1] = n + 1
        /\ \A i \in 1..Len(a) : c[i] = a[i]
    OBVIOUS
  <1>2. DOMAIN c = 1..(Len(a) + 1) /\ DOMAIN a = 1..Len(a)
    BY <1>1
  <1>3. ToSet(c) = ToSet(a) \cup {n + 1}
    <2>1. \A x : x \in ToSet(c) <=> \E i \in 1..(Len(a) + 1) : c[i] = x
      BY <1>2 DEF ToSet
    <2>2. \A x : x \in ToSet(a) <=> \E i \in 1..Len(a) : a[i] = x
      BY <1>2 DEF ToSet
    <2>3. ASSUME NEW x PROVE x \in ToSet(c) <=> x \in ToSet(a) \cup {n + 1}
      <3>1. \A i \in 1..(Len(a) + 1) : i = Len(a) + 1 \/ i \in 1..Len(a)
        BY <1>1
      <3>2. (\A i \in 1..Len(a) : i \in 1..(Len(a) + 1)) /\ Len(a) + 1 \in 1..(Len(a) + 1)
        BY <1>1
      <3> QED  BY <1>1, <2>1, <2>2, <3>1, <3>2
    <2> QED  BY <2>3
  <1>4. Rising(c)
    <2> SUFFICES ASSUME NEW i \in 1..(Len(c) - 1) PROVE c[i] < c[i + 1]
      BY DEF Rising
    <2>1. i \in 1..Len(a) /\ c[i] = a[i]
      BY <1>1
    <2>2. a[i] \in 1..n
      <3>1. a[i] \in ToSet(a)
        BY <1>2, <2>1 DEF ToSet
      <3> QED  BY <3>1
    <2>3. CASE i = Len(a)
      BY <1>1, <2>1, <2>2, <2>3
    <2>4. CASE i # Len(a)
      <3>1. i \in 1..(Len(a) - 1) /\ i + 1 \in 1..Len(a)
        BY <1>1, <2>1, <2>4
      <3>2. a[i] < a[i + 1]
        BY <3>1 DEF Rising
      <3> QED  BY <1>1, <2>1, <3>1, <3>2
    <2> QED  BY <2>3, <2>4
  <1> QED  BY <1>1, <1>3, <1>4

LEMMA ExactMore ==
    ASSUME NEW n \in Nat, NEW a \in Seq(Int), NEW b \in Seq(Int), Exact(a, b, n)
    PROVE  Exact(a \o <<n + 1>>, b, n + 1) /\ Exact(a, b \o <<n + 1>>, n + 1)
  <1>1. ToSet(a) \cup ToSet(b) = 1..n /\ Len(a) + Len(b) = n /\ Rising(a) /\ Rising(b)
    BY DEF Exact
  <1>2. ToSet(a) \subseteq 1..n /\ ToSet(b) \subseteq 1..n /\ Len(a) \in Nat /\ Len(b) \in Nat
    BY <1>1
  <1>3. PICK c : c = a \o <<n + 1>>
    OBVIOUS
  <1>4. PICK d : d = b \o <<n + 1>>
    OBVIOUS
  <1>5. c \in Seq(Int) /\ Len(c) = Len(a) + 1 /\ ToSet(c) = ToSet(a) \cup {n + 1} /\ Rising(c)
    BY <1>1, <1>2, <1>3, RisingMore
  <1>6. d \in Seq(Int) /\ Len(d) = Len(b) + 1 /\ ToSet(d) = ToSet(b) \cup {n + 1} /\ Rising(d)
    BY <1>1, <1>2, <1>4, RisingMore
  <1>7. (1..n) \cup {n + 1} = 1..(n + 1)
    OBVIOUS
  <1>8. ToSet(c) \cup ToSet(b) = 1..(n + 1) /\ ToSet(a) \cup ToSet(d) = 1..(n + 1)
    <2>1. ToSet(c) \cup ToSet(b) = (ToSet(a) \cup ToSet(b)) \cup {n + 1}
      BY <1>5
    <2>2. ToSet(a) \cup ToSet(d) = (ToSet(a) \cup ToSet(b)) \cup {n + 1}
      BY <1>6
    <2> QED  BY <1>1, <1>7, <2>1, <2>2
  <1>9. Len(c) + Len(b) = n + 1 /\ Len(a) + Len(d) = n + 1
    <2>1. Len(c) = Len(a) + 1 /\ Len(d) = Len(b) + 1
      BY <1>5, <1>6
    <2>2. Len(a) + Len(b) = n
      BY <1>1
    <2> QED  BY <1>2, <2>1, <2>2
  <1> QED  BY <1>1, <1>3, <1>4, <1>5, <1>6, <1>8, <1>9 DEF Exact

\* A delta that joins what is pending.
LEMMA PutDelta ==
    ASSUME NEW w, NEW r, NEW ap, NEW rp, NEW sf, NEW n \in Nat, Draftful(w, r, ap, rp, sf, n)
    PROVE  /\ BegunAt(w, Len(w), r) => Draftful(w, r, ap \o <<n + 1>>, rp, sf \o <<n + 1>>, n + 1)
           /\ Draftful(w, r, ap, rp \o <<n + 1>>, sf, n + 1)
  <1>1. /\ w \in Seq(Frames) /\ ap \in Seq(Int) /\ rp \in Seq(Int) /\ sf \in Seq(Int)
        /\ Exact(TextOf(w, {"ModelTurnDelta"}) \o ap, TextOf(w, {"ModelReasoningDelta"}) \o rp, n)
        /\ sf = Held(w, Len(w), r) \o ap /\ (ap # <<>> => BegunAt(w, Len(w), r))
        /\ \A i \in 1..Len(w) : Keyed(w, i)
    BY DEF Draftful
  <1>2. PICK x \in Seq(Int), y \in Seq(Int), h \in Seq(Int), m \in Seq(Int) :
           x = TextOf(w, {"ModelTurnDelta"}) /\ y = TextOf(w, {"ModelReasoningDelta"}) /\ h = Held(w, Len(w), r) /\ m = <<n + 1>>
    <2>1. TextOf(w, {"ModelTurnDelta"}) \in Seq(Int)
      BY <1>1, TextTyped
    <2>2. TextOf(w, {"ModelReasoningDelta"}) \in Seq(Int)
      BY <1>1, TextTyped
    <2>3. Held(w, Len(w), r) \in Seq(Int)
      BY <1>1, HeldIs
    <2>4. <<n + 1>> \in Seq(Int)
      OBVIOUS
    <2> QED  BY <2>1, <2>2, <2>3, <2>4
  <1>3. (x \o ap) \o m = x \o (ap \o m) /\ x \o ap \in Seq(Int)
    BY <1>1, Joins
  <1>4. (y \o rp) \o m = y \o (rp \o m) /\ y \o rp \in Seq(Int)
    BY <1>1, Joins
  <1>5. (h \o ap) \o m = h \o (ap \o m) /\ h \o ap \in Seq(Int)
    BY <1>1, Joins
  <1>6. ap \o m \in Seq(Int) /\ rp \o m \in Seq(Int) /\ sf \o m \in Seq(Int)
    BY <1>1, ConcatProperties
  <1>7. Exact((x \o ap) \o m, y \o rp, n + 1) /\ Exact(x \o ap, (y \o rp) \o m, n + 1)
    <2>1. PICK a \in Seq(Int), b \in Seq(Int) : a = x \o ap /\ b = y \o rp
      BY <1>3, <1>4
    <2>2. Exact(a, b, n)
      BY <1>1, <1>2, <2>1
    <2>3. Exact(a \o <<n + 1>>, b, n + 1) /\ Exact(a, b \o <<n + 1>>, n + 1)
      BY <2>2, ExactMore
    <2> QED  BY <1>2, <2>1, <2>3
  <1>8. Exact(x \o (ap \o m), y \o rp, n + 1) /\ Exact(x \o ap, y \o (rp \o m), n + 1) /\ sf \o m = h \o (ap \o m)
    BY <1>1, <1>2, <1>3, <1>4, <1>5, <1>7
  <1>9. BegunAt(w, Len(w), r) => Draftful(w, r, ap \o m, rp, sf \o m, n + 1)
    BY <1>1, <1>2, <1>6, <1>8 DEF Draftful
  <1>10. Draftful(w, r, ap, rp \o m, sf, n + 1)
    BY <1>1, <1>2, <1>6, <1>8 DEF Draftful
  <1> QED  BY <1>2, <1>9, <1>10

-----------------------------------------------------------------------------
\* What was produced is in the log or pending; the engine forwards deltas only in an attempt the log has begun.
DraftInv ==
    /\ Draftful(Whole, run, rs.answerPending, rs.reasoningPending, rs.answerSoFar, tokens)
    /\ stage = "attempt" => BegunAt(Whole, Len(Whole), run)

\* What the log had begun stays begun.
LEMMA BegunGrows ==
    ASSUME Typed, Unlocked, UNCHANGED stream, outbox' \in Seq(Frames), NEW r, BegunAt(Whole, Len(Whole), r)
    PROVE  BegunAt(Whole', Len(Whole'), r)
  <1>1. /\ Len(Whole') = Len(Whole) + Len(outbox') /\ Len(Whole) \in Nat /\ Len(outbox') \in Nat
        /\ \A i \in 1..Len(Whole) : Whole'[i] = Whole[i]
    BY WholeGrows
  <1>2. \A i \in 1..Len(Whole) : i \in 1..Len(Whole')
    BY <1>1
  <1> QED  BY <1>1, <1>2 DEF BegunAt

LEMMA StampedText ==
    ASSUME Typed, NEW seq \in 0..MaxSends
    PROVE  /\ Stamped(seq).answerPending = rs.answerPending /\ Stamped(seq).reasoningPending = rs.reasoningPending
           /\ Stamped(seq).answerSoFar = rs.answerSoFar
  BY DEF Typed, RunSessions, Stamped

LEMMA FlushedText ==
    ASSUME NEW s \in RunSessions
    PROVE  /\ Flushed(s).answerPending = <<>> /\ Flushed(s).reasoningPending = <<>>
           /\ Flushed(s).answerSoFar = s.answerSoFar
  BY DEF RunSessions, Flushed

\* A flush on its own ...
LEMMA FlushDraft ==
    ASSUME Typed, DraftInv, Unlocked, UNCHANGED <<stream, run, tokens>>, outbox' = FlushFrames(rs),
           outbox' \in Seq(Frames), rs'.answerPending = <<>>, rs'.reasoningPending = <<>>,
           rs'.answerSoFar = rs.answerSoFar, stage' = "attempt" => stage = "attempt"
    PROVE  DraftInv'
  <1>1. Whole' = Whole \o FlushFrames(rs)
    BY WholeGrows
  <1>2. run \in 0..MaxSends /\ rs \in RunSessions
    BY RunsAssumption DEF Typed, TypeOK
  <1>3. Draftful(Whole \o FlushFrames(rs), run, <<>>, <<>>, rs.answerSoFar, tokens)
    BY <1>2, FlushPuts DEF DraftInv
  <1>4. BegunAt(Whole, Len(Whole), run) => BegunAt(Whole', Len(Whole'), run)
    BY BegunGrows
  <1> QED  BY <1>1, <1>3, <1>4 DEF DraftInv

\* ... and one that a frame ends which is no attempt's start and holds the draft if it has to.
LEMMA FlushDraftThen ==
    ASSUME Typed, Unlocked, UNCHANGED <<stream, run>>, NEW s \in RunSessions, NEW f \in Frames,
           Draftful(Whole, run, s.answerPending, s.reasoningPending, s.answerSoFar, tokens),
           outbox' = FlushFrames(s) \o <<f>>, outbox' \in Seq(Frames),
           f.kind \notin DeltaKinds \cup {"Snapshot"}, f.run = run
    PROVE  /\ f.kind # "ModelTurnStarted" /\ (f.kind \in Terminal /\ f.text \notin {Final, ErrorText} => f.text = s.answerSoFar)
                => Draftful(Whole', run, <<>>, <<>>, s.answerSoFar, tokens)
           /\ f.kind = "ModelTurnStarted" => Draftful(Whole', run, <<>>, <<>>, <<>>, tokens) /\ BegunAt(Whole', Len(Whole'), run)
  <1>1. run \in 0..MaxSends /\ Whole \in Seq(Frames) /\ <<>> \in Seq(Int)
    <2>1. run \in 0..MaxSends
      BY RunsAssumption DEF Typed, TypeOK
    <2>2. Whole \in Seq(Frames)
      BY WholeParts
    <2>3. <<>> \in Seq(Int)
      OBVIOUS
    <2> QED  BY <2>1, <2>2, <2>3
  <1>2. PICK w : w = Whole \o FlushFrames(s)
    OBVIOUS
  <1>3. Draftful(w, run, <<>>, <<>>, s.answerSoFar, tokens)
    BY <1>1, <1>2, FlushPuts
  <1>4. Whole' = Append(w, f)
    BY <1>1, <1>2, WholeGrows, FlushAnd
  <1>5. w \in Seq(Frames)
    BY <1>3 DEF Draftful
  <1>6. ASSUME f.kind # "ModelTurnStarted", f.kind \in Terminal /\ f.text \notin {Final, ErrorText} => f.text = s.answerSoFar
        PROVE  Draftful(Append(w, f), run, <<>>, <<>>, s.answerSoFar, tokens)
    <2>1. Carries(f, "ModelTurnDelta", <<>>, <<>>) /\ Carries(f, "ModelReasoningDelta", <<>>, <<>>)
      BY <1>1, Empties DEF Part, Carries, DeltaKinds
    <2>2. f.kind # "Snapshot"
      OBVIOUS
    <2> QED  BY <1>1, <1>3, <1>6, <2>1, <2>2, PutFrame
  <1>7. ASSUME f.kind = "ModelTurnStarted"
        PROVE  Draftful(Append(w, f), run, <<>>, <<>>, <<>>, tokens) /\ BegunAt(Append(w, f), Len(w) + 1, run)
    <2>1. Draftful(Append(w, f), run, <<>>, <<>>, <<>>, tokens)
      BY <1>3, <1>7, PutStart
    <2>2. BegunAt(Append(w, f), Len(w) + 1, run)
      BY <1>5, <1>7, BegunNow
    <2> QED  BY <2>1, <2>2
  <1>8. Len(Append(w, f)) = Len(w) + 1
    BY <1>5
  <1> QED  BY <1>4, <1>6, <1>7, <1>8

\* What an event of the engine does to the draft.
LEMMA EventDraft ==
    ASSUME BridgeInv, DraftInv, pc = "replying", stage # "done", Unlocked, UNCHANGED <<stream, run>>,
           outbox' \in Seq(Frames),
           NEW kind \in EventKinds, NEW seq \in {0, run}, NEW text \in Seq(Int), NEW err \in Results,
           OnRunEvent(kind, seq, text, err),
           kind \in Terminal /\ text \notin {Final, ErrorText} => kind = "RunFailed" /\ text = <<>>,
           kind \in DeltaKinds => text = <<tokens + 1>> /\ tokens' = tokens + 1 /\ stage = "attempt",
           kind \notin DeltaKinds => tokens' = tokens,
           stage' = "attempt" => stage = "attempt" \/ kind = "ModelTurnStarted"
    PROVE  DraftInv'
  <1>1. /\ Typed /\ rs \in RunSessions /\ ~rs.finished /\ ~rs.terminalEmitted
        /\ run \in 0..MaxSends /\ seq \in 0..MaxSends /\ tokens \in Nat
    <2>1. Typed /\ Reported /\ Placed
      BY DEF BridgeInv
    <2>2. rs \in RunSessions /\ run \in 0..sent /\ sent \in 0..MaxSends /\ tokens \in 0..MaxTokens
      BY <2>1 DEF Typed, TypeOK
    <2>3. run \in 0..MaxSends /\ seq \in 0..MaxSends /\ tokens \in Nat
      BY <2>2, RunsAssumption
    <2>4. ~rs.finished /\ ~rs.terminalEmitted
      BY <2>1 DEF Reported, Placed, Closed
    <2> QED  BY <2>1, <2>2, <2>3, <2>4
  <1>2. PICK s : s = Stamped(seq)
    OBVIOUS
  <1>3. /\ s \in RunSessions /\ s.seq \in 0..MaxSends
        /\ s.answerPending = rs.answerPending /\ s.reasoningPending = rs.reasoningPending
        /\ s.answerSoFar = rs.answerSoFar
    <2>1. s \in RunSessions
      BY <1>1, <1>2, StampedSound
    <2> QED  BY <1>1, <1>2, <2>1, StampedText DEF RunSessions
  <1>4. Draftful(Whole, run, s.answerPending, s.reasoningPending, s.answerSoFar, tokens)
    BY <1>3 DEF DraftInv
  <1>5. \/ /\ kind = "ModelTurnDelta"
           /\ rs' = Scheduled([s EXCEPT !.answerPending = @ \o text, !.answerSoFar = @ \o text])
           /\ UNCHANGED outbox
        \/ /\ kind = "ModelReasoningDelta"
           /\ rs' = Scheduled([s EXCEPT !.reasoningPending = @ \o text])
           /\ UNCHANGED outbox
        \/ /\ kind \in Terminal
           /\ rs' = [Flushed(s) EXCEPT !.terminalEmitted = TRUE]
           /\ outbox' = FlushFrames(s) \o
                <<Frame(kind, seq, IF kind = "RunFailed" /\ text = <<>> THEN s.answerSoFar ELSE text,
                        FinishTerminalStatus(err))>>
        \/ /\ kind \in {"RunStarted", "ModelTurnStarted", "Tool"}
           /\ rs' = IF kind = "ModelTurnStarted"
                    THEN [Flushed(s) EXCEPT !.answerSoFar = <<>>] ELSE Flushed(s)
           /\ outbox' = FlushFrames(s) \o <<Frame(kind, seq, <<>>, "")>>
    BY <1>1, <1>2 DEF OnRunEvent
  <1>6. BegunAt(Whole, Len(Whole), run) => BegunAt(Whole', Len(Whole'), run)
    BY <1>1, BegunGrows
  <1>7. CASE kind \in DeltaKinds
    <2>1. text = <<tokens + 1>> /\ tokens' = tokens + 1 /\ BegunAt(Whole, Len(Whole), run) /\ Whole' = Whole
          /\ kind \notin Terminal /\ kind \notin {"RunStarted", "ModelTurnStarted", "Tool"}
      BY <1>5, <1>7 DEF DraftInv, Whole, DeltaKinds, Terminal
    <2>2. PICK ap, rp, sf : ap = s.answerPending /\ rp = s.reasoningPending /\ sf = s.answerSoFar
      OBVIOUS
    <2>3. /\ Draftful(Whole, run, ap \o <<tokens + 1>>, rp, sf \o <<tokens + 1>>, tokens + 1)
          /\ Draftful(Whole, run, ap, rp \o <<tokens + 1>>, sf, tokens + 1)
      BY <1>1, <1>4, <2>1, <2>2, PutDelta
    <2>4. CASE kind = "ModelTurnDelta"
      <3>1. rs' = Scheduled([s EXCEPT !.answerPending = @ \o text, !.answerSoFar = @ \o text])
        BY <1>5, <2>1, <2>4
      <3>2. /\ rs'.answerPending = ap \o text /\ rs'.reasoningPending = rp /\ rs'.answerSoFar = sf \o text
        BY <1>3, <2>2, <3>1 DEF Scheduled, RunSessions
      <3> QED  BY <2>1, <2>3, <3>2 DEF DraftInv
    <2>5. CASE kind = "ModelReasoningDelta"
      <3>1. rs' = Scheduled([s EXCEPT !.reasoningPending = @ \o text])
        BY <1>5, <2>1, <2>5
      <3>2. /\ rs'.answerPending = ap /\ rs'.reasoningPending = rp \o text /\ rs'.answerSoFar = sf
        BY <1>3, <2>2, <3>1 DEF Scheduled, RunSessions
      <3> QED  BY <2>1, <2>3, <3>2 DEF DraftInv
    <2> QED  BY <1>7, <2>4, <2>5 DEF DeltaKinds
  <1>8. PICK t : t = Flushed(s)
    OBVIOUS
  <1>9. t \in RunSessions /\ t.answerPending = <<>> /\ t.reasoningPending = <<>> /\ t.answerSoFar = s.answerSoFar
    BY <1>3, <1>8, FlushedSound, FlushedText
  <1>10. CASE kind \in Terminal
    <2>1. kind \notin DeltaKinds \cup {"RunStarted", "ModelTurnStarted", "Tool", "Snapshot"}
      BY <1>10 DEF Terminal, DeltaKinds
    <2>2. PICK g \in Seq(Int) : g = IF kind = "RunFailed" /\ text = <<>> THEN s.answerSoFar ELSE text
      BY <1>3 DEF RunSessions
    <2>3. PICK status \in {"", "ABORTED", "COMPLETED", "FAILED"} : status = FinishTerminalStatus(err)
      BY DEF FinishTerminalStatus, RunFailedStatus
    <2>4. PICK f : f = Frame(kind, seq, g, status)
      OBVIOUS
    <2>5. f \in Frames /\ f.run = run /\ f.kind = kind /\ f.text = g
      BY <1>1, <1>10, <2>4 DEF Frame, Frames, Kinds
    <2>6. rs' = [t EXCEPT !.terminalEmitted = TRUE] /\ outbox' = FlushFrames(s) \o <<f>>
      BY <1>5, <1>8, <2>1, <2>2, <2>3, <2>4 DEF DeltaKinds
    <2>7. /\ rs'.answerPending = <<>> /\ rs'.reasoningPending = <<>> /\ rs'.answerSoFar = s.answerSoFar
      BY <1>9, <2>6 DEF RunSessions
    <2>8. f.text \notin {Final, ErrorText} => f.text = s.answerSoFar
      BY <1>10, <2>2, <2>5
    <2>9. Draftful(Whole', run, <<>>, <<>>, s.answerSoFar, tokens)
      BY <1>1, <1>3, <1>4, <2>1, <2>5, <2>6, <2>8, FlushDraftThen
    <2>10. tokens' = tokens /\ (stage' = "attempt" => BegunAt(Whole', Len(Whole'), run))
      BY <1>6, <2>1 DEF DraftInv
    <2> QED  BY <2>7, <2>9, <2>10 DEF DraftInv
  <1>11. CASE kind \in {"RunStarted", "ModelTurnStarted", "Tool"}
    <2>1. kind \notin DeltaKinds \cup Terminal \cup {"Snapshot"} /\ kind \in Kinds
      BY <1>11 DEF Terminal, DeltaKinds, Kinds
    <2>2. PICK f : f = Frame(kind, seq, <<>>, "")
      OBVIOUS
    <2>3. f \in Frames /\ f.run = run /\ f.kind = kind
      <3>1. <<>> \in Seq(Int)
        OBVIOUS
      <3> QED  BY <1>1, <2>1, <2>2, <3>1 DEF Frame, Frames
    <2>4. /\ rs' = (IF kind = "ModelTurnStarted" THEN [t EXCEPT !.answerSoFar = <<>>] ELSE t)
          /\ outbox' = FlushFrames(s) \o <<f>>
      BY <1>5, <1>8, <2>1, <2>2 DEF DeltaKinds
    <2>5. /\ rs'.answerPending = <<>> /\ rs'.reasoningPending = <<>>
          /\ rs'.answerSoFar = (IF kind = "ModelTurnStarted" THEN <<>> ELSE s.answerSoFar)
      BY <1>9, <2>4 DEF RunSessions
    <2>6. /\ kind # "ModelTurnStarted" => Draftful(Whole', run, <<>>, <<>>, s.answerSoFar, tokens)
          /\ kind = "ModelTurnStarted" => Draftful(Whole', run, <<>>, <<>>, <<>>, tokens) /\ BegunAt(Whole', Len(Whole'), run)
      BY <1>1, <1>3, <1>4, <2>1, <2>3, <2>4, FlushDraftThen
    <2>7. tokens' = tokens /\ (stage' = "attempt" => BegunAt(Whole', Len(Whole'), run))
      BY <1>6, <2>1, <2>6 DEF DraftInv
    <2> QED  BY <2>5, <2>6, <2>7 DEF DraftInv
  <1> QED  BY <1>7, <1>10, <1>11 DEF EventKinds

\* Steps that leave the frames, the deltas and the text of the run alone.
LEMMA DraftUntouched ==
    ASSUME DraftInv, Whole' = Whole, UNCHANGED <<run, tokens>>, rs'.answerPending = rs.answerPending,
           rs'.reasoningPending = rs.reasoningPending, rs'.answerSoFar = rs.answerSoFar,
           stage' = "attempt" => stage = "attempt"
    PROVE  DraftInv'
  BY DEF DraftInv

LEMMA EngineDraft == BridgeInv /\ BridgeInv' /\ DraftInv /\ EngineStep => DraftInv'
  <1> SUFFICES ASSUME BridgeInv, BridgeInv', DraftInv, EngineStep PROVE DraftInv'
    OBVIOUS
  <1>1. Typed /\ outbox' \in Seq(Frames) /\ tokens \in Int
    <2>1. Typed /\ Typed'
      BY DEF BridgeInv
    <2>2. outbox' \in Seq(Frames)
      BY <2>1 DEF Typed
    <2>3. tokens \in 0..MaxTokens
      BY <2>1 DEF Typed, TypeOK
    <2> QED  BY <2>1, <2>2, <2>3
  <1>2. <<>> \in Seq(Int) /\ Final \in Seq(Int) /\ <<tokens + 1>> \in Seq(Int)
    BY <1>1 DEF Final
  <1>3. TurnSeqOf(run) \in {0, run} /\ 0 \in {0, run}
    BY DEF TurnSeqOf
  <1>4. /\ "RunStarted" \notin Terminal /\ "ModelTurnStarted" \notin Terminal /\ "Tool" \notin Terminal
        /\ "RunStarted" \notin DeltaKinds /\ "ModelTurnStarted" \notin DeltaKinds /\ "Tool" \notin DeltaKinds
        /\ "RunFailed" \notin DeltaKinds /\ "RunFinished" \notin DeltaKinds /\ Terminal \cap DeltaKinds = {}
        /\ {"RunStarted", "ModelTurnStarted", "Tool", "RunFailed", "RunFinished"} \cup DeltaKinds = EventKinds
        /\ {"nil", "canceled", "other", "stop"} = Results
    BY DEF Terminal, DeltaKinds, EventKinds, Results
  <1>5. CASE RefuseMessage \/ ReserveTurnSeq
    <2>1. /\ Whole' = Whole /\ run' = run /\ tokens' = tokens /\ rs' = rs /\ stage' # "attempt"
      BY <1>5 DEF RefuseMessage, ReserveTurnSeq, engineVars, Whole
    <2> QED  BY <2>1, DraftUntouched
  <1>6. CASE RunStarted
    <2>1. /\ pc = "replying" /\ stage # "done" /\ Unlocked /\ UNCHANGED <<stream, run>> /\ tokens' = tokens
          /\ OnRunEvent("RunStarted", TurnSeqOf(run), <<>>, "nil") /\ stage' # "attempt"
      BY <1>6 DEF RunStarted, Engine, engineVars
    <2>2. "RunStarted" \in EventKinds /\ "nil" \in Results
      BY <1>4
    <2> QED  BY <1>1, <1>2, <1>3, <1>4, <2>1, <2>2, EventDraft
  <1>7. CASE ModelTurnStarted
    <2>1. /\ pc = "replying" /\ stage # "done" /\ Unlocked /\ UNCHANGED <<stream, run>> /\ tokens' = tokens
          /\ OnRunEvent("ModelTurnStarted", TurnSeqOf(run), <<>>, "nil")
      BY <1>7 DEF ModelTurnStarted, Engine, engineVars
    <2>2. "ModelTurnStarted" \in EventKinds /\ "nil" \in Results
      BY <1>4
    <2> QED  BY <1>1, <1>2, <1>3, <1>4, <2>1, <2>2, EventDraft
  <1>8. CASE ToolEvent
    <2>1. /\ pc = "replying" /\ stage # "done" /\ Unlocked /\ UNCHANGED <<stream, run>> /\ tokens' = tokens
          /\ OnRunEvent("Tool", TurnSeqOf(run), <<>>, "nil") /\ stage = "attempt"
      BY <1>8 DEF ToolEvent, Engine, engineVars
    <2>2. "Tool" \in EventKinds /\ "nil" \in Results
      BY <1>4
    <2> QED  BY <1>1, <1>2, <1>3, <1>4, <2>1, <2>2, EventDraft
  <1>9. CASE RunFinishes
    <2>1. /\ pc = "replying" /\ stage # "done" /\ Unlocked /\ UNCHANGED <<stream, run>> /\ tokens' = tokens
          /\ OnRunEvent("RunFinished", TurnSeqOf(run), Final, "nil") /\ stage' = "done"
      BY <1>9 DEF RunFinishes, Engine, engineVars
    <2>2. "RunFinished" \in EventKinds /\ "nil" \in Results /\ Final \in {Final, ErrorText}
      BY <1>4
    <2> QED  BY <1>1, <1>2, <1>3, <1>4, <2>1, <2>2, EventDraft
  <1>10. ASSUME NEW k \in DeltaKinds, Delta(k) PROVE DraftInv'
    <2>1. /\ pc = "replying" /\ stage # "done" /\ Unlocked /\ UNCHANGED <<stream, run>> /\ tokens' = tokens + 1
          /\ OnRunEvent(k, TurnSeqOf(run), <<tokens + 1>>, "nil") /\ stage = "attempt"
      BY <1>10 DEF Delta, Engine, engineVars
    <2>2. k \in EventKinds /\ k \notin Terminal /\ "nil" \in Results
      BY <1>4
    <2> QED  BY <1>1, <1>2, <1>3, <2>1, <2>2, EventDraft
  <1>11. ASSUME NEW err \in Errors, ReserveFails(err) PROVE DraftInv'
    <2>1. /\ pc = "replying" /\ stage # "done" /\ Unlocked /\ UNCHANGED <<stream, run>> /\ tokens' = tokens
          /\ OnRunEvent("RunFailed", 0, <<>>, err) /\ stage' = "done"
      BY <1>11 DEF ReserveFails, Engine, engineVars
    <2>2. "RunFailed" \in EventKinds /\ err \in Results
      BY <1>4, <1>11 DEF Errors
    <2> QED  BY <1>1, <1>2, <1>3, <1>4, <2>1, <2>2, EventDraft
  <1>12. ASSUME NEW err \in Errors \cup {"stop"}, NEW text \in {<<>>, Final}, RunFails(err, text) PROVE DraftInv'
    <2>1. /\ pc = "replying" /\ stage # "done" /\ Unlocked /\ UNCHANGED <<stream, run>> /\ tokens' = tokens
          /\ OnRunEvent("RunFailed", TurnSeqOf(run), text, err) /\ stage' = "done"
      BY <1>12 DEF RunFails, Engine, engineVars
    <2>2. "RunFailed" \in EventKinds /\ err \in Results /\ text \in Seq(Int) /\ (text \notin {Final, ErrorText} => text = <<>>)
      BY <1>2, <1>4, <1>12 DEF Errors
    <2> QED  BY <1>1, <1>3, <1>4, <2>1, <2>2, EventDraft
  <1> QED  BY <1>5, <1>6, <1>7, <1>8, <1>9, <1>10, <1>11, <1>12 DEF EngineStep, DeltaKinds

\* A new run has no text, and no frame of it is in the log.
LEMMA OpenDraft == BridgeInv /\ DraftInv /\ OpenSession => DraftInv'
  <1> SUFFICES ASSUME BridgeInv, DraftInv, OpenSession PROVE DraftInv'
    OBVIOUS
  <1>1. /\ pc = "select" /\ run' = run + 1 /\ rs' = NewRunSession /\ stage' = "start" /\ tokens' = tokens
        /\ Whole' = Whole
    BY DEF OpenSession, Whole
  <1>2. run \in Nat /\ Typed
    BY DEF BridgeInv, Typed, TypeOK
  <1>3. rs.answerPending = <<>> /\ rs.reasoningPending = <<>>
    BY <1>1 DEF BridgeInv, Placed, Reported, Closed
  <1>4. ~BegunAt(Whole, Len(Whole), run + 1)
    <2>1. ASSUME NEW j \in 1..Len(Whole) PROVE Whole[j].run # run + 1
      <3>1. Whole[j].run <= run
        BY DEF BridgeInv, FramesTold, FrameTold
      <3> QED  BY <1>2, <3>1
    <2> QED  BY <2>1 DEF BegunAt
  <1>5. /\ Whole \in Seq(Frames) /\ <<>> \in Seq(Int)
        /\ Exact(TextOf(Whole, {"ModelTurnDelta"}) \o <<>>, TextOf(Whole, {"ModelReasoningDelta"}) \o <<>>, tokens)
        /\ \A i \in 1..Len(Whole) : Keyed(Whole, i)
    BY <1>3 DEF DraftInv, Draftful
  <1>6. Held(Whole, Len(Whole), run + 1) = <<>> /\ <<>> \o <<>> = <<>>
    BY <1>4 DEF Held
  <1>7. Draftful(Whole, run + 1, <<>>, <<>>, <<>>, tokens)
    BY <1>5, <1>6 DEF Draftful
  <1>8. rs'.answerPending = <<>> /\ rs'.reasoningPending = <<>> /\ rs'.answerSoFar = <<>>
    BY <1>1 DEF NewRunSession
  <1> QED  BY <1>1, <1>7, <1>8 DEF DraftInv

\* Abort holds the draft in its frame, Finish the text it was given.
LEMMA CloseDraft == BridgeInv /\ BridgeInv' /\ DraftInv /\ (AbortRun \/ FinishRun) => DraftInv'
  <1> SUFFICES ASSUME BridgeInv, BridgeInv', DraftInv, AbortRun \/ FinishRun PROVE DraftInv'
    OBVIOUS
  <1>1. Typed /\ outbox' \in Seq(Frames) /\ rs \in RunSessions /\ run \in 0..MaxSends
    <2>1. Typed /\ Typed'
      BY DEF BridgeInv
    <2>2. outbox' \in Seq(Frames) /\ rs \in RunSessions
      BY <2>1 DEF Typed
    <2>3. run \in 0..sent /\ sent \in 0..MaxSends
      BY <2>1 DEF Typed, TypeOK
    <2> QED  BY <2>1, <2>2, <2>3, RunsAssumption
  <1>2. rs.answerSoFar \in Seq(Int) /\ rs.seq \in 0..MaxSends /\ Final \in Seq(Int) /\ ErrorText \in Seq(Int)
    BY <1>1 DEF RunSessions, Final, ErrorText
  <1>3. PICK f \in Frames :
          /\ f.run = run /\ f.kind \in Terminal
          /\ f.text \notin {Final, ErrorText} => f.text = rs.answerSoFar
          /\ Unlocked /\ rs' = [Flushed(rs) EXCEPT !.finished = TRUE, !.terminalEmitted = TRUE]
          /\ outbox' = FlushFrames(rs) \o (IF rs.terminalEmitted THEN <<>> ELSE <<f>>)
          /\ UNCHANGED <<run, tokens, stage, stream>>
    <2>1. CASE AbortRun
      <3>1. PICK g : g = Frame("RunFinished", rs.seq, rs.answerSoFar, "ABORTED")
        OBVIOUS
      <3>2. g \in Frames /\ g.run = run /\ g.kind \in Terminal /\ g.text = rs.answerSoFar
        BY <1>1, <1>2, <3>1 DEF Frame, Frames, Kinds, Terminal
      <3>3. CloseRun(AbortFrame, "aborting") /\ AbortFrame = (IF rs.terminalEmitted THEN <<>> ELSE <<g>>)
        BY <2>1, <3>1 DEF AbortRun, AbortFrame, Closing
      <3> QED  BY <3>2, <3>3 DEF CloseRun
    <2>2. CASE FinishRun
      <3>1. PICK status \in {"ABORTED", "COMPLETED", "FAILED"} : status = FinishTerminalStatus(result)
        BY DEF FinishTerminalStatus, RunFailedStatus
      <3>2. PICK kind \in Terminal : kind = IF status = "FAILED" THEN "RunFailed" ELSE "RunFinished"
        BY DEF Terminal
      <3>3. PICK text \in Seq(Int) : text = (IF result = "nil" THEN Final ELSE ErrorText) /\ text \in {Final, ErrorText}
        BY <1>2
      <3>4. PICK g : g = Frame(kind, rs.seq, text, status)
        OBVIOUS
      <3>5. g \in Frames /\ g.run = run /\ g.kind \in Terminal /\ g.text \in {Final, ErrorText}
        BY <1>1, <1>2, <3>3, <3>4 DEF Frame, Frames, Kinds
      <3>6. CloseRun(FinishFrame, "finishing") /\ FinishFrame = (IF rs.terminalEmitted THEN <<>> ELSE <<g>>)
        BY <2>2, <3>1, <3>2, <3>3, <3>4 DEF FinishRun, FinishFrame, Closing
      <3> QED  BY <3>5, <3>6 DEF CloseRun
    <2> QED  BY <2>1, <2>2
  <1>4. rs'.answerPending = <<>> /\ rs'.reasoningPending = <<>> /\ rs'.answerSoFar = rs.answerSoFar
    <2>1. PICK t : t = Flushed(rs)
      OBVIOUS
    <2>2. t \in RunSessions /\ t.answerPending = <<>> /\ t.reasoningPending = <<>> /\ t.answerSoFar = rs.answerSoFar
      BY <1>1, <2>1, FlushedSound, FlushedText
    <2>3. rs' = [t EXCEPT !.finished = TRUE, !.terminalEmitted = TRUE]
      BY <1>3, <2>1
    <2> QED  BY <2>2, <2>3 DEF RunSessions
  <1>5. CASE rs.terminalEmitted
    <2>1. FlushFrames(rs) \o <<>> = FlushFrames(rs)
      <3>1. FlushFrames(rs) \in Seq(Quiet(rs.seq))
        BY <1>1, FlushIsQuiet
      <3>2. PICK q \in Seq(Quiet(rs.seq)) : q = FlushFrames(rs)
        BY <3>1
      <3>3. q \o <<>> = q
        OBVIOUS
      <3> QED  BY <3>2, <3>3
    <2> QED  BY <1>1, <1>3, <1>4, <1>5, <2>1, FlushDraft
  <1>6. CASE ~rs.terminalEmitted
    <2>1. outbox' = FlushFrames(rs) \o <<f>>
      BY <1>3, <1>6
    <2>2. f.kind \notin DeltaKinds \cup {"Snapshot"} /\ f.kind # "ModelTurnStarted"
      BY <1>3 DEF Terminal, DeltaKinds
    <2>3. Draftful(Whole, run, rs.answerPending, rs.reasoningPending, rs.answerSoFar, tokens)
      BY DEF DraftInv
    <2>4. Draftful(Whole', run, <<>>, <<>>, rs.answerSoFar, tokens)
      BY <1>1, <1>3, <2>1, <2>2, <2>3, FlushDraftThen
    <2>5. BegunAt(Whole, Len(Whole), run) => BegunAt(Whole', Len(Whole'), run)
      BY <1>1, <1>3, BegunGrows
    <2> QED  BY <1>3, <1>4, <2>4, <2>5 DEF DraftInv
  <1> QED  BY <1>5, <1>6

LEMMA DraftStep == BridgeInv /\ DraftInv /\ [Next]_runVars => DraftInv'
  <1> SUFFICES ASSUME BridgeInv, DraftInv, [Next]_runVars PROVE DraftInv'
    OBVIOUS
  <1>1. BridgeInv'
    BY BridgeStep
  <1>2. Typed /\ outbox' \in Seq(Frames) /\ rs \in RunSessions
    BY <1>1 DEF BridgeInv, Typed
  <1>3. CASE Rpc \/ Shutdown \/ UNCHANGED runVars
    <2>1. Whole' = Whole /\ run' = run /\ tokens' = tokens /\ rs' = rs /\ stage' = stage
      BY <1>3 DEF Rpc, SendMessage, Abort, Shutdown, runVars, Whole
    <2> QED  BY <2>1, DraftUntouched
  <1>4. CASE SetCancel \/ ReplyReturns \/ ReturnToIdle \/ StopWorker
    <2>1. Whole' = Whole /\ run' = run /\ tokens' = tokens /\ rs' = rs /\ stage' = stage
      BY <1>4 DEF SetCancel, ReplyReturns, ReturnToIdle, StopWorker, Whole
    <2> QED  BY <2>1, DraftUntouched
  <1>5. CASE OpenSession \/ AbortRun \/ FinishRun
    BY <1>1, <1>5, OpenDraft, CloseDraft
  <1>6. CASE EngineStep
    BY <1>1, <1>6, EngineDraft
  <1>7. CASE TimerFires
    <2>1. Whole' = Whole /\ run' = run /\ tokens' = tokens /\ stage' = stage /\ rs' = [rs EXCEPT !.timer = "fired"]
      BY <1>7 DEF TimerFires, Whole
    <2>2. rs'.answerPending = rs.answerPending /\ rs'.reasoningPending = rs.reasoningPending /\ rs'.answerSoFar = rs.answerSoFar
      BY <1>2, <2>1 DEF RunSessions
    <2> QED  BY <2>1, <2>2, DraftUntouched
  <1>8. ASSUME NEW r \in Runs, FlushDeltaBuffers(r) PROVE DraftInv'
    <2>1. run' = run /\ tokens' = tokens /\ stage' = stage /\ stream' = stream
      BY <1>8 DEF FlushDeltaBuffers
    <2>2. CASE r # run \/ rs.finished
      <3>1. rs' = rs /\ Whole' = Whole
        BY <1>8, <2>2 DEF FlushDeltaBuffers, Whole
      <3> QED  BY <2>1, <3>1, DraftUntouched
    <2>3. CASE ~(r # run \/ rs.finished)
      <3>1. rs' = Flushed(rs) /\ outbox' = FlushFrames(rs) /\ Unlocked
        BY <1>8, <2>3 DEF FlushDeltaBuffers
      <3>2. rs'.answerPending = <<>> /\ rs'.reasoningPending = <<>> /\ rs'.answerSoFar = rs.answerSoFar
        BY <1>2, <3>1, FlushedText
      <3> QED  BY <1>2, <2>1, <3>1, <3>2, FlushDraft
    <2> QED  BY <2>2, <2>3
  <1>9. CASE AppendFrame
    <2>1. Whole' = Whole
      BY <1>2, <1>9, WholeMoves
    <2>2. run' = run /\ tokens' = tokens /\ stage' = stage /\ rs' = rs
      BY <1>9 DEF AppendFrame
    <2> QED  BY <2>1, <2>2, DraftUntouched
  <1> QED  BY <1>3, <1>4, <1>5, <1>6, <1>7, <1>8, <1>9 DEF Next, Worker, Timer

LEMMA InitDraft == Init => DraftInv
  <1> SUFFICES ASSUME Init PROVE DraftInv
    OBVIOUS
  <1>1. PICK f : f = [kind |-> "SessionOpened", run |-> 0, turn |-> 0, text |-> <<>>, status |-> ""]
    OBVIOUS
  <1>2. stream = <<f>> /\ outbox = <<>> /\ run = 0 /\ tokens = 0 /\ stage = "done" /\ rs = [NewRunSession EXCEPT !.finished = TRUE]
    BY <1>1 DEF Init
  <1>3. f \in Frames /\ f.kind = "SessionOpened"
    <2>1. <<>> \in Seq(Int) /\ 0 \in 0..MaxSends /\ "SessionOpened" \in Kinds
      BY RunsAssumption DEF Kinds
    <2> QED  BY <1>1, <2>1 DEF Frames
  <1>4. Whole = Append(<<>>, f) /\ <<>> \in Seq(Frames) /\ <<>> \in Seq(Int) /\ Len(<<>>) = 0
    BY <1>2, <1>3 DEF Whole
  <1>5. Draftful(<<>>, 0, <<>>, <<>>, <<>>, 0)
    <2>1. \A k : TextOf(<<>>, k) = <<>>
      BY TextOfNothing
    <2>2. Exact(<<>>, <<>>, 0)
      BY DEF Exact, ToSet, Rising
    <2>3. <<>> \o <<>> = <<>> /\ 1..0 = {}
      OBVIOUS
    <2>4. Held(<<>>, 0, 0) = <<>>
      BY <2>3 DEF Held, BegunAt
    <2> QED  BY <1>4, <2>1, <2>2, <2>3, <2>4 DEF Draftful
  <1>6. Carries(f, "ModelTurnDelta", <<>>, <<>>) /\ Carries(f, "ModelReasoningDelta", <<>>, <<>>)
    BY <1>3, <1>4, Empties DEF Part, Carries
  <1>7. f.kind \notin Terminal \cup {"ModelTurnStarted", "Snapshot"}
    BY <1>3 DEF Terminal
  <1>8. Draftful(Append(<<>>, f), 0, <<>>, <<>>, <<>>, 0)
    BY <1>3, <1>4, <1>5, <1>6, <1>7, PutFrame
  <1>9. rs.answerPending = <<>> /\ rs.reasoningPending = <<>> /\ rs.answerSoFar = <<>>
    BY <1>2 DEF NewRunSession
  <1> QED  BY <1>2, <1>4, <1>8, <1>9 DEF DraftInv

\* With BridgeInv, the text of every run is the log's and what is pending.
THEOREM DraftInvariant == Spec => [](BridgeInv /\ DraftInv)
  <1>1. Init => BridgeInv /\ DraftInv
    BY InitBridge, InitDraft
  <1>2. (BridgeInv /\ DraftInv) /\ [Next]_runVars => (BridgeInv /\ DraftInv)'
    BY BridgeStep, DraftStep
  <1> QED  BY <1>1, <1>2, PTL DEF Spec

\* flushDeltaBuffersLocked, OnRunEvent, Finish and Abort: no delta is lost, repeated or reordered; a
\* keyframe, and a frame that ends a run without a final text, hold the whole draft; and pending text
\* has a flush on its way.
THEOREM DraftsAreWholeCorrect == Spec => []DraftsAreWhole
  <1>1. BridgeInv /\ DraftInv => NoDeltaLost
    BY DEF DraftInv, Draftful, Exact, Rising, NoDeltaLost, Streamed
  <1>2. BridgeInv /\ DraftInv => KeyframesHoldTheDraft
    <2> SUFFICES ASSUME BridgeInv, DraftInv PROVE KeyframesHoldTheDraft
      OBVIOUS
    <2>1. DOMAIN Whole = 1..Len(Whole) /\ \A i \in 1..Len(Whole) : Keyed(Whole, i)
      BY WholeParts DEF BridgeInv, DraftInv, Draftful
    <2>2. \A i : DraftAt(i) = DraftIn(Whole, i)
      BY DEF DraftAt, DraftIn, From, Starts
    <2> QED  BY <2>1, <2>2 DEF KeyframesHoldTheDraft, Keyed, Held, BegunAt
  <1>3. Spec => [](NoDeltaLost /\ KeyframesHoldTheDraft)
    BY <1>1, <1>2, DraftInvariant, PTL
  <1>4. NoDeltaLost /\ KeyframesHoldTheDraft /\ PendingIsArmed => DraftsAreWhole
    BY DEF DraftsAreWhole
  <1> QED  BY <1>3, <1>4, PendingIsArmedCorrect, PTL

-----------------------------------------------------------------------------
(* Attempts: what starts and ends a draft. *)

\* Place i lies in an attempt of run r: one has begun, and since then no run has started or ended.
InAttempt(w, i, r) ==
    \E j \in 1..i : /\ w[j].kind = "ModelTurnStarted" /\ w[j].run = r
                    /\ \A k \in (j + 1)..i : w[k].kind \notin Terminal \cup {"RunStarted"}

\* Keyframes lie in an attempt of their run, and only the first frame opens the session.
Attempted ==
    \A i \in 1..Len(Whole) :
        /\ Whole[i].kind = "Snapshot" => InAttempt(Whole, i, Whole[i].run)
        /\ Whole[i].kind = "SessionOpened" => i = 1

\* So does what is pending, and what the engine still forwards.
AttemptInv ==
    /\ Attempted
    /\ stage = "attempt" \/ rs.answerPending # <<>> \/ rs.reasoningPending # <<>> =>
          InAttempt(Whole, Len(Whole), run)

\* A flush appends deltas and a keyframe.
Drafts == {f \in Frames : f.run = run /\ f.kind \in DeltaKinds \cup {"Snapshot"}}

LEMMA FlushIsDrafts ==
    ASSUME run \in 0..MaxSends, NEW s \in RunSessions
    PROVE  FlushFrames(s) \in Seq(Drafts)
  <1> DEFINE any == s.answerPending # <<>> \/ s.reasoningPending # <<>>
             a == IF s.answerPending # <<>>
                  THEN <<Frame("ModelTurnDelta", s.seq, s.answerPending, "")>> ELSE <<>>
             b == IF s.reasoningPending # <<>>
                  THEN <<Frame("ModelReasoningDelta", s.seq, s.reasoningPending, "")>> ELSE <<>>
             c == IF any THEN <<Frame("Snapshot", s.seq, s.answerSoFar, "")>> ELSE <<>>
  <1>1. /\ s.seq \in 0..MaxSends /\ s.answerPending \in Seq(Int) /\ s.reasoningPending \in Seq(Int)
        /\ s.answerSoFar \in Seq(Int)
    BY DEF RunSessions
  <1>2. {"ModelTurnDelta", "ModelReasoningDelta", "Snapshot"} \subseteq Kinds
    BY DEF Kinds, DeltaKinds
  <1>3. ASSUME NEW kind \in {"ModelTurnDelta", "ModelReasoningDelta", "Snapshot"}, NEW text \in Seq(Int)
        PROVE  Frame(kind, s.seq, text, "") \in Drafts
    <2>1. kind \in Kinds /\ s.seq \in 0..MaxSends /\ "" \in {"", "ABORTED", "COMPLETED", "FAILED"}
      BY <1>1, <1>2, <1>3
    <2>2. PICK f : f = Frame(kind, s.seq, text, "")
      OBVIOUS
    <2>3. f \in Frames /\ f.kind = kind /\ f.run = run
      BY <1>3, <2>1, <2>2, FrameIs
    <2> QED  BY <1>3, <2>2, <2>3 DEF Drafts, DeltaKinds
  <1>4. a \in Seq(Drafts)
    <2>1. Frame("ModelTurnDelta", s.seq, s.answerPending, "") \in Drafts
      BY <1>1, <1>3
    <2> QED  BY <2>1, OneOrNone
  <1>5. b \in Seq(Drafts)
    <2>1. Frame("ModelReasoningDelta", s.seq, s.reasoningPending, "") \in Drafts
      BY <1>1, <1>3
    <2> QED  BY <2>1, OneOrNone
  <1>6. c \in Seq(Drafts)
    <2>1. Frame("Snapshot", s.seq, s.answerSoFar, "") \in Drafts
      BY <1>1, <1>3
    <2> QED  BY <2>1, OneOrNone
  <1>7. FlushFrames(s) = a \o b \o c
    BY DEF FlushFrames
  <1> HIDE DEF a, b, c
  <1>8. a \o b \in Seq(Drafts)
    BY <1>4, <1>5, ConcatProperties
  <1>9. (a \o b) \o c \in Seq(Drafts)
    BY <1>6, <1>8, ConcatProperties
  <1> QED  BY <1>7, <1>9

\* An attempt goes on over frames that neither start nor end a run.
LEMMA AttemptGoesOn ==
    ASSUME NEW w, NEW v, NEW m \in Nat, NEW n \in Nat, m <= n, NEW r, InAttempt(w, m, r),
           \A i \in 1..m : v[i] = w[i],
           \A i \in (m + 1)..n : v[i].kind \notin Terminal \cup {"RunStarted"}
    PROVE  InAttempt(v, n, r)
  <1>1. PICK j \in 1..m : /\ w[j].kind = "ModelTurnStarted" /\ w[j].run = r
                          /\ \A k \in (j + 1)..m : w[k].kind \notin Terminal \cup {"RunStarted"}
    BY DEF InAttempt
  <1>2. \A k \in (j + 1)..n : (k \in (j + 1)..m /\ k \in 1..m) \/ k \in (m + 1)..n
    BY <1>1
  <1>3. j \in 1..n /\ v[j] = w[j]
    BY <1>1
  <1> QED  BY <1>1, <1>2, <1>3 DEF InAttempt

\* What a critical section appends: a flush of what is pending, and at most one frame more.
LEMMA AttemptAdds ==
    ASSUME Typed, AttemptInv, Unlocked, UNCHANGED <<stream, run>>, NEW s \in RunSessions,
           s.answerPending = rs.answerPending, s.reasoningPending = rs.reasoningPending,
           NEW rest \in Seq(Frames), Len(rest) <= 1, outbox' = FlushFrames(s) \o rest,
           \A i \in 1..Len(rest) : rest[i].kind \notin {"Snapshot", "SessionOpened"} /\ rest[i].run = run
    PROVE  /\ Attempted'
           /\ InAttempt(Whole, Len(Whole), run) /\ (\A i \in 1..Len(rest) : rest[i].kind \notin Terminal \cup {"RunStarted"})
                => InAttempt(Whole', Len(Whole'), run)
           /\ Len(rest) = 1 /\ rest[1].kind = "ModelTurnStarted" => InAttempt(Whole', Len(Whole'), run)
  <1> DEFINE q == FlushFrames(s)
             n == Len(Whole)
             v == Whole'
  <1>1. run \in 0..MaxSends /\ q \in Seq(Drafts) /\ q \in Seq(Frames) /\ Len(q) \in Nat
    <2>1. run \in 0..MaxSends
      BY RunsAssumption DEF Typed, TypeOK
    <2>2. q \in Seq(Drafts)
      BY <2>1, FlushIsDrafts
    <2>3. Drafts \subseteq Frames
      BY DEF Drafts
    <2> HIDE DEF q
    <2> QED  BY <2>1, <2>2, <2>3
  <1>2. \A i \in 1..Len(q) : q[i].kind \in DeltaKinds \cup {"Snapshot"} /\ q[i].run = run
    <2> HIDE DEF q
    <2> QED  BY <1>1 DEF Drafts
  <1>3. Len(q) # 0 => InAttempt(Whole, n, run)
    <2>1. s.answerPending = <<>> /\ s.reasoningPending = <<>> => q = <<>>
      BY FlushOfNothing
    <2>2. q = <<>> => Len(q) = 0
      OBVIOUS
    <2> QED  BY <2>1, <2>2 DEF AttemptInv
  <1>4. outbox' = q \o rest
    OBVIOUS
  <1> HIDE DEF q
  <1>5. /\ outbox' \in Seq(Frames) /\ Len(outbox') = Len(q) + Len(rest) /\ Len(rest) \in 0..1
        /\ \A i \in 1..Len(q) : outbox'[i] = q[i]
        /\ Len(rest) = 1 => outbox'[Len(q) + 1] = rest[1]
    <2>0. Len(rest) \in 0..1
      <3>1. PICK k \in Nat : k = Len(rest) /\ k <= 1
        OBVIOUS
      <3>2. k \in 0..1
        BY <3>1
      <3> QED  BY <3>1, <3>2, Zenon
    <2>1. outbox' \in Seq(Frames) /\ Len(outbox') = Len(q) + Len(rest)
      BY <1>1, <1>4, ConcatProperties
    <2>2. \A i \in 1..Len(q) : outbox'[i] = q[i]
      BY <1>1, <1>4, ConcatProperties
    <2>3. Len(rest) = 1 => outbox'[Len(q) + 1] = rest[1]
      BY <1>1, <1>4, ConcatProperties
    <2> QED  BY <2>0, <2>1, <2>2, <2>3
  <1>6. /\ n \in Nat /\ Len(v) = n + Len(q) + Len(rest)
        /\ \A i \in 1..n : v[i] = Whole[i]
        /\ \A i \in 1..Len(q) : v[n + i] = q[i]
        /\ Len(rest) = 1 => v[n + Len(q) + 1] = rest[1]
    <2>1. /\ Len(Whole') = Len(Whole) + Len(outbox') /\ n \in Nat
          /\ \A i \in 1..Len(Whole) : Whole'[i] = Whole[i]
          /\ \A i \in 1..Len(outbox') : Whole'[Len(Whole) + i] = outbox'[i]
      BY <1>5, WholeGrows
    <2>2. \A i \in 1..Len(q) : i \in 1..Len(outbox')
      BY <1>1, <1>5
    <2>3. Len(rest) = 1 => Len(q) + 1 \in 1..Len(outbox') /\ n + (Len(q) + 1) = n + Len(q) + 1
      BY <1>1, <1>5, <2>1
    <2>4. \A i \in 1..Len(q) : v[n + i] = q[i]
      BY <1>5, <2>1, <2>2
    <2>5. Len(rest) = 1 => v[n + (Len(q) + 1)] = rest[1]
      BY <1>5, <2>1, <2>3
    <2>6. Len(v) = n + Len(q) + Len(rest)
      BY <1>1, <1>5, <2>1
    <2> QED  BY <2>1, <2>3, <2>4, <2>5, <2>6
  <1>7. \A i \in 1..Len(v) : i \in 1..n \/ (i - n \in 1..Len(q) /\ v[i] = q[i - n])
                             \/ (Len(rest) = 1 /\ i = n + Len(q) + 1 /\ v[i] = rest[1])
    <2> SUFFICES ASSUME NEW i \in 1..Len(v), i \notin 1..n
                 PROVE  (i - n \in 1..Len(q) /\ v[i] = q[i - n])
                             \/ (Len(rest) = 1 /\ i = n + Len(q) + 1 /\ v[i] = rest[1])
      OBVIOUS
    <2> HIDE DEF v, n
    <2>1. CASE i = n + Len(q) + 1
      <3>1. Len(rest) = 1
        BY <1>1, <1>5, <1>6, <2>1
      <3> QED  BY <1>6, <2>1, <3>1
    <2>2. CASE i # n + Len(q) + 1
      <3>1. i - n \in 1..Len(q)
        BY <1>1, <1>5, <1>6, <2>2
      <3>2. n + (i - n) = i
        BY <1>6
      <3>3. v[n + (i - n)] = q[i - n]
        BY <1>6, <3>1
      <3> QED  BY <3>1, <3>2, <3>3
    <2> QED  BY <2>1, <2>2
  <1>8. ASSUME NEW m \in Nat, n <= m, m <= n + Len(q), InAttempt(Whole, n, run)
        PROVE  InAttempt(v, m, run)
    <2>1. ASSUME NEW i \in (n + 1)..m PROVE v[i].kind \notin Terminal \cup {"RunStarted"}
      <3>1. i \in 1..Len(v) /\ i \notin 1..n /\ i # n + Len(q) + 1
        BY <1>1, <1>5, <1>6, <1>8
      <3>2. v[i].kind \in DeltaKinds \cup {"Snapshot"}
        BY <1>2, <1>7, <3>1
      <3> QED  BY <3>2 DEF DeltaKinds, Terminal
    <2> HIDE DEF v, n
    <2> QED  BY <1>6, <1>8, <2>1, AttemptGoesOn
  <1>9. Attempted'
    <2> SUFFICES ASSUME NEW i \in 1..Len(v)
                 PROVE  /\ v[i].kind = "Snapshot" => InAttempt(v, i, v[i].run)
                        /\ v[i].kind = "SessionOpened" => i = 1
      BY DEF Attempted
    <2>1. CASE i \in 1..n
      <3>1. v[i] = Whole[i]
        BY <1>6, <2>1
      <3>2. /\ Whole[i].kind = "Snapshot" => InAttempt(Whole, i, Whole[i].run)
            /\ Whole[i].kind = "SessionOpened" => i = 1
        BY <2>1 DEF AttemptInv, Attempted
      <3>3. ASSUME InAttempt(Whole, i, Whole[i].run) PROVE InAttempt(v, i, Whole[i].run)
        <4>1. i \in Nat /\ \A k \in 1..i : v[k] = Whole[k]
          BY <1>6, <2>1
        <4>2. \A k \in (i + 1)..i : v[k].kind \notin Terminal \cup {"RunStarted"}
          BY <4>1
        <4> HIDE DEF v, n
        <4> QED  BY <3>3, <4>1, <4>2, AttemptGoesOn
      <3> QED  BY <3>1, <3>2, <3>3
    <2>2. CASE i \notin 1..n /\ i - n \in 1..Len(q) /\ v[i] = q[i - n]
      <3>1. v[i].kind \in DeltaKinds \cup {"Snapshot"} /\ v[i].run = run
        BY <1>2, <2>2
      <3>2. i \in Nat /\ n <= i /\ i <= n + Len(q) /\ Len(q) # 0
        BY <1>1, <1>6, <2>2
      <3>3. InAttempt(v, i, run)
        BY <1>3, <1>8, <3>2
      <3> QED  BY <3>1, <3>3 DEF DeltaKinds
    <2>3. CASE Len(rest) = 1 /\ v[i] = rest[1]
      <3>1. 1 \in 1..Len(rest)
        BY <2>3
      <3> QED  BY <2>3, <3>1
    <2> QED  BY <1>7, <2>1, <2>2, <2>3
  <1>10. ASSUME InAttempt(Whole, n, run), \A i \in 1..Len(rest) : rest[i].kind \notin Terminal \cup {"RunStarted"}
         PROVE  InAttempt(v, Len(v), run)
    <2>1. InAttempt(v, n + Len(q), run) /\ n + Len(q) \in Nat
      BY <1>1, <1>6, <1>8, <1>10
    <2>2. ASSUME NEW i \in ((n + Len(q)) + 1)..Len(v) PROVE v[i].kind \notin Terminal \cup {"RunStarted"}
      <3>1. i \in 1..Len(v) /\ i \notin 1..n /\ i - n \notin 1..Len(q)
        BY <1>1, <1>5, <1>6
      <3>2. Len(rest) = 1 /\ v[i] = rest[1]
        BY <1>7, <3>1
      <3> QED  BY <1>10, <3>2
    <2>3. Len(v) \in Nat /\ n + Len(q) <= Len(v)
      BY <1>1, <1>5, <1>6
    <2>4. \A i \in 1..(n + Len(q)) : v[i] = v[i]
      OBVIOUS
    <2> HIDE DEF v, n
    <2> QED  BY <2>1, <2>2, <2>3, <2>4, AttemptGoesOn
  <1>11. ASSUME Len(rest) = 1, rest[1].kind = "ModelTurnStarted" PROVE InAttempt(v, Len(v), run)
    <2>1. Len(v) \in 1..Len(v) /\ Len(v) = n + Len(q) + 1 /\ v[Len(v)] = rest[1] /\ 1 \in 1..Len(rest)
      BY <1>1, <1>6, <1>11
    <2>2. \A k \in (Len(v) + 1)..Len(v) : FALSE
      BY <2>1
    <2>3. rest[1].run = run
      BY <2>1
    <2> QED  BY <1>11, <2>1, <2>2, <2>3 DEF InAttempt
  <1> QED  BY <1>9, <1>10, <1>11

\* What an event of the engine does to the attempt.
LEMMA EventAttempt ==
    ASSUME BridgeInv, AttemptInv, pc = "replying", stage # "done", Unlocked, UNCHANGED <<stream, run>>,
           NEW kind \in EventKinds, NEW seq \in {0, run}, NEW text \in Seq(Int), NEW err \in Results,
           OnRunEvent(kind, seq, text, err),
           kind \in DeltaKinds => stage = "attempt",
           stage' = "attempt" => \/ stage = "attempt" /\ kind \notin Terminal \cup {"RunStarted"}
                                 \/ kind = "ModelTurnStarted"
    PROVE  AttemptInv'
  <1>1. /\ Typed /\ rs \in RunSessions /\ ~rs.finished /\ ~rs.terminalEmitted
        /\ run \in 0..MaxSends /\ seq \in 0..MaxSends
    <2>1. Typed /\ Reported /\ Placed
      BY DEF BridgeInv
    <2>2. rs \in RunSessions /\ run \in 0..sent /\ sent \in 0..MaxSends
      BY <2>1 DEF Typed, TypeOK
    <2>3. run \in 0..MaxSends /\ seq \in 0..MaxSends
      BY <2>2, RunsAssumption
    <2>4. ~rs.finished /\ ~rs.terminalEmitted
      BY <2>1 DEF Reported, Placed, Closed
    <2> QED  BY <2>1, <2>2, <2>3, <2>4
  <1>2. PICK s : s = Stamped(seq)
    OBVIOUS
  <1>3. /\ s \in RunSessions
        /\ s.answerPending = rs.answerPending /\ s.reasoningPending = rs.reasoningPending
    BY <1>1, <1>2, StampedSound, StampedText
  <1>4. \/ kind \in DeltaKinds /\ UNCHANGED outbox
        \/ /\ kind \in Terminal
           /\ rs' = [Flushed(s) EXCEPT !.terminalEmitted = TRUE]
           /\ outbox' = FlushFrames(s) \o
                <<Frame(kind, seq, IF kind = "RunFailed" /\ text = <<>> THEN s.answerSoFar ELSE text,
                        FinishTerminalStatus(err))>>
        \/ /\ kind \in {"RunStarted", "ModelTurnStarted", "Tool"}
           /\ rs' = IF kind = "ModelTurnStarted"
                    THEN [Flushed(s) EXCEPT !.answerSoFar = <<>>] ELSE Flushed(s)
           /\ outbox' = FlushFrames(s) \o <<Frame(kind, seq, <<>>, "")>>
    BY <1>1, <1>2 DEF OnRunEvent, DeltaKinds
  <1>5. CASE kind \in DeltaKinds /\ UNCHANGED outbox
    <2>1. Whole' = Whole
      BY <1>5 DEF Whole
    <2>2. Attempted /\ InAttempt(Whole, Len(Whole), run)
      BY <1>5 DEF AttemptInv
    <2> QED  BY <2>1, <2>2 DEF AttemptInv, Attempted
  <1>6. ASSUME NEW f \in Frames, f.kind = kind, f.run = run, kind \notin DeltaKinds,
               outbox' = FlushFrames(s) \o <<f>>, rs'.answerPending = <<>>, rs'.reasoningPending = <<>>
        PROVE  AttemptInv'
    <2>1. PICK rest \in Seq(Frames) : rest = <<f>> /\ Len(rest) = 1 /\ rest[1] = f /\ \A i \in 1..Len(rest) : rest[i] = f
      <3>1. <<f>> \in Seq(Frames) /\ Len(<<f>>) = 1 /\ <<f>>[1] = f /\ \A i \in 1..1 : <<f>>[i] = f
        OBVIOUS
      <3> QED  BY <3>1
    <2>2. kind \notin {"Snapshot", "SessionOpened"}
      BY <1>6 DEF EventKinds, Terminal
    <2>3. \A i \in 1..Len(rest) : rest[i].kind = kind /\ rest[i].run = run
      BY <1>6, <2>1
    <2>4. outbox' = FlushFrames(s) \o rest /\ Len(rest) <= 1
      BY <1>6, <2>1
    <2>5. /\ Attempted'
          /\ InAttempt(Whole, Len(Whole), run) /\ (\A i \in 1..Len(rest) : rest[i].kind \notin Terminal \cup {"RunStarted"})
                => InAttempt(Whole', Len(Whole'), run)
          /\ Len(rest) = 1 /\ rest[1].kind = "ModelTurnStarted" => InAttempt(Whole', Len(Whole'), run)
      BY <1>1, <1>3, <2>2, <2>3, <2>4, AttemptAdds
    <2>6. stage' = "attempt" => InAttempt(Whole', Len(Whole'), run)
      <3>1. stage = "attempt" => InAttempt(Whole, Len(Whole), run)
        BY DEF AttemptInv
      <3> QED  BY <1>6, <2>1, <2>3, <2>5, <3>1
    <2> QED  BY <1>6, <2>5, <2>6 DEF AttemptInv
  <1>7. CASE kind \in Terminal \cup {"RunStarted", "ModelTurnStarted", "Tool"} /\ kind \notin DeltaKinds
    <2>1. PICK f : outbox' = FlushFrames(s) \o <<f>> /\ f.kind = kind /\ f.run = run /\ f \in Frames
      <3>1. CASE kind \in Terminal
        <4>1. PICK t \in Seq(Int) : t = IF kind = "RunFailed" /\ text = <<>> THEN s.answerSoFar ELSE text
          BY <1>3 DEF RunSessions
        <4>2. FinishTerminalStatus(err) \in {"", "ABORTED", "COMPLETED", "FAILED"} /\ kind \in Kinds
          BY <3>1 DEF FinishTerminalStatus, RunFailedStatus, Kinds
        <4>3. PICK f : f = Frame(kind, seq, t, FinishTerminalStatus(err))
          OBVIOUS
        <4>4. outbox' = FlushFrames(s) \o <<f>>
          <5>1. kind \notin {"RunStarted", "ModelTurnStarted", "Tool"}
            BY <3>1 DEF Terminal
          <5> QED  BY <1>4, <1>7, <3>1, <4>1, <4>3, <5>1
        <4> QED  BY <1>1, <4>2, <4>3, <4>4, FrameIs
      <3>2. CASE kind \in {"RunStarted", "ModelTurnStarted", "Tool"}
        <4>1. <<>> \in Seq(Int) /\ "" \in {"", "ABORTED", "COMPLETED", "FAILED"} /\ kind \in Kinds /\ kind \notin Terminal
          BY <3>2 DEF Kinds, Terminal
        <4>2. PICK f : f = Frame(kind, seq, <<>>, "")
          OBVIOUS
        <4>3. outbox' = FlushFrames(s) \o <<f>>
          BY <1>4, <1>7, <4>1, <4>2
        <4> QED  BY <1>1, <4>1, <4>2, <4>3, FrameIs
      <3> QED  BY <1>7, <3>1, <3>2
    <2>2. rs'.answerPending = <<>> /\ rs'.reasoningPending = <<>>
      <3>1. PICK t : t = Flushed(s)
        OBVIOUS
      <3>2. t \in RunSessions /\ t.answerPending = <<>> /\ t.reasoningPending = <<>>
        BY <1>3, <3>1, FlushedSound
      <3>3. \/ rs' = [t EXCEPT !.terminalEmitted = TRUE]
            \/ rs' = [t EXCEPT !.answerSoFar = <<>>]
            \/ rs' = t
        BY <1>4, <1>7, <3>1
      <3> QED  BY <3>2, <3>3 DEF RunSessions
    <2> QED  BY <1>6, <1>7, <2>1, <2>2
  <1> QED  BY <1>4, <1>5, <1>7 DEF DeltaKinds, Terminal

\* Steps that leave the frames and the run alone, and start no attempt.
LEMMA AttemptUntouched ==
    ASSUME AttemptInv, Whole' = Whole, run' = run, stage' = "attempt" => stage = "attempt",
           rs'.answerPending = rs.answerPending, rs'.reasoningPending = rs.reasoningPending
    PROVE  AttemptInv'
  BY DEF AttemptInv, Attempted

LEMMA EngineAttempt == BridgeInv /\ AttemptInv /\ EngineStep => AttemptInv'
  <1> SUFFICES ASSUME BridgeInv, AttemptInv, EngineStep PROVE AttemptInv'
    OBVIOUS
  <1>1. <<>> \in Seq(Int) /\ Final \in Seq(Int) /\ tokens \in Int
    BY DEF Final, BridgeInv, Typed, TypeOK
  <1>2. <<tokens + 1>> \in Seq(Int)
    BY <1>1
  <1>3. TurnSeqOf(run) \in {0, run} /\ 0 \in {0, run}
    BY DEF TurnSeqOf
  <1>4. /\ "RunStarted" \notin DeltaKinds /\ "ModelTurnStarted" \notin DeltaKinds /\ "Tool" \notin DeltaKinds
        /\ "Tool" \notin Terminal \cup {"RunStarted"} /\ \A k \in DeltaKinds : k \notin Terminal \cup {"RunStarted"}
        /\ "RunFailed" \notin DeltaKinds /\ "RunFinished" \notin DeltaKinds
        /\ {"RunStarted", "ModelTurnStarted", "Tool", "RunFailed", "RunFinished"} \cup DeltaKinds = EventKinds
        /\ {"nil", "canceled", "other", "stop"} = Results
    BY DEF Terminal, DeltaKinds, EventKinds, Results
  <1>5. CASE RefuseMessage \/ ReserveTurnSeq
    <2>1. Whole' = Whole /\ run' = run /\ rs' = rs /\ stage' # "attempt"
      BY <1>5 DEF RefuseMessage, ReserveTurnSeq, engineVars, Whole
    <2> QED  BY <2>1, AttemptUntouched
  <1>6. CASE RunStarted
    <2>1. /\ pc = "replying" /\ stage # "done" /\ Unlocked /\ UNCHANGED <<stream, run>>
          /\ OnRunEvent("RunStarted", TurnSeqOf(run), <<>>, "nil") /\ stage' # "attempt"
      BY <1>6 DEF RunStarted, Engine, engineVars
    <2>2. "RunStarted" \in EventKinds /\ "nil" \in Results
      BY <1>4
    <2> QED  BY <1>1, <1>3, <1>4, <2>1, <2>2, EventAttempt
  <1>7. CASE ModelTurnStarted
    <2>1. /\ pc = "replying" /\ stage # "done" /\ Unlocked /\ UNCHANGED <<stream, run>>
          /\ OnRunEvent("ModelTurnStarted", TurnSeqOf(run), <<>>, "nil")
      BY <1>7 DEF ModelTurnStarted, Engine, engineVars
    <2>2. "ModelTurnStarted" \in EventKinds /\ "nil" \in Results
      BY <1>4
    <2> QED  BY <1>1, <1>3, <1>4, <2>1, <2>2, EventAttempt
  <1>8. CASE ToolEvent
    <2>1. /\ pc = "replying" /\ stage # "done" /\ Unlocked /\ UNCHANGED <<stream, run>>
          /\ OnRunEvent("Tool", TurnSeqOf(run), <<>>, "nil") /\ stage = "attempt"
      BY <1>8 DEF ToolEvent, Engine, engineVars
    <2>2. "Tool" \in EventKinds /\ "nil" \in Results
      BY <1>4
    <2> QED  BY <1>1, <1>3, <1>4, <2>1, <2>2, EventAttempt
  <1>9. CASE RunFinishes
    <2>1. /\ pc = "replying" /\ stage # "done" /\ Unlocked /\ UNCHANGED <<stream, run>>
          /\ OnRunEvent("RunFinished", TurnSeqOf(run), Final, "nil") /\ stage' = "done"
      BY <1>9 DEF RunFinishes, Engine, engineVars
    <2>2. "RunFinished" \in EventKinds /\ "nil" \in Results
      BY <1>4
    <2> QED  BY <1>1, <1>3, <1>4, <2>1, <2>2, EventAttempt
  <1>10. ASSUME NEW k \in DeltaKinds, Delta(k) PROVE AttemptInv'
    <2>1. /\ pc = "replying" /\ stage # "done" /\ Unlocked /\ UNCHANGED <<stream, run>>
          /\ OnRunEvent(k, TurnSeqOf(run), <<tokens + 1>>, "nil") /\ stage = "attempt"
      BY <1>10 DEF Delta, Engine, engineVars
    <2>2. k \in EventKinds /\ "nil" \in Results /\ k \notin Terminal \cup {"RunStarted"}
      BY <1>4
    <2> QED  BY <1>2, <1>3, <2>1, <2>2, EventAttempt
  <1>11. ASSUME NEW err \in Errors, ReserveFails(err) PROVE AttemptInv'
    <2>1. /\ pc = "replying" /\ stage # "done" /\ Unlocked /\ UNCHANGED <<stream, run>>
          /\ OnRunEvent("RunFailed", 0, <<>>, err) /\ stage' = "done"
      BY <1>11 DEF ReserveFails, Engine, engineVars
    <2>2. "RunFailed" \in EventKinds /\ err \in Results
      BY <1>4, <1>11 DEF Errors
    <2> QED  BY <1>1, <1>3, <1>4, <2>1, <2>2, EventAttempt
  <1>12. ASSUME NEW err \in Errors \cup {"stop"}, NEW text \in {<<>>, Final}, RunFails(err, text) PROVE AttemptInv'
    <2>1. /\ pc = "replying" /\ stage # "done" /\ Unlocked /\ UNCHANGED <<stream, run>>
          /\ OnRunEvent("RunFailed", TurnSeqOf(run), text, err) /\ stage' = "done"
      BY <1>12 DEF RunFails, Engine, engineVars
    <2>2. "RunFailed" \in EventKinds /\ err \in Results /\ text \in Seq(Int)
      BY <1>1, <1>4, <1>12 DEF Errors
    <2> QED  BY <1>3, <1>4, <2>1, <2>2, EventAttempt
  <1> QED  BY <1>5, <1>6, <1>7, <1>8, <1>9, <1>10, <1>11, <1>12 DEF EngineStep, DeltaKinds

\* A close flushes, and adds the terminal frame if the engine did not.
LEMMA CloseAttempt == BridgeInv /\ AttemptInv /\ (AbortRun \/ FinishRun) => AttemptInv'
  <1> SUFFICES ASSUME BridgeInv, AttemptInv, AbortRun \/ FinishRun PROVE AttemptInv'
    OBVIOUS
  <1>1. /\ Typed /\ rs \in RunSessions /\ run \in 0..MaxSends /\ stage = "done"
        /\ rs.answerSoFar \in Seq(Int) /\ rs.seq \in 0..MaxSends /\ Final \in Seq(Int) /\ ErrorText \in Seq(Int)
    <2>1. Typed /\ Reported
      BY DEF BridgeInv
    <2>2. rs \in RunSessions /\ run \in 0..sent /\ sent \in 0..MaxSends
      BY <2>1 DEF Typed, TypeOK
    <2>3. pc = "returned"
      BY DEF AbortRun, FinishRun
    <2>4. stage = "done"
      BY <2>1, <2>3 DEF Reported
    <2>5. run \in 0..MaxSends
      BY <2>2, RunsAssumption
    <2> QED  BY <2>1, <2>2, <2>4, <2>5 DEF RunSessions, Final, ErrorText
  <1>2. PICK f \in Frames :
          /\ f.run = run /\ f.kind \in Terminal
          /\ Unlocked /\ rs' = [Flushed(rs) EXCEPT !.finished = TRUE, !.terminalEmitted = TRUE]
          /\ outbox' = FlushFrames(rs) \o (IF rs.terminalEmitted THEN <<>> ELSE <<f>>)
          /\ UNCHANGED <<run, stage, stream>>
    <2>1. ASSUME NEW kind \in Terminal, NEW text \in Seq(Int), NEW status \in {"ABORTED", "COMPLETED", "FAILED"}
          PROVE  /\ Frame(kind, rs.seq, text, status) \in Frames /\ Frame(kind, rs.seq, text, status).run = run
                 /\ Frame(kind, rs.seq, text, status).kind \in Terminal
      <3>1. kind \in Kinds /\ status \in {"", "ABORTED", "COMPLETED", "FAILED"}
        BY <2>1 DEF Kinds
      <3>2. PICK g : g = Frame(kind, rs.seq, text, status)
        OBVIOUS
      <3>3. g \in Frames /\ g.kind = kind /\ g.run = run
        BY <1>1, <2>1, <3>1, <3>2 DEF Frame, Frames
      <3> QED  BY <2>1, <3>2, <3>3
    <2>2. CASE AbortRun
      <3>1. PICK g : g = Frame("RunFinished", rs.seq, rs.answerSoFar, "ABORTED")
        OBVIOUS
      <3>2. g \in Frames /\ g.run = run /\ g.kind \in Terminal
        <4>1. "RunFinished" \in Terminal
          BY DEF Terminal
        <4> QED  BY <1>1, <2>1, <3>1, <4>1
      <3>3. CloseRun(AbortFrame, "aborting") /\ AbortFrame = (IF rs.terminalEmitted THEN <<>> ELSE <<g>>)
        BY <2>2, <3>1 DEF AbortRun, AbortFrame, Closing
      <3> QED  BY <3>2, <3>3 DEF CloseRun
    <2>3. CASE FinishRun
      <3>1. PICK status \in {"ABORTED", "COMPLETED", "FAILED"} : status = FinishTerminalStatus(result)
        BY DEF FinishTerminalStatus, RunFailedStatus
      <3>2. PICK kind \in Terminal : kind = IF status = "FAILED" THEN "RunFailed" ELSE "RunFinished"
        BY DEF Terminal
      <3>3. PICK text \in Seq(Int) : text = (IF result = "nil" THEN Final ELSE ErrorText)
        BY <1>1
      <3>4. PICK g : g = Frame(kind, rs.seq, text, status)
        OBVIOUS
      <3>5. g \in Frames /\ g.run = run /\ g.kind \in Terminal
        BY <2>1, <3>4
      <3>6. CloseRun(FinishFrame, "finishing") /\ FinishFrame = (IF rs.terminalEmitted THEN <<>> ELSE <<g>>)
        BY <2>3, <3>1, <3>2, <3>3, <3>4 DEF FinishRun, FinishFrame, Closing
      <3> QED  BY <3>5, <3>6 DEF CloseRun
    <2> QED  BY <2>2, <2>3
  <1>3. rs'.answerPending = <<>> /\ rs'.reasoningPending = <<>>
    <2>1. PICK t : t = Flushed(rs)
      OBVIOUS
    <2>2. t \in RunSessions /\ t.answerPending = <<>> /\ t.reasoningPending = <<>>
      BY <1>1, <2>1, FlushedSound
    <2>3. rs' = [t EXCEPT !.finished = TRUE, !.terminalEmitted = TRUE]
      BY <1>2, <2>1
    <2> QED  BY <2>2, <2>3 DEF RunSessions
  <1>4. PICK rest \in Seq(Frames) : /\ rest = (IF rs.terminalEmitted THEN <<>> ELSE <<f>>) /\ Len(rest) <= 1
                                    /\ \A i \in 1..Len(rest) : rest[i] = f
    <2>1. CASE rs.terminalEmitted
      <3>1. <<>> \in Seq(Frames) /\ Len(<<>>) = 0 /\ 0 <= 1 /\ \A i \in 1..0 : FALSE
        OBVIOUS
      <3> QED  BY <2>1, <3>1
    <2>2. CASE ~rs.terminalEmitted
      <3>1. <<f>> \in Seq(Frames) /\ Len(<<f>>) = 1 /\ 1 <= 1 /\ \A i \in 1..1 : <<f>>[i] = f
        OBVIOUS
      <3> QED  BY <2>2, <3>1
    <2> QED  BY <2>1, <2>2
  <1>5. f.kind \notin {"Snapshot", "SessionOpened"}
    BY <1>2 DEF Terminal
  <1>6. outbox' = FlushFrames(rs) \o rest
    BY <1>2, <1>4
  <1>7. Attempted'
    BY <1>1, <1>2, <1>4, <1>5, <1>6, AttemptAdds
  <1> QED  BY <1>1, <1>2, <1>3, <1>7 DEF AttemptInv

LEMMA AttemptStep == BridgeInv /\ AttemptInv /\ [Next]_runVars => AttemptInv'
  <1> SUFFICES ASSUME BridgeInv, AttemptInv, [Next]_runVars PROVE AttemptInv'
    OBVIOUS
  <1>1. Typed /\ rs \in RunSessions
    BY DEF BridgeInv, Typed
  <1>2. CASE Rpc \/ Shutdown \/ UNCHANGED runVars
    <2>1. Whole' = Whole /\ run' = run /\ rs' = rs /\ stage' = stage
      BY <1>2 DEF Rpc, SendMessage, Abort, Shutdown, runVars, Whole
    <2> QED  BY <2>1, AttemptUntouched
  <1>3. CASE SetCancel \/ ReplyReturns \/ ReturnToIdle \/ StopWorker
    <2>1. Whole' = Whole /\ run' = run /\ rs' = rs /\ stage' = stage
      BY <1>3 DEF SetCancel, ReplyReturns, ReturnToIdle, StopWorker, Whole
    <2> QED  BY <2>1, AttemptUntouched
  <1>4. CASE OpenSession
    <2>1. Whole' = Whole /\ rs' = NewRunSession /\ stage' = "start"
      BY <1>4 DEF OpenSession, Whole
    <2>2. rs'.answerPending = <<>> /\ rs'.reasoningPending = <<>>
      BY <2>1 DEF NewRunSession
    <2> QED  BY <2>1, <2>2 DEF AttemptInv, Attempted
  <1>5. CASE AbortRun \/ FinishRun
    BY <1>5, CloseAttempt
  <1>6. CASE EngineStep
    BY <1>6, EngineAttempt
  <1>7. CASE TimerFires
    <2>1. Whole' = Whole /\ run' = run /\ stage' = stage /\ rs' = [rs EXCEPT !.timer = "fired"]
      BY <1>7 DEF TimerFires, Whole
    <2>2. rs'.answerPending = rs.answerPending /\ rs'.reasoningPending = rs.reasoningPending
      BY <1>1, <2>1 DEF RunSessions
    <2> QED  BY <2>1, <2>2, AttemptUntouched
  <1>8. ASSUME NEW r \in Runs, FlushDeltaBuffers(r) PROVE AttemptInv'
    <2>1. run' = run /\ stage' = stage /\ stream' = stream
      BY <1>8 DEF FlushDeltaBuffers
    <2>2. CASE r # run \/ rs.finished
      <3>1. rs' = rs /\ Whole' = Whole
        BY <1>8, <2>2 DEF FlushDeltaBuffers, Whole
      <3> QED  BY <2>1, <3>1, AttemptUntouched
    <2>3. CASE ~(r # run \/ rs.finished)
      <3>1. rs' = Flushed(rs) /\ outbox' = FlushFrames(rs) /\ Unlocked
        BY <1>8, <2>3 DEF FlushDeltaBuffers
      <3>2. rs'.answerPending = <<>> /\ rs'.reasoningPending = <<>>
        BY <1>1, <3>1, FlushedText
      <3>3. PICK rest \in Seq(Frames) : rest = <<>> /\ Len(rest) = 0
        <4>1. <<>> \in Seq(Frames) /\ Len(<<>>) = 0
          OBVIOUS
        <4> QED  BY <4>1
      <3>4. outbox' = FlushFrames(rs) \o rest /\ Len(rest) <= 1 /\ \A i \in 1..Len(rest) : FALSE
        <4>1. run \in 0..MaxSends
          BY <1>1, RunsAssumption DEF Typed, TypeOK
        <4>2. PICK q \in Seq(Drafts) : q = FlushFrames(rs)
          BY <1>1, <4>1, FlushIsDrafts
        <4>3. q \o <<>> = q
          OBVIOUS
        <4> QED  BY <3>1, <3>3, <4>2, <4>3
      <3>5. /\ Attempted'
            /\ InAttempt(Whole, Len(Whole), run) => InAttempt(Whole', Len(Whole'), run)
        BY <1>1, <2>1, <3>1, <3>4, AttemptAdds
      <3> QED  BY <2>1, <3>2, <3>5 DEF AttemptInv
    <2> QED  BY <2>2, <2>3
  <1>9. CASE AppendFrame
    <2>1. Whole' = Whole
      BY <1>1, <1>9, WholeMoves
    <2>2. run' = run /\ stage' = stage /\ rs' = rs
      BY <1>9 DEF AppendFrame
    <2> QED  BY <2>1, <2>2, AttemptUntouched
  <1> QED  BY <1>2, <1>3, <1>4, <1>5, <1>6, <1>7, <1>8, <1>9 DEF Next, Worker, Timer

LEMMA InitAttempt == Init => AttemptInv
  <1> SUFFICES ASSUME Init PROVE AttemptInv
    OBVIOUS
  <1>1. PICK f : f = [kind |-> "SessionOpened", run |-> 0, turn |-> 0, text |-> <<>>, status |-> ""]
    OBVIOUS
  <1>2. stream = <<f>> /\ outbox = <<>> /\ stage = "done" /\ rs = [NewRunSession EXCEPT !.finished = TRUE]
    BY <1>1 DEF Init
  <1>3. Whole = <<f>> /\ f.kind = "SessionOpened"
    <2>1. <<f>> \o <<>> = <<f>>
      OBVIOUS
    <2> QED  BY <1>1, <1>2, <2>1 DEF Whole
  <1>4. \A i \in 1..Len(Whole) : Whole[i] = f /\ i = 1
    BY <1>3
  <1>5. rs.answerPending = <<>> /\ rs.reasoningPending = <<>>
    BY <1>2 DEF NewRunSession
  <1> QED  BY <1>2, <1>3, <1>4, <1>5 DEF AttemptInv, Attempted

-----------------------------------------------------------------------------
(* The browser's view of the log. *)

Logs == INSTANCE SessionEventLogProofs WITH Watchers <- {Browser}

\* The frames after which a draft is empty, the last of them up to place i, and
\* the text of a kind that a browser shows which has received every frame up to i.
Resets == Terminal \cup {"RunStarted", "ModelTurnStarted"}
ResetsAt(w, i) == {j \in 1..i : w[j].kind \in Resets}
Since(w, i) == IF ResetsAt(w, i) = {} THEN 1 ELSE Max(ResetsAt(w, i))
ShownText(w, i, kind) == TextOf(SubSeq(w, Since(w, i), i), {kind})

LEMMA SinceIs ==
    ASSUME NEW w, NEW i \in Nat
    PROVE  Since(w, i) \in Nat /\ 1 <= Since(w, i) /\ (Since(w, i) <= i \/ Since(w, i) = 1)
  <1>1. ResetsAt(w, i) \subseteq 1..i
    BY DEF ResetsAt
  <1> QED  BY <1>1, GreatestOf DEF Since

LEMMA SubNext ==
    ASSUME NEW S, NEW w \in Seq(S), NEW i \in Nat, i < Len(w), NEW a \in 1..(i + 1)
    PROVE  /\ SubSeq(w, a, i + 1) = Append(SubSeq(w, a, i), w[i + 1])
           /\ SubSeq(w, a, i) \in Seq(S) /\ w[i + 1] \in S
  OBVIOUS

LEMMA SubSame ==
    ASSUME NEW S, NEW w \in Seq(S), NEW v \in Seq(S), NEW i \in Nat, i <= Len(w), i <= Len(v), NEW a \in 1..(i + 1),
           \A j \in 1..i : v[j] = w[j]
    PROVE  SubSeq(v, a, i) = SubSeq(w, a, i) /\ SubSeq(w, a, i) \in Seq(S)
  OBVIOUS

LEMMA SinceRange ==
    ASSUME NEW w, NEW i \in Nat
    PROVE  \E a \in 1..(i + 1) : a = Since(w, i)
  BY SinceIs

LEMMA ShownTyped ==
    ASSUME NEW w \in Seq(Frames), NEW i \in Nat, i <= Len(w), NEW kind
    PROVE  ShownText(w, i, kind) \in Seq(Int)
  <1>1. PICK a \in 1..(i + 1) : a = Since(w, i)
    BY SinceRange
  <1>2. SubSeq(w, a, i) \in Seq(Frames)
    BY SubSame
  <1> QED  BY <1>1, <1>2, TextTyped DEF ShownText

\* What is shown of a log depends on the frames received alone ...
LEMMA ShownSame ==
    ASSUME NEW w \in Seq(Frames), NEW v \in Seq(Frames), NEW i \in Nat, i <= Len(w), i <= Len(v),
           \A j \in 1..i : v[j] = w[j], NEW kind
    PROVE  ShownText(v, i, kind) = ShownText(w, i, kind)
  <1>1. ResetsAt(v, i) = ResetsAt(w, i)
    BY DEF ResetsAt
  <1>2. PICK a \in 1..(i + 1) : a = Since(w, i)
    BY SinceRange
  <1>3. Since(v, i) = a
    BY <1>1, <1>2 DEF Since
  <1>4. SubSeq(v, a, i) = SubSeq(w, a, i)
    BY SubSame
  <1> QED  BY <1>2, <1>3, <1>4 DEF ShownText

LEMMA ShownFirst == ASSUME NEW w \in Seq(Frames), NEW kind  PROVE ShownText(w, 0, kind) = <<>>
  <1>1. Since(w, 0) = 1
    BY SinceIs
  <1>2. SubSeq(w, 1, 0) = <<>>
    OBVIOUS
  <1> QED  BY <1>1, <1>2, TextOfNothing DEF ShownText

\* ... and the next one resets it or adds to it.
LEMMA ShownNext ==
    ASSUME NEW w \in Seq(Frames), NEW i \in Nat, i < Len(w), NEW kind \in DeltaKinds
    PROVE  ShownText(w, i + 1, kind) =
             IF w[i + 1].kind \in Resets THEN <<>> ELSE ShownText(w, i, kind) \o Part(w[i + 1], {kind})
  <1>1. PICK f \in Frames : f = w[i + 1]
    OBVIOUS
  <1>2. CASE f.kind \in Resets
    <2>1. i + 1 \in ResetsAt(w, i + 1) /\ ResetsAt(w, i + 1) \subseteq 1..(i + 1)
      BY <1>1, <1>2 DEF ResetsAt
    <2>2. Since(w, i + 1) = i + 1
      <3>1. Max(ResetsAt(w, i + 1)) \in 1..(i + 1) /\ i + 1 <= Max(ResetsAt(w, i + 1))
        BY <2>1, GreatestOf
      <3>2. Max(ResetsAt(w, i + 1)) = i + 1
        BY <3>1
      <3> QED  BY <2>1, <3>2 DEF Since
    <2>3. SubSeq(w, i + 1, i + 1) = Append(SubSeq(w, i + 1, i), f)
      <3>1. i + 1 \in 1..(i + 1)
        OBVIOUS
      <3> QED  BY <1>1, <3>1, SubNext
    <2>4. SubSeq(w, i + 1, i) = <<>> /\ <<>> \in Seq(Frames)
      OBVIOUS
    <2>5. TextOf(Append(<<>>, f), {kind}) = <<>> \o Part(f, {kind}) /\ TextOf(<<>>, {kind}) = <<>>
      BY <2>4, TextAppend, TextOfNothing
    <2>6. Part(f, {kind}) = <<>> /\ <<>> \o <<>> = <<>>
      BY <1>2 DEF Part, Resets, Terminal, DeltaKinds
    <2> QED  BY <1>1, <1>2, <2>2, <2>3, <2>4, <2>5, <2>6 DEF ShownText
  <1>3. CASE f.kind \notin Resets
    <2>1. ResetsAt(w, i + 1) = ResetsAt(w, i)
      <3>1. \A j \in 1..(i + 1) : j = i + 1 \/ j \in 1..i
        OBVIOUS
      <3>2. \A j \in 1..i : j \in 1..(i + 1)
        OBVIOUS
      <3> QED  BY <1>1, <1>3, <3>1, <3>2 DEF ResetsAt
    <2>2. PICK a \in 1..(i + 1) : a = Since(w, i)
      BY SinceRange
    <2>3. Since(w, i + 1) = a
      BY <2>1, <2>2 DEF Since
    <2>4. SubSeq(w, a, i + 1) = Append(SubSeq(w, a, i), f) /\ SubSeq(w, a, i) \in Seq(Frames)
      BY <1>1, SubNext
    <2>5. TextOf(Append(SubSeq(w, a, i), f), {kind}) = TextOf(SubSeq(w, a, i), {kind}) \o Part(f, {kind})
      BY <2>4, TextAppend
    <2> QED  BY <1>1, <1>3, <2>2, <2>3, <2>4, <2>5 DEF ShownText
  <1> QED  BY <1>2, <1>3

\* A keyframe in an attempt holds what is shown: the attempt's start is the last reset.
LEMMA KeyframeShows ==
    ASSUME NEW w \in Seq(Frames), NEW i \in 1..Len(w), w[i].kind = "Snapshot", Keyed(w, i), InAttempt(w, i, w[i].run)
    PROVE  w[i].text = ShownText(w, i, "ModelTurnDelta")
  <1>1. PICK j \in 1..i : /\ w[j].kind = "ModelTurnStarted" /\ w[j].run = w[i].run
                          /\ \A k \in (j + 1)..i : w[k].kind \notin Terminal \cup {"RunStarted"}
    BY DEF InAttempt
  <1>2. w[i].text = DraftIn(w, i)
    BY <1>1 DEF Keyed, Held, BegunAt
  <1>3. Starts(w, i) # {} /\ Starts(w, i) \subseteq 1..i /\ j \in Starts(w, i)
    BY <1>1 DEF Starts
  <1>4. ResetsAt(w, i) # {} /\ ResetsAt(w, i) \subseteq 1..i /\ Starts(w, i) \subseteq ResetsAt(w, i)
    BY <1>3 DEF Starts, ResetsAt, Resets
  <1>5. PICK a, b : a = Max(Starts(w, i)) /\ b = Max(ResetsAt(w, i))
    OBVIOUS
  <1>6. a \in Starts(w, i) /\ (\A y \in Starts(w, i) : y <= a)
    BY <1>3, <1>5, GreatestOf
  <1>7. b \in ResetsAt(w, i) /\ (\A y \in ResetsAt(w, i) : y <= b)
    BY <1>4, <1>5, GreatestOf
  <1>8. a <= b /\ j <= a /\ a \in 1..i /\ b \in 1..i
    BY <1>3, <1>4, <1>6, <1>7
  <1>9. b = a
    <2>1. CASE b = j
      BY <1>8, <2>1
    <2>2. CASE b # j
      <3>1. b \in (j + 1)..i
        BY <1>1, <1>8, <2>2
      <3>2. w[b].kind = "ModelTurnStarted"
        BY <1>1, <1>7, <3>1 DEF ResetsAt, Resets
      <3>3. b \in Starts(w, i)
        BY <1>8, <3>2 DEF Starts
      <3> QED  BY <1>6, <1>8, <3>3
    <2> QED  BY <2>1, <2>2
  <1>10. From(w, i) = Since(w, i)
    BY <1>3, <1>4, <1>5, <1>9 DEF From, Since
  <1> QED  BY <1>2, <1>10 DEF DraftIn, ShownText

\* Cutting a draft before adding to it changes nothing of what the cut leaves.
LEMMA BoundedMore ==
    ASSUME NEW s \in Seq(Int), NEW t \in Seq(Int)
    PROVE  Bounded(s) \in Seq(Int) /\ Bounded(Bounded(s) \o t) = Bounded(s \o t)
  <1>1. MaxDraft \in Nat
    BY BrowserAssumption
  <1>2. CASE Len(s) <= MaxDraft
    BY <1>1, <1>2 DEF Bounded
  <1>3. CASE Len(s) > MaxDraft
    <2>1. PICK p \in Seq(Int) : p = SubSeq(s, 1, MaxDraft) /\ Len(p) = MaxDraft /\ \A j \in 1..MaxDraft : p[j] = s[j]
      <3>1. \A j \in 1..MaxDraft : j \in 1..Len(s) /\ s[j] \in Int
        BY <1>1, <1>3
      <3>2. SubSeq(s, 1, MaxDraft) \in Seq(Int) /\ Len(SubSeq(s, 1, MaxDraft)) = MaxDraft
        BY <1>1, <1>3, <3>1, SubSeqProperties
      <3>3. \A j \in 1..MaxDraft : SubSeq(s, 1, MaxDraft)[j] = s[j]
        BY <1>1, <1>3, <3>1, SubSeqProperties
      <3> QED  BY <3>2, <3>3
    <2>2. Bounded(s) = p
      BY <1>1, <1>3, <2>1 DEF Bounded
    <2>3. /\ p \o t \in Seq(Int) /\ Len(p \o t) = MaxDraft + Len(t)
          /\ \A j \in 1..MaxDraft : (p \o t)[j] = p[j]
      BY <1>1, <2>1
    <2>4. /\ s \o t \in Seq(Int) /\ Len(s \o t) = Len(s) + Len(t)
          /\ \A j \in 1..MaxDraft : (s \o t)[j] = s[j]
      BY <1>1, <1>3
    <2>5. PICK x \in Seq(Int), y \in Seq(Int) : x = p \o t /\ y = s \o t
      BY <2>3, <2>4
    <2>6. /\ Len(x) = MaxDraft + Len(t) /\ Len(y) = Len(s) + Len(t) /\ Len(t) \in Nat /\ Len(s) \in Nat
          /\ \A j \in 1..MaxDraft : x[j] = y[j]
      <3>1. Len(x) = MaxDraft + Len(t) /\ Len(y) = Len(s) + Len(t)
        BY <2>3, <2>4, <2>5
      <3>2. \A j \in 1..MaxDraft : x[j] = y[j]
        BY <2>1, <2>3, <2>4, <2>5
      <3>3. Len(t) \in Nat /\ Len(s) \in Nat
        OBVIOUS
      <3> QED  BY <3>1, <3>2, <3>3
    <2>7. SubSeq(x, 1, MaxDraft) = SubSeq(y, 1, MaxDraft)
      BY <1>1, <1>3, <2>6
    <2>8. Bounded(y) = SubSeq(y, 1, MaxDraft)
      BY <1>1, <1>3, <2>6 DEF Bounded
    <2>9. Bounded(x) = SubSeq(x, 1, MaxDraft)
      <3>1. CASE Len(t) = 0
        <4>1. Len(x) = MaxDraft
          BY <1>1, <2>6, <3>1
        <4>2. SubSeq(x, 1, MaxDraft) = x
          BY <1>1, <4>1
        <4> QED  BY <1>1, <4>1, <4>2 DEF Bounded
      <3>2. CASE Len(t) # 0
        BY <1>1, <2>6, <3>2 DEF Bounded
      <3> QED  BY <3>1, <3>2
    <2> QED  BY <2>1, <2>2, <2>5, <2>7, <2>8, <2>9
  <1> QED  BY <1>1, <1>2, <1>3

LEMMA BoundedNothing == Bounded(<<>>) = <<>>
  BY BrowserAssumption DEF Bounded

Views == [running : BOOLEAN, text : Seq(Int), reasoning : Seq(Int), turn : 0..MaxSends]

\* What one frame does to the projection.
LEMMA ProjectIs ==
    ASSUME NEW v \in Views, NEW f \in Frames
    PROVE  /\ Project(v, f) \in Views
           /\ Project(v, f).running = IF f.kind = "SessionOpened" THEN v.running ELSE f.kind \notin Terminal
           /\ Project(v, f).text = IF f.kind \in Resets THEN <<>>
                                   ELSE IF f.kind = "ModelTurnDelta" THEN Bounded(v.text \o f.text)
                                   ELSE IF f.kind = "Snapshot" THEN Bounded(f.text) ELSE v.text
           /\ Project(v, f).reasoning = IF f.kind \in Resets THEN <<>>
                                        ELSE IF f.kind = "ModelReasoningDelta" THEN Bounded(v.reasoning \o f.text)
                                        ELSE v.reasoning
  <1>1. PICK u \in Views : u = (IF f.turn # 0 THEN [v EXCEPT !.turn = f.turn] ELSE v)
    BY DEF Views, Frames
  <1>2. u.running = v.running /\ u.text = v.text /\ u.reasoning = v.reasoning
    BY <1>1 DEF Views
  <1>3. v.text \in Seq(Int) /\ v.reasoning \in Seq(Int) /\ f.text \in Seq(Int) /\ <<>> \in Seq(Int)
    <2>1. v.text \in Seq(Int) /\ v.reasoning \in Seq(Int)
      BY DEF Views
    <2>2. f.text \in Seq(Int)
      BY DEF Frames
    <2>3. <<>> \in Seq(Int)
      OBVIOUS
    <2> QED  BY <2>1, <2>2, <2>3
  <1>4. PICK x, y, z : /\ x = Bounded(v.text \o f.text) /\ y = Bounded(v.reasoning \o f.text) /\ z = Bounded(f.text)
                       /\ x \in Seq(Int) /\ y \in Seq(Int) /\ z \in Seq(Int)
    <2>1. v.text \o f.text \in Seq(Int) /\ v.reasoning \o f.text \in Seq(Int)
      BY <1>3
    <2> QED  BY <1>3, <2>1, BoundedMore
  <1>5. CASE f.kind \in {"RunStarted", "ModelTurnStarted"}
    <2>1. Project(v, f) = [u EXCEPT !.running = TRUE, !.text = <<>>, !.reasoning = <<>>]
      BY <1>1, <1>5 DEF Project, StartsDraft, EndsDraft, Terminal
    <2> QED  BY <1>3, <1>5, <2>1 DEF Views, Resets, Terminal
  <1>6. CASE f.kind = "ModelTurnDelta"
    <2>1. Project(v, f) = [u EXCEPT !.running = TRUE, !.text = x]
      BY <1>1, <1>2, <1>4, <1>6 DEF Project, StartsDraft, EndsDraft, Terminal, Views
    <2> QED  BY <1>2, <1>4, <1>6, <2>1 DEF Views, Resets, Terminal
  <1>7. CASE f.kind = "ModelReasoningDelta"
    <2>1. Project(v, f) = [u EXCEPT !.running = TRUE, !.reasoning = y]
      BY <1>1, <1>2, <1>4, <1>7 DEF Project, StartsDraft, EndsDraft, Terminal, Views
    <2> QED  BY <1>2, <1>4, <1>7, <2>1 DEF Views, Resets, Terminal
  <1>8. CASE f.kind = "Snapshot"
    <2>1. Project(v, f) = [u EXCEPT !.running = TRUE, !.text = z]
      BY <1>1, <1>4, <1>8 DEF Project, StartsDraft, EndsDraft, Terminal
    <2> QED  BY <1>2, <1>4, <1>8, <2>1 DEF Views, Resets, Terminal
  <1>9. CASE f.kind = "Tool"
    <2>1. Project(v, f) = [u EXCEPT !.running = TRUE]
      BY <1>1, <1>9 DEF Project, StartsDraft, EndsDraft, Terminal
    <2> QED  BY <1>2, <1>9, <2>1 DEF Views, Resets, Terminal
  <1>10. CASE f.kind \in Terminal
    <2>1. Project(v, f) = [u EXCEPT !.running = FALSE, !.text = <<>>, !.reasoning = <<>>]
      BY <1>1, <1>10 DEF Project, StartsDraft, EndsDraft, Terminal
    <2> QED  BY <1>3, <1>10, <2>1 DEF Views, Resets, Terminal
  <1>11. CASE f.kind = "SessionOpened"
    <2>1. Project(v, f) = u
      BY <1>1, <1>11 DEF Project, StartsDraft, EndsDraft, Terminal
    <2> QED  BY <1>2, <1>11, <2>1 DEF Resets, Terminal
  <1>12. f.kind \in Kinds
    BY DEF Frames
  <1> QED  BY <1>5, <1>6, <1>7, <1>8, <1>9, <1>10, <1>11, <1>12 DEF Kinds, DeltaKinds

\* Frame i of the log's run is event i of the log, and no notice covers the newest event.
Together ==
    /\ nextIndex - 1 = Len(stream)
    /\ \A i \in excused[Browser] : i < nextIndex - 1

\* What the browser shows at its cursor: after a frame, whether a run is open, and after
\* a keyframe the text; while it has missed nothing since the last reset, all of the draft.
ViewInv ==
    LET c == cursor[Browser] IN
    /\ view \in Views /\ adrift \in BOOLEAN
    /\ c = 0 => ~view.running
    /\ c \in seen[Browser] =>
         /\ view.running = (stream[c].kind \notin Terminal \cup {"SessionOpened"})
         /\ stream[c].kind = "Snapshot" => view.text = Bounded(ShownText(stream, c, "ModelTurnDelta"))
    /\ ~adrift =>
         /\ view.text = Bounded(ShownText(stream, c, "ModelTurnDelta"))
         /\ view.reasoning = Bounded(ShownText(stream, c, "ModelReasoningDelta"))

RunsInv == BridgeInv /\ DraftInv /\ AttemptInv
BrowserInv == RunsInv /\ Logs!LogInv /\ Together /\ ViewInv

\* The two instances of the log are the same log.
LEMMA LogsAssumed == Logs!LogAssumption
  BY BrowserAssumption DEF Logs!LogAssumption

LEMMA SameBytes == ASSUME NEW s PROVE Log!Bytes(s) = Logs!Bytes(s)
  BY Zenon DEF Log!Bytes, Logs!Bytes, Log!FoldLeft, Logs!FoldLeft, Log!MapThenFoldSet, Logs!MapThenFoldSet,
               Log!Max, Logs!Max

LEMMA SameDrop == ASSUME NEW s, NEW total PROVE Log!Drop(s, total) = Logs!Drop(s, total)
  BY Zenon DEF Log!Drop, Logs!Drop, Log!Bytes, Logs!Bytes, Log!FoldLeft, Logs!FoldLeft, Log!MapThenFoldSet,
               Logs!MapThenFoldSet, Log!Max, Logs!Max

LEMMA SameAppend == ASSUME NEW z \in Sizes, Log!AppendEvent(z) PROVE Logs!AppendEvent(z)
  BY SameBytes, SameDrop DEF Log!AppendEvent, Logs!AppendEvent, Log!FanOut, Logs!FanOut, Log!Frame, Logs!Frame

LEMMA SameReplay == ASSUME NEW after PROVE Log!Replay(after) = Logs!Replay(after)
  BY DEF Log!Replay, Logs!Replay, Log!ResyncNotice, Logs!ResyncNotice, Log!Notice, Logs!Notice,
         Log!Frame, Logs!Frame

LEMMA SameStreams ==
  /\ Log!WatchEvents(Browser) => Logs!WatchEvents(Browser)
  /\ Log!EndOfStream(Browser) => Logs!EndOfStream(Browser)
  /\ Log!Break(Browser) => Logs!Break(Browser)
  /\ Log!SendReplay(Browser) => Logs!SendReplay(Browser)
  /\ Log!SendLive(Browser) => Logs!SendLive(Browser)
  BY SameReplay
     DEF Log!WatchEvents, Logs!WatchEvents, Log!EndOfStream, Logs!EndOfStream, Log!Break, Logs!Break,
         Log!SendReplay, Logs!SendReplay, Log!SendLive, Logs!SendLive, Log!Receive, Logs!Receive

\* Every step of the composition is one of the log, and one of the runs.
LEMMA StepOfTheLog == [BrowserNext]_browserVars => [Logs!LogNext]_Logs!logVars
  <1> SUFFICES ASSUME [BrowserNext]_browserVars PROVE [Logs!LogNext]_Logs!logVars
    OBVIOUS
  <1>1. CASE Rpcs \/ Works \/ Engines \/ Timers \/ Stopping \/ UNCHANGED browserVars
    BY <1>1 DEF Rpcs, Works, Engines, Timers, Stopping, watchVars, browserVars, Logs!logVars
  <1>2. CASE StreamFrame
    BY <1>2, SameAppend DEF StreamFrame, Logs!LogNext
  <1>3. ASSUME Logs!WatchEvents(Browser) \/ Logs!EndOfStream(Browser) \/ Logs!Break(Browser)
               \/ Logs!SendReplay(Browser) \/ Logs!SendLive(Browser)
        PROVE  Logs!LogNext
    BY <1>3 DEF Logs!LogNext, Logs!StreamStep
  <1>4. CASE BrowserReceives \/ BrowserStream
    BY <1>3, <1>4, SameStreams DEF BrowserReceives, BrowserStream
  <1> QED  BY <1>1, <1>2, <1>4 DEF BrowserNext

LEMMA StepOfTheRuns == [BrowserNext]_browserVars => [Next]_runVars
  <1> SUFFICES ASSUME [BrowserNext]_browserVars PROVE [Next]_runVars
    OBVIOUS
  <1>1. CASE Rpcs \/ Works \/ Engines \/ Timers \/ Stopping \/ StreamFrame
    BY <1>1 DEF Rpcs, Works, Engines, Timers, Stopping, StreamFrame, Next
  <1>2. CASE BrowserReceives \/ BrowserStream \/ UNCHANGED browserVars
    BY <1>2 DEF BrowserReceives, BrowserStream, browserVars, runVars
  <1> QED  BY <1>1, <1>2 DEF BrowserNext

LEMMA RunsStep == RunsInv /\ [BrowserNext]_browserVars => RunsInv'
  BY StepOfTheRuns, BridgeStep, DraftStep, AttemptStep DEF RunsInv

LEMMA LogsStep == Logs!LogInv /\ [BrowserNext]_browserVars => Logs!LogInv'
  BY StepOfTheLog, LogsAssumed, Logs!NextSound

\* Frames that do not change what is shown up to the cursor do not change the view's truth.
LEMMA ViewStays ==
    ASSUME BrowserInv, RunsInv', UNCHANGED <<view, adrift, cursor, seen>>,
           Len(stream) <= Len(stream'), \A i \in 1..Len(stream) : stream'[i] = stream[i]
    PROVE  ViewInv'
  <1> DEFINE c == cursor[Browser]
  <1>1. stream \in Seq(Frames) /\ stream' \in Seq(Frames)
    BY DEF BrowserInv, RunsInv, BridgeInv, Typed
  <1>2. c \in Nat /\ c <= Len(stream) /\ (c \in seen[Browser] => c \in 1..Len(stream))
    <2>1. /\ c \in Nat /\ c <= nextIndex - 1 /\ seen[Browser] \subseteq 1..c
      BY DEF BrowserInv, Logs!LogInv, Logs!Cursors, Logs!LogTypes
    <2>2. nextIndex - 1 = Len(stream)
      BY DEF BrowserInv, Together
    <2> QED  BY <2>1, <2>2
  <1>3. \A kind : ShownText(stream', c, kind) = ShownText(stream, c, kind)
    <2>1. \A i \in 1..c : stream'[i] = stream[i]
      BY <1>1, <1>2
    <2>2. c <= Len(stream')
      BY <1>1, <1>2
    <2> HIDE DEF c
    <2> QED  BY <1>1, <1>2, <2>1, <2>2, ShownSame
  <1>4. c \in seen[Browser] => stream'[c] = stream[c]
    BY <1>2
  <1> QED  BY <1>3, <1>4 DEF BrowserInv, ViewInv

\* What the stream delivers next, to a browser at its cursor.
Delivers(e) ==
    /\ e.index \in Nat /\ e.notice \in BOOLEAN
    /\ e.index > cursor[Browser] /\ e.index <= nextIndex - 1
    /\ IF e.notice THEN e.index < nextIndex - 1 ELSE e.index = cursor[Browser] + 1

LEMMA HeadFirst ==
    ASSUME NEW S, NEW s \in Seq(S), s # <<>>
    PROVE  Head(s) = s[1] /\ 1 \in 1..Len(s) /\ s[1] \in S
  OBVIOUS

LEMMA NextDelivered ==
    ASSUME Logs!LogInv, Browser \in watching
    PROVE  /\ replay[Browser] # <<>> => Delivers(Head(replay[Browser]))
           /\ replay[Browser] = <<>> /\ channel[Browser] # <<>> => Delivers(Head(channel[Browser]))
  <1> DEFINE r == replay[Browser]
             h == channel[Browser]
             c == cursor[Browser]
             p == r \o h
  <1>1. /\ r \in Seq(Logs!FrameSet) /\ h \in Seq(Logs!FrameSet) /\ c \in Nat /\ nextIndex \in Nat
        /\ events \in Seq(Logs!EventSet)
    BY DEF Logs!LogInv, Logs!LogTypes
  <1>2. /\ p \in Seq(Logs!FrameSet) /\ Logs!Chain(c, p)
        /\ \A i \in 1..Len(p) : p[i].index <= nextIndex - 1
    <2>1. p \in Seq(Logs!FrameSet)
      BY <1>1
    <2> QED  BY <2>1 DEF Logs!LogInv, Logs!Streams, Logs!Pending
  <1>3. events[1].index <= nextIndex - 1
    <2>1. /\ Len(events) >= 1 /\ Len(events) \in Nat
          /\ \A i \in 1..Len(events) : events[i].index = nextIndex - 1 - Len(events) + i
      BY <1>1 DEF Logs!LogInv, Logs!Window
    <2>2. 1 \in 1..Len(events)
      BY <2>1
    <2> QED  BY <1>1, <2>1, <2>2
  <1>4. /\ \A i \in 1..Len(h) : ~h[i].notice
        /\ \A i \in 1..Len(r) : r[i].notice => r[i].index < events[1].index
    BY DEF Logs!LogInv, Logs!NoticesLead
  <1>5. ASSUME p # <<>>
        PROVE  /\ Head(p).index \in Nat /\ Head(p).notice \in BOOLEAN /\ Head(p).index > c
               /\ (~Head(p).notice => Head(p).index = c + 1) /\ Head(p).index <= nextIndex - 1
    <2>1. 1 \in 1..Len(p) /\ Head(p) = p[1] /\ p[1] \in Logs!FrameSet
      <3> HIDE DEF p
      <3> QED  BY <1>2, <1>5, HeadFirst
    <2>2. /\ Head(p).index > c
          /\ ~Head(p).notice => Head(p).index = c + 1
      <3> HIDE DEF p, c
      <3> QED  BY <1>1, <1>2, <1>5, LogsAssumed, Logs!ChainTail
    <2> QED  BY <1>2, <2>1, <2>2 DEF Logs!FrameSet
  <1>6. ASSUME r # <<>> PROVE Delivers(Head(r))
    <2>1. p # <<>> /\ Head(p) = Head(r) /\ Head(r) = r[1] /\ 1 \in 1..Len(r)
      <3>1. p # <<>> /\ Head(p) = Head(r)
        <4> HIDE DEF r, h
        <4> QED  BY <1>1, <1>6, LogsAssumed, Logs!ConcatTail
      <3>2. Head(r) = r[1] /\ 1 \in 1..Len(r)
        <4> HIDE DEF r
        <4> QED  BY <1>1, <1>6, HeadFirst
      <3> QED  BY <3>1, <3>2
    <2>2. Head(r).notice => Head(r).index < events[1].index
      BY <1>4, <2>1
    <2>3. /\ Head(r).index \in Nat /\ Head(r).notice \in BOOLEAN /\ Head(r).index > c
          /\ (~Head(r).notice => Head(r).index = c + 1) /\ Head(r).index <= nextIndex - 1
      BY <1>5, <2>1
    <2>4. events[1].index \in Nat
      <3>1. Len(events) >= 1 /\ Len(events) \in Nat
        BY <1>1 DEF Logs!LogInv, Logs!Window
      <3>2. 1 \in 1..Len(events)
        BY <3>1
      <3>3. events[1] \in Logs!EventSet
        BY <1>1, <3>2
      <3> QED  BY <3>3 DEF Logs!EventSet
    <2> QED  BY <1>1, <1>3, <2>2, <2>3, <2>4 DEF Delivers
  <1>7. ASSUME r = <<>>, h # <<>> PROVE Delivers(Head(h))
    <2>1. p = h /\ Head(h) = h[1] /\ 1 \in 1..Len(h)
      BY <1>1, <1>7
    <2>2. ~Head(h).notice
      BY <1>4, <2>1
    <2>3. /\ Head(h).index \in Nat /\ Head(h).notice \in BOOLEAN /\ Head(h).index > c
          /\ (~Head(h).notice => Head(h).index = c + 1) /\ Head(h).index <= nextIndex - 1
      BY <1>5, <1>7, <2>1
    <2> QED  BY <2>2, <2>3 DEF Delivers
  <1> QED  BY <1>6, <1>7

\* A keyframe in the log holds what a browser shows that received every frame up to it.
LEMMA KeyframeInLog ==
    ASSUME RunsInv, NEW i \in 1..Len(stream), stream[i].kind = "Snapshot"
    PROVE  stream[i].text = ShownText(stream, i, "ModelTurnDelta")
  <1>1. Typed /\ stream \in Seq(Frames)
    BY DEF RunsInv, BridgeInv, Typed
  <1>2. /\ Whole \in Seq(Frames) /\ Len(stream) <= Len(Whole)
        /\ \A j \in 1..Len(stream) : Whole[j] = stream[j]
    <2>1. /\ Whole \in Seq(Frames) /\ Len(Whole) = Len(stream) + Len(outbox)
          /\ \A j \in 1..Len(stream) : Whole[j] = stream[j]
      BY <1>1, WholeParts
    <2>2. outbox \in Seq(Frames)
      BY <1>1 DEF Typed
    <2>3. Len(outbox) \in Nat /\ Len(stream) \in Nat
      BY <1>1, <2>2
    <2> QED  BY <2>1, <2>3
  <1>3. i \in 1..Len(Whole) /\ Whole[i] = stream[i]
    BY <1>1, <1>2
  <1>4. Keyed(Whole, i) /\ InAttempt(Whole, i, Whole[i].run)
    BY <1>3 DEF RunsInv, DraftInv, Draftful, AttemptInv, Attempted
  <1>5. Whole[i].text = ShownText(Whole, i, "ModelTurnDelta")
    BY <1>2, <1>3, <1>4, KeyframeShows
  <1>6. ShownText(Whole, i, "ModelTurnDelta") = ShownText(stream, i, "ModelTurnDelta")
    <2>1. i \in Nat /\ i <= Len(stream) /\ i <= Len(Whole) /\ \A j \in 1..i : Whole[j] = stream[j]
      BY <1>1, <1>2, <1>3
    <2> QED  BY <1>1, <1>2, <2>1, ShownSame
  <1> QED  BY <1>3, <1>5, <1>6

\* The text of a kind after one frame more, cut as the browser cuts it.
LEMMA ShownMore ==
    ASSUME NEW w \in Seq(Frames), NEW i \in Nat, i < Len(w), NEW kind \in DeltaKinds,
           NEW t \in Seq(Int), t = Bounded(ShownText(w, i, kind))
    PROVE  Bounded(ShownText(w, i + 1, kind)) =
             IF w[i + 1].kind \in Resets THEN <<>>
             ELSE IF w[i + 1].kind = kind THEN Bounded(t \o w[i + 1].text) ELSE t
  <1>1. PICK f \in Frames : f = w[i + 1]
    OBVIOUS
  <1>2. PICK s \in Seq(Int) : s = ShownText(w, i, kind)
    BY ShownTyped
  <1>3. ShownText(w, i + 1, kind) = IF f.kind \in Resets THEN <<>> ELSE s \o Part(f, {kind})
    BY <1>1, <1>2, ShownNext
  <1>4. f.text \in Seq(Int)
    BY DEF Frames
  <1>5. CASE f.kind \in Resets
    BY <1>1, <1>3, <1>5, BoundedNothing
  <1>6. CASE f.kind \notin Resets /\ f.kind = kind
    <2>1. Part(f, {kind}) = f.text
      BY <1>6 DEF Part
    <2>2. Bounded(Bounded(s) \o f.text) = Bounded(s \o f.text)
      BY <1>2, <1>4, BoundedMore
    <2> QED  BY <1>1, <1>2, <1>3, <1>6, <2>1, <2>2
  <1>7. CASE f.kind \notin Resets /\ f.kind # kind
    <2>1. Part(f, {kind}) = <<>>
      BY <1>7 DEF Part
    <2>2. s \o <<>> = s
      BY <1>2, Empties
    <2> QED  BY <1>1, <1>2, <1>3, <1>7, <2>1, <2>2
  <1> QED  BY <1>5, <1>6, <1>7

\* The browser receives what its stream delivers next.
LEMMA ReceiveView ==
    ASSUME BrowserInv, RunsInv', NEW e, Delivers(e), Log!Receive(Browser, e), Shown(e), Drifts(e),
           UNCHANGED <<stream, nextIndex>>
    PROVE  ViewInv' /\ Together'
  <1> DEFINE c == cursor[Browser]
  <1>1. /\ stream \in Seq(Frames) /\ RunsInv /\ nextIndex - 1 = Len(stream) /\ nextIndex \in Nat /\ Len(stream) \in Nat
        /\ c \in Nat /\ seen[Browser] \subseteq 1..c /\ seen[Browser] \subseteq Nat
        /\ \A i \in excused[Browser] : i < nextIndex - 1
        /\ view \in Views /\ adrift \in BOOLEAN
    <2>1. stream \in Seq(Frames) /\ RunsInv
      BY DEF BrowserInv, RunsInv, BridgeInv, Typed
    <2>2. nextIndex \in Nat /\ c \in Nat /\ seen[Browser] \subseteq 1..c /\ seen[Browser] \subseteq Nat
      BY DEF BrowserInv, Logs!LogInv, Logs!LogTypes, Logs!Cursors
    <2>3. nextIndex - 1 = Len(stream) /\ \A i \in excused[Browser] : i < nextIndex - 1
      BY DEF BrowserInv, Together
    <2>4. view \in Views /\ adrift \in BOOLEAN
      BY DEF BrowserInv, ViewInv
    <2> QED  BY <2>1, <2>2, <2>3, <2>4
  <1>2. /\ e.index \in Nat /\ e.notice \in BOOLEAN /\ e.index > c /\ e.index <= nextIndex - 1
        /\ IF e.notice THEN e.index < nextIndex - 1 ELSE e.index = c + 1
    BY DEF Delivers
  <1>3. /\ cursor'[Browser] = e.index
        /\ seen'[Browser] = IF e.notice THEN seen[Browser] ELSE seen[Browser] \cup {e.index}
        /\ excused'[Browser] = IF e.notice THEN excused[Browser] \cup ((c + 1)..e.index) ELSE excused[Browser]
    <2>1. /\ cursor \in [{Browser} -> Nat] /\ seen \in [{Browser} -> SUBSET Nat] /\ excused \in [{Browser} -> SUBSET Nat]
      BY DEF BrowserInv, Logs!LogInv, Logs!LogTypes
    <2>2. ~(e.index <= c)
      BY <1>1, <1>2
    <2> QED  BY <2>1, <2>2 DEF Log!Receive
  <1>4. Together'
    <2>1. \A i \in excused'[Browser] : i < nextIndex - 1
      BY <1>1, <1>2, <1>3
    <2> QED  BY <1>1, <2>1 DEF Together
  <1>5. CASE e.notice
    <2>1. view' = view /\ adrift' = TRUE
      BY <1>5 DEF Shown, Drifts
    <2>2. cursor'[Browser] # 0 /\ cursor'[Browser] \notin seen'[Browser]
      BY <1>1, <1>2, <1>3, <1>5
    <2>3. ViewInv'
      BY <1>1, <2>1, <2>2 DEF ViewInv
    <2> QED  BY <1>4, <2>3
  <1>6. CASE ~e.notice
    <2>1. /\ e.index = c + 1 /\ c < Len(stream) /\ c + 1 \in 1..Len(stream)
          /\ cursor'[Browser] = c + 1 /\ c + 1 # 0
      BY <1>1, <1>2, <1>3, <1>6
    <2>2. PICK f \in Frames : f = stream[c + 1]
      BY <1>1, <2>1
    <2>3. view' = Project(view, f) /\ adrift' = (adrift /\ f.kind \notin Resets)
      BY <1>6, <2>1, <2>2 DEF Shown, Drifts, Resets
    <2>4. /\ view' \in Views
          /\ view'.running = IF f.kind = "SessionOpened" THEN view.running ELSE f.kind \notin Terminal
          /\ view'.text = IF f.kind \in Resets THEN <<>>
                          ELSE IF f.kind = "ModelTurnDelta" THEN Bounded(view.text \o f.text)
                          ELSE IF f.kind = "Snapshot" THEN Bounded(f.text) ELSE view.text
          /\ view'.reasoning = IF f.kind \in Resets THEN <<>>
                               ELSE IF f.kind = "ModelReasoningDelta" THEN Bounded(view.reasoning \o f.text)
                               ELSE view.reasoning
      BY <1>1, <2>3, ProjectIs
    <2>5. view'.running = (f.kind \notin Terminal \cup {"SessionOpened"})
      <3>1. ASSUME f.kind = "SessionOpened" PROVE view.running = FALSE
        <4>1. /\ Whole[c + 1] = stream[c + 1] /\ c + 1 \in 1..Len(Whole)
          <5>1. /\ Len(Whole) = Len(stream) + Len(outbox) /\ outbox \in Seq(Frames)
                /\ \A j \in 1..Len(stream) : Whole[j] = stream[j]
            BY <1>1, WholeParts DEF RunsInv, BridgeInv, Typed
          <5>2. Len(outbox) \in Nat
            BY <5>1
          <5> QED  BY <1>1, <2>1, <5>1, <5>2
        <4>2. c + 1 = 1
          BY <1>1, <2>2, <3>1, <4>1 DEF RunsInv, AttemptInv, Attempted
        <4>3. c = 0
          BY <1>1, <4>2
        <4> QED  BY <1>1, <4>3 DEF BrowserInv, ViewInv, Views
      <3> QED  BY <2>4, <3>1
    <2>6. f.kind = "Snapshot" => view'.text = Bounded(ShownText(stream, c + 1, "ModelTurnDelta"))
      <3>1. ASSUME f.kind = "Snapshot" PROVE f.text = ShownText(stream, c + 1, "ModelTurnDelta")
        BY <1>1, <2>1, <2>2, <3>1, KeyframeInLog
      <3>2. "Snapshot" \notin Resets
        BY DEF Resets, Terminal
      <3> QED  BY <2>4, <3>1, <3>2
    <2>7. ASSUME f.kind \in Resets \/ ~adrift
          PROVE  /\ view'.text = Bounded(ShownText(stream, c + 1, "ModelTurnDelta"))
                 /\ view'.reasoning = Bounded(ShownText(stream, c + 1, "ModelReasoningDelta"))
      <3>1. "ModelTurnDelta" \in DeltaKinds /\ "ModelReasoningDelta" \in DeltaKinds
        BY DEF DeltaKinds
      <3>2. CASE f.kind \in Resets
        <4>1. ShownText(stream, c + 1, "ModelTurnDelta") = <<>> /\ ShownText(stream, c + 1, "ModelReasoningDelta") = <<>>
          <5> HIDE DEF c
          <5> QED  BY <1>1, <2>1, <2>2, <3>1, <3>2, ShownNext
        <4> QED  BY <2>4, <3>2, <4>1, BoundedNothing
      <3>3. CASE f.kind \notin Resets
        <4>1. PICK t \in Seq(Int), u \in Seq(Int) : t = view.text /\ u = view.reasoning
          BY <1>1 DEF Views
        <4>2. /\ t = Bounded(ShownText(stream, c, "ModelTurnDelta"))
              /\ u = Bounded(ShownText(stream, c, "ModelReasoningDelta"))
          BY <2>7, <3>3, <4>1 DEF BrowserInv, ViewInv
        <4> HIDE DEF c
        <4>3. Bounded(ShownText(stream, c + 1, "ModelTurnDelta")) =
                IF stream[c + 1].kind \in Resets THEN <<>>
                ELSE IF stream[c + 1].kind = "ModelTurnDelta" THEN Bounded(t \o stream[c + 1].text) ELSE t
          BY <1>1, <2>1, <3>1, <4>2, ShownMore
        <4>4. Bounded(ShownText(stream, c + 1, "ModelReasoningDelta")) =
                IF stream[c + 1].kind \in Resets THEN <<>>
                ELSE IF stream[c + 1].kind = "ModelReasoningDelta" THEN Bounded(u \o stream[c + 1].text) ELSE u
          BY <1>1, <2>1, <3>1, <4>2, ShownMore
        <4> QED  BY <2>2, <2>4, <2>6, <3>3, <4>1, <4>3, <4>4
      <3> QED  BY <3>2, <3>3
    <2>8. ViewInv'
      <3>1. stream' = stream /\ stream'[c + 1] = f
        BY <2>2
      <3> HIDE DEF c
      <3> QED  BY <2>1, <2>3, <2>4, <2>5, <2>6, <2>7, <3>1 DEF ViewInv
    <2> QED  BY <1>4, <2>8
  <1> QED  BY <1>2, <1>5, <1>6

\* Every step keeps the log, the runs and the view together.
LEMMA BrowserStep == BrowserInv /\ [BrowserNext]_browserVars => BrowserInv'
  <1> SUFFICES ASSUME BrowserInv, [BrowserNext]_browserVars PROVE BrowserInv'
    OBVIOUS
  <1>1. RunsInv' /\ Logs!LogInv'
    BY RunsStep, LogsStep DEF BrowserInv
  <1>2. /\ stream \in Seq(Frames) /\ stream' \in Seq(Frames) /\ Len(stream) \in Nat /\ nextIndex \in Nat
        /\ nextIndex - 1 = Len(stream) /\ \A i \in excused[Browser] : i < nextIndex - 1
        /\ excused[Browser] \subseteq Nat
    <2>1. stream \in Seq(Frames) /\ stream' \in Seq(Frames)
      BY <1>1 DEF BrowserInv, RunsInv, BridgeInv, Typed
    <2>2. nextIndex \in Nat /\ excused[Browser] \subseteq Nat
      BY DEF BrowserInv, Logs!LogInv, Logs!LogTypes
    <2>3. nextIndex - 1 = Len(stream) /\ \A i \in excused[Browser] : i < nextIndex - 1
      BY DEF BrowserInv, Together
    <2> QED  BY <2>1, <2>2, <2>3
  <1>3. ASSUME UNCHANGED <<stream, nextIndex, cursor, seen, excused, view, adrift>> PROVE BrowserInv'
    <2>1. Together'
      BY <1>2, <1>3 DEF Together
    <2>2. Len(stream) <= Len(stream') /\ \A i \in 1..Len(stream) : stream'[i] = stream[i]
      BY <1>2, <1>3
    <2>3. ViewInv'
      BY <1>1, <1>3, <2>2, ViewStays
    <2> QED  BY <1>1, <2>1, <2>3 DEF BrowserInv
  <1>4. CASE Rpcs \/ Works \/ Engines \/ Timers \/ Stopping \/ UNCHANGED browserVars
    <2>1. stream' = stream
      <3>1. CASE Rpcs \/ Stopping \/ UNCHANGED browserVars
        BY <3>1 DEF Rpcs, Stopping, browserVars, Rpc, SendMessage, Abort, Shutdown
      <3>2. CASE Works
        BY <3>2 DEF Works, Worker, OpenSession, SetCancel, ReplyReturns, AbortRun, FinishRun, CloseRun,
                    ReturnToIdle, StopWorker
      <3>3. CASE Engines
        BY <3>3 DEF Engines, EngineStep, RefuseMessage, ReserveTurnSeq, RunStarted, ModelTurnStarted, ToolEvent,
                    RunFinishes, Delta, ReserveFails, RunFails, engineVars
      <3>4. CASE Timers
        BY <3>4 DEF Timers, Timer, TimerFires, FlushDeltaBuffers
      <3> QED  BY <1>4, <3>1, <3>2, <3>3, <3>4
    <2>2. UNCHANGED <<nextIndex, cursor, seen, excused, view, adrift>>
      BY <1>4 DEF Rpcs, Works, Engines, Timers, Stopping, watchVars, browserVars
    <2> QED  BY <1>3, <2>1, <2>2
  <1>5. CASE BrowserStream
    <2>1. UNCHANGED <<stream, view, adrift>>
      BY <1>5 DEF BrowserStream, runVars
    <2>2. UNCHANGED <<nextIndex, cursor, seen, excused>>
      BY <1>5 DEF BrowserStream, Log!WatchEvents, Log!EndOfStream, Log!Break
    <2> QED  BY <1>3, <2>1, <2>2
  <1>6. CASE StreamFrame
    <2>1. /\ UNCHANGED <<view, adrift, cursor, seen, excused>> /\ nextIndex' = nextIndex + 1
      BY <1>6 DEF StreamFrame, Log!AppendEvent
    <2>2. /\ Len(stream') = Len(stream) + 1
          /\ \A i \in 1..Len(stream) : stream'[i] = stream[i]
      <3>1. PICK f : stream' = Append(stream, f)
        BY <1>6 DEF StreamFrame, AppendFrame
      <3> QED  BY <1>2, <3>1
    <2>3. Together'
      BY <1>2, <2>1, <2>2 DEF Together
    <2>4. Len(stream) <= Len(stream')
      BY <1>2, <2>2
    <2>5. ViewInv'
      BY <1>1, <2>1, <2>2, <2>4, ViewStays
    <2> QED  BY <1>1, <2>3, <2>5 DEF BrowserInv
  <1>7. CASE BrowserReceives
    <2>1. PICK e : /\ Delivers(e) /\ Log!Receive(Browser, e) /\ Shown(e) /\ Drifts(e)
                   /\ UNCHANGED <<stream, nextIndex>>
      <3>1. UNCHANGED stream
        BY <1>7 DEF BrowserReceives, runVars
      <3>2. CASE Log!SendReplay(Browser) /\ Shown(Head(replay[Browser])) /\ Drifts(Head(replay[Browser]))
        <4>1. /\ Browser \in watching /\ replay[Browser] # <<>> /\ Log!Receive(Browser, Head(replay[Browser]))
              /\ UNCHANGED nextIndex
          BY <3>2 DEF Log!SendReplay
        <4>2. Delivers(Head(replay[Browser]))
          BY <4>1, NextDelivered DEF BrowserInv
        <4> QED  BY <3>1, <3>2, <4>1, <4>2
      <3>3. CASE Log!SendLive(Browser) /\ Shown(Head(channel[Browser])) /\ Drifts(Head(channel[Browser]))
        <4>1. /\ Browser \in watching /\ replay[Browser] = <<>> /\ channel[Browser] # <<>>
              /\ Log!Receive(Browser, Head(channel[Browser])) /\ UNCHANGED nextIndex
          BY <3>3 DEF Log!SendLive
        <4>2. Delivers(Head(channel[Browser]))
          BY <4>1, NextDelivered DEF BrowserInv
        <4> QED  BY <3>1, <3>3, <4>1, <4>2
      <3> QED  BY <1>7, <3>2, <3>3 DEF BrowserReceives
    <2>2. ViewInv' /\ Together'
      BY <1>1, <2>1, ReceiveView
    <2> QED  BY <1>1, <2>2 DEF BrowserInv
  <1> QED  BY <1>4, <1>5, <1>6, <1>7 DEF BrowserNext

LEMMA BrowserBegins == BrowserInit => BrowserInv
  <1> SUFFICES ASSUME BrowserInit PROVE BrowserInv
    OBVIOUS
  <1>1. RunsInv
    BY InitBridge, InitDraft, InitAttempt DEF BrowserInit, RunsInv
  <1>2. Logs!LogInv
    <2>1. Logs!LogInit
      BY DEF BrowserInit, Log!LogInit, Logs!LogInit
    <2> QED  BY <2>1, LogsAssumed, Logs!InitSound
  <1>3. /\ nextIndex = 2 /\ cursor[Browser] = 0 /\ seen[Browser] = {} /\ excused[Browser] = {}
        /\ Len(stream) = 1 /\ stream \in Seq(Frames)
    <2>1. nextIndex = 2 /\ cursor[Browser] = 0 /\ seen[Browser] = {} /\ excused[Browser] = {}
      BY DEF BrowserInit, Log!LogInit
    <2>2. PICK f : stream = <<f>>
      BY DEF BrowserInit, Init
    <2>3. stream \in Seq(Frames)
      BY <1>1 DEF RunsInv, BridgeInv, Typed
    <2> QED  BY <2>1, <2>2, <2>3
  <1>4. /\ view.running = FALSE /\ view.text = <<>> /\ view.reasoning = <<>> /\ view \in Views /\ adrift = FALSE
    <2>1. <<>> \in Seq(Int) /\ 0 \in 0..MaxSends
      BY RunsAssumption
    <2> QED  BY <2>1 DEF BrowserInit, Views
  <1>5. \A kind : Bounded(ShownText(stream, 0, kind)) = <<>>
    BY <1>3, ShownFirst, BoundedNothing
  <1>6. Together
    BY <1>3 DEF Together
  <1>7. ViewInv
    <2>1. /\ Bounded(ShownText(stream, 0, "ModelTurnDelta")) = <<>>
          /\ Bounded(ShownText(stream, 0, "ModelReasoningDelta")) = <<>>
      BY <1>5
    <2>2. 0 \notin seen[Browser] /\ adrift \in BOOLEAN /\ ~view.running
      BY <1>3, <1>4
    <2> QED  BY <1>3, <1>4, <2>1, <2>2 DEF ViewInv
  <1> QED  BY <1>1, <1>2, <1>6, <1>7 DEF BrowserInv

\* Log, runs and browser together: what is shown at the cursor is true of the log up to it.
THEOREM BrowserInvariant == BrowserSpec => []BrowserInv
  BY BrowserBegins, BrowserStep, PTL DEF BrowserSpec

\* session.event over drops, breaks and resyncs: a browser that has caught up shows a run exactly
\* while one is open, the draft's text unless a resync took part of it and no keyframe has come
\* since, and the reasoning from the next attempt on.
THEOREM ProjectionFaithfulCorrect == BrowserSpec => []ProjectionFaithful
  <1>1. BrowserInv => ProjectionFaithful
    <2> SUFFICES ASSUME BrowserInv, CaughtUp
                 PROVE  LET last == stream[Len(stream)].kind IN
                        /\ view.running = (last \notin Terminal \cup {"SessionOpened"})
                        /\ ~adrift \/ last = "Snapshot" =>
                              view.text = Bounded(DraftOf("ModelTurnDelta"))
                        /\ ~adrift => view.reasoning = Bounded(DraftOf("ModelReasoningDelta"))
      BY DEF ProjectionFaithful
    <2>1. cursor[Browser] = Len(stream)
      BY DEF CaughtUp
    <2>2. Len(stream) \in seen[Browser]
      <3>1. /\ nextIndex \in Nat /\ nextIndex - 1 = Len(stream) /\ \A i \in excused[Browser] : i < nextIndex - 1
        BY DEF BrowserInv, Together, Logs!LogInv, Logs!LogTypes
      <3>2. 1..Len(stream) \subseteq seen[Browser] \cup excused[Browser]
        BY <2>1 DEF BrowserInv, Logs!LogInv, Logs!Cursors
      <3>3. Len(stream) >= 1
        <4>1. /\ Len(events) >= 1 /\ Len(events) \in Nat /\ events[1].index >= 1
              /\ \A i \in 1..Len(events) : events[i].index = nextIndex - 1 - Len(events) + i
          BY DEF BrowserInv, Logs!LogInv, Logs!Window, Logs!LogTypes
        <4>2. 1 \in 1..Len(events)
          BY <4>1
        <4> QED  BY <3>1, <4>1, <4>2
      <3>4. stream \in Seq(Frames)
        BY DEF BrowserInv, RunsInv, BridgeInv, Typed
      <3>5. Len(stream) \in 1..Len(stream)
        BY <3>3, <3>4
      <3> QED  BY <3>1, <3>2, <3>5
    <2>3. \A kind : DraftOf(kind) = ShownText(stream, Len(stream), kind)
      <3>1. DOMAIN stream = 1..Len(stream)
        BY DEF BrowserInv, RunsInv, BridgeInv, Typed
      <3> QED  BY <3>1 DEF DraftOf, ShownText, Since, ResetsAt, Resets
    <2> QED  BY <2>1, <2>2, <2>3 DEF BrowserInv, ViewInv
  <1> QED  BY <1>1, BrowserInvariant, PTL
=============================================================================
