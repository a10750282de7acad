---------------------------- MODULE BridgeBrowser ----------------------------
(***************************************************************************)
(* A bridge session as its browser sees it: the runs of BridgeRuns append  *)
(* their frames to the SessionEventLog, and the browser session            *)
(* (libs/chat-contract/browser/session.go) watches that log and keeps the  *)
(* projection it shows devices that connect in the middle of a run.        *)
(*                                                                         *)
(* The two modules share the event index: frame i of `stream` is the event *)
(* with index i of the log, so the log need not carry the frames.          *)
(***************************************************************************)
EXTENDS BridgeRuns

CONSTANTS
    Browser,            \* the browser session's watch loop
    Retention, RetentionBytes, SubscriberBuffer, Sizes, MaxEvents, MaxBreaks,
    MaxDraft            \* maxDraftBytes, in tokens

ASSUME BrowserAssumption ==
    /\ {MaxDraft, Retention, RetentionBytes, SubscriberBuffer, MaxEvents} \subseteq Nat \ {0}
    /\ Sizes \subseteq Nat \ {0} /\ MaxBreaks \in Nat

VARIABLES
    nextIndex, events, retainedBytes, subscribers, watching, replay, channel,
    cursor, seen, excused, breaks,
    view,       \* session.running, text, reasoning, turn
    adrift      \* ghost: resynced, and no frame has reset the draft since

Log == INSTANCE SessionEventLog WITH Watchers <- {Browser}

watchVars == <<nextIndex, events, retainedBytes, subscribers, watching, replay,
               channel, cursor, seen, excused, breaks, view, adrift>>
browserVars == <<inbound, sent, pc, run, session, cancelled, shutdown, rs, fired,
                 stage, result, tokens, steps, outbox, stream, stops, named,
                 blanket, nextIndex, events, retainedBytes, subscribers, watching,
                 replay, channel, cursor, seen, excused, breaks, view, adrift>>

\* boundedAppend and the keyframe's truncation keep the first maxDraftBytes.
Bounded(s) == IF Len(s) > MaxDraft THEN SubSeq(s, 1, MaxDraft) ELSE s

\* fault: a run shows only from its first attempt on
NewTurn(f) == f.kind = "ModelTurnStarted"

\* session.event: the frames that start a draft ...
StartsDraft(f) == f.kind \in {"RunStarted", "ModelTurnStarted"}

\* fault: only a finished run ends the projection, a failed one does not
EndsWell(f) == f.kind = "RunFinished"

\* ... and those that end it.
EndsDraft(f) == f.kind \in Terminal

\* session.event: what one frame does to the projection.
Project(v, f) ==
    LET turned == IF f.turn # 0 THEN [v EXCEPT !.turn = f.turn] ELSE v IN
    CASE StartsDraft(f) ->
            [turned EXCEPT !.running = TRUE, !.text = <<>>, !.reasoning = <<>>]
      [] f.kind = "ModelTurnDelta" ->
            [turned EXCEPT !.running = TRUE, !.text = Bounded(@ \o f.text)]
      [] f.kind = "ModelReasoningDelta" ->
            [turned EXCEPT !.running = TRUE, !.reasoning = Bounded(@ \o f.text)]
      [] f.kind = "Snapshot" ->
            [turned EXCEPT !.running = TRUE, !.text = Bounded(f.text)]
      [] f.kind = "Tool" -> [turned EXCEPT !.running = TRUE]
      [] EndsDraft(f) ->
            [turned EXCEPT !.running = FALSE, !.text = <<>>, !.reasoning = <<>>]
      [] OTHER -> turned

Shown(e) == IF e.notice THEN UNCHANGED view
                        ELSE view' = Project(view, stream[e.index])

Drifts(e) ==
    adrift' = (e.notice \/ (adrift /\ stream[e.index].kind \notin
                                Terminal \cup {"RunStarted", "ModelTurnStarted"}))

\* A frame reaches the log and, through it, the streams.
StreamFrame ==
    /\ AppendFrame
    /\ \E z \in Sizes : Log!AppendEvent(z)
    /\ UNCHANGED <<view, adrift>>

\* The watch loop receives the next event of its stream.
BrowserReceives ==
    /\ \/ /\ Log!SendReplay(Browser)
          /\ Shown(Head(replay[Browser])) /\ Drifts(Head(replay[Browser]))
       \/ /\ Log!SendLive(Browser)
          /\ Shown(Head(channel[Browser])) /\ Drifts(Head(channel[Browser]))
    /\ UNCHANGED runVars

BrowserStream ==
    /\ Log!WatchEvents(Browser) \/ Log!EndOfStream(Browser) \/ Log!Break(Browser)
    /\ UNCHANGED runVars /\ UNCHANGED <<view, adrift>>

Rpcs     == Rpc        /\ UNCHANGED watchVars
Works    == Worker     /\ UNCHANGED watchVars
Engines  == EngineStep /\ UNCHANGED watchVars
Timers   == Timer      /\ UNCHANGED watchVars
Stopping == Shutdown   /\ UNCHANGED watchVars

BrowserInit ==
    /\ Init
    /\ Log!LogInit
    /\ view = [running |-> FALSE, text |-> <<>>, reasoning |-> <<>>, turn |-> 0]
    /\ adrift = FALSE

BrowserNext ==
    \/ Rpcs \/ Works \/ Engines \/ Timers \/ Stopping
    \/ StreamFrame \/ BrowserReceives \/ BrowserStream

BrowserSpec == BrowserInit /\ [][BrowserNext]_browserVars

BrowserFairSpec ==
    /\ BrowserSpec
    /\ WF_browserVars(Works) /\ WF_browserVars(Engines)
    /\ WF_browserVars(Timers) /\ WF_browserVars(StreamFrame)
    /\ WF_browserVars(BrowserReceives \/ BrowserStream)

-----------------------------------------------------------------------------
CaughtUp == cursor[Browser] = Len(stream)

\* The streamed deltas of a kind since a run or an attempt last started or ended.
DraftOf(kind) ==
    LET resets == {j \in DOMAIN stream :
                     stream[j].kind \in Terminal \cup {"RunStarted", "ModelTurnStarted"}}
        from   == IF resets = {} THEN 1 ELSE Max(resets)
    IN  TextOf(SubSeq(stream, from, Len(stream)), {kind})

\* session.event over drops, breaks and resyncs: a browser that has caught up
\* shows a run exactly while the stream has one open, and shows its draft text;
\* after a resync the text is right again from the next keyframe on, and the
\* reasoning, which has no keyframe, from the next attempt on.
ProjectionFaithful ==
    CaughtUp =>
      LET last == stream[Len(stream)].kind IN
      /\ view.running = (last \notin Terminal \cup {"SessionOpened"})
      /\ ~adrift \/ last = "Snapshot" =>
            view.text = Bounded(DraftOf("ModelTurnDelta"))
      /\ ~adrift => view.reasoning = Bounded(DraftOf("ModelReasoningDelta"))

\* A browser is never left showing a run that is over: when the worker is idle
\* for good the projection is idle too.
BrowserSettles == <>[](~view.running /\ CaughtUp)
=============================================================================
