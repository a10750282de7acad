---------------------------- MODULE AgentEngine ----------------------------
(***************************************************************************)
(* One agent process's model and tool turns: Loop.Reply over Engine.Run    *)
(* (agent/engine.go, loop.go, loop_safety.go, turn_budget.go), and the     *)
(* reply turnreply makes of the finished transcript. A run is either a     *)
(* user's turn, which is persisted, or one engine run of a subagent, whose *)
(* turn budget outlives the run. Texts are abstracted to whether there is  *)
(* one; a tool call is its tool, an attachment is its media ref.           *)
(***************************************************************************)
EXTENDS Integers, Sequences, FiniteSets, SequencesExt

CONSTANTS Tools,          \* names in the registry
          DeliverTools,   \* the tools whose definition says DeliversAttachments
          Refs,           \* media refs tools attach
          Models,         \* sequence: the configured model refs
          maxTurns,       \* Engine.maxTurns
          maxEmpty,       \* maxEmptyAssistantRetries
          historySize,    \* toolLoopDetector.historySize
          critical,       \* toolLoopDetector.criticalThreshold
          budgetLimit,    \* TurnBudget.limit of a subagent session
          MaxAgentRuns    \* bound: runs of the process

ASSUME EngineAssumption ==
    /\ DeliverTools \subseteq Tools /\ maxTurns \in Nat \ {0} /\ budgetLimit \in Nat \ {0}
    /\ historySize \in Nat /\ critical \in 1..historySize /\ maxEmpty \in Nat
    /\ Models \in Seq({Models[i] : i \in DOMAIN Models})

VARIABLES phase,     \* "idle", "turn", "attempt", "call", "tool", "persist"
          agRun,     \* the local state of Engine.Run
          agMsgs,    \* messages[start:]: what the run has produced
          agStored,  \* turns in the conversation store, by sequence
          agReply,   \* what Reply told: events and, at the end, attachments
          used,      \* TurnBudget.used
          agCount    \* runs, and history of what the tools attached

agVars == <<phase, agRun, agMsgs, agStored, agReply, used, agCount>>

\* A message: its role, whether it has text, the calls it makes, the call it answers, its media.
Msg(role, text, calls, res, media) ==
    [role |-> role, text |-> text, calls |-> calls, res |-> res, media |-> media]
AssistantText == Msg("assistant", TRUE, <<>>, 0, {})
ToolResult(id, media) == Msg("tool", FALSE, <<>>, id, media)

Batches == {<<>>} \cup {<<a>> : a \in Tools} \cup {<<a, b>> : a, b \in Tools}
ModelReplies == [text : BOOLEAN, tools : Batches]

\* What a call can come to: the registry knows the tool or not, its policy allows it or not, it fails or
\* not; what the run tells apart is the media of its result.
ToolOutcomes == {{}} \cup {{r} : r \in Refs}

CallIds(msgs) == UNION {{m.calls[k].id : k \in 1..Len(m.calls)} : m \in ToSet(msgs)}

-----------------------------------------------------------------------------
(* turnreply *)

\* fault: the tool that attached a media is not asked for.
deliversAll(msgs, m) == m.role = "tool"

\* messageDelivers: the tool whose call this message answers is a deliver tool.
messageDelivers(msgs, m) ==
    /\ m.role = "tool"
    /\ \E c \in ToSet(msgs) : \E k \in 1..Len(c.calls) :
         c.calls[k].id = m.res /\ c.calls[k].tool \in DeliverTools

collectDeliveredAttachments(msgs) ==
    UNION {m.media : m \in {x \in ToSet(msgs) : messageDelivers(msgs, x)}}

\* trailingRoleBlockStart with collectReplyAttachments: media the last assistant messages own.
TrailingAssistantMedia(msgs) ==
    UNION {msgs[k].media : k \in {j \in 1..Len(msgs) : \A i \in j..Len(msgs) : msgs[i].role = "assistant"}}

\* selectAttachments: assistant-owned ones first, else what deliver tools attached.
selectAttachments(msgs) ==
    IF TrailingAssistantMedia(msgs) # {} THEN TrailingAssistantMedia(msgs)
    ELSE collectDeliveredAttachments(msgs)

\* messageSurvivesCompaction
messageSurvivesCompaction(m) == m.res # 0 \/ m.calls # <<>> \/ m.text \/ m.media # {}

\* The messages that have a part, in their order; upTo[n] are those among the first n.
Survivors(msgs) ==
    LET upTo[n \in 0..Len(msgs)] ==
          IF n = 0 THEN <<>>
          ELSE IF messageSurvivesCompaction(msgs[n]) THEN Append(upTo[n - 1], msgs[n]) ELSE upTo[n - 1]
    IN upTo[Len(msgs)]

\* fault: a message without text or media is dropped, its result part with it.
CanonicalizeDropping(msgs) == SelectSeq(msgs, LAMBDA m : m.text \/ m.media # {} \/ m.calls # <<>>)

\* Canonicalize: delivered media moves from the tool messages to the last assistant message, which is
\* added when the turn ends with a tool message; messages without parts are dropped.
Canonicalize(msgs) ==
    LET given == collectDeliveredAttachments(msgs)
        ends == msgs # <<>> /\ Last(msgs).role = "assistant"
        whole == IF ends THEN msgs ELSE Append(msgs, Msg("assistant", FALSE, <<>>, 0, {}))
        moved == [k \in 1..Len(whole) |->
                    IF whole[k].role = "tool" THEN [whole[k] EXCEPT !.media = @ \ given]
                    ELSE IF k = Len(whole) THEN [whole[k] EXCEPT !.media = @ \cup given]
                    ELSE whole[k]]
    IN Survivors(IF TrailingAssistantMedia(msgs) # {} \/ given = {} THEN msgs ELSE moved)

-----------------------------------------------------------------------------
NoRun == [mode |-> "none", turn |-> 0, empty |-> 0, ctx |-> TRUE, final |-> FALSE, refs |-> <<>>,
          todo |-> <<>>, seen |-> <<>>, stop |-> "none", err |-> FALSE]
NoReply == [events |-> <<>>, media |-> {}, stop |-> "none", refused |-> FALSE]

AgentInit ==
    /\ phase = "idle" /\ agRun = NoRun /\ agMsgs = <<>> /\ agReply = NoReply /\ used = 0
    /\ agStored = [kind |-> "none", msgs |-> <<>>, stop |-> "none"]
    /\ agCount = [runs |-> 0, given |-> {}, asked |-> 0, ranFinal |-> FALSE, subEnded |-> FALSE]

\* Reply under Loop.mu up to engine.Run: the sequence is reserved, the last user timestamp loaded and
\* the context prepared; each of the three may fail and then ends the run.
Reply(outcome) ==
    /\ phase = "idle" /\ agCount.runs < MaxAgentRuns
    /\ agCount' = [agCount EXCEPT !.runs = @ + 1, !.given = {}, !.ranFinal = FALSE]
    /\ agMsgs' = <<>> /\ agStored' = [kind |-> "none", msgs |-> <<>>, stop |-> "none"]
    /\ agReply' = [NoReply EXCEPT !.events =
         CASE outcome = "ok" -> <<"run_started">>
           [] outcome = "prepare" -> <<"run_started", "run_failed">>
           [] OTHER -> <<"run_failed">>]
    /\ IF outcome = "ok" THEN phase' = "turn" /\ agRun' = [NoRun EXCEPT !.mode = "reply"]
       ELSE UNCHANGED <<phase, agRun>>
    /\ UNCHANGED used

\* subagent Manager.run calls engine.Run again while turns remain, with the session's TurnBudget.
SubagentRun ==
    /\ phase = "idle" /\ agCount.runs < MaxAgentRuns /\ ~agCount.subEnded
    /\ agCount' = [agCount EXCEPT !.runs = @ + 1, !.given = {}, !.ranFinal = FALSE]
    /\ agMsgs' = <<>> /\ agStored' = [kind |-> "none", msgs |-> <<>>, stop |-> "none"]
    /\ agReply' = NoReply
    /\ phase' = "turn" /\ agRun' = [NoRun EXCEPT !.mode = "sub"]
    /\ UNCHANGED used

\* The user's stop, a closed connection or a killed session.
CancelRun ==
    /\ phase # "idle" /\ agRun.ctx
    /\ agRun' = [agRun EXCEPT !.ctx = FALSE]
    /\ UNCHANGED <<phase, agMsgs, agStored, agReply, used, agCount>>

Budgeted == agRun.mode = "sub"

\* fault: a continued run gets a budget of its own.
RemainingPerRun == budgetLimit - agRun.turn

\* TurnBudget.Remaining
Remaining == budgetLimit - used

OutOfTurns == agRun.turn >= maxTurns \/ (Budgeted /\ Remaining <= 0)

\* The end of Run's loop and of Reply's engine.Run: the summary of a stop is appended, the transcript
\* is canonicalized.
Stopped(reason, msgs) ==
    /\ agRun' = [agRun EXCEPT !.stop = reason, !.err = TRUE, !.todo = <<>>, !.refs = <<>>]
    /\ agMsgs' = Canonicalize(Append(msgs, AssistantText))
    /\ phase' = "persist"

\* Run returns an error: Reply persists nothing.
Fails ==
    /\ agRun' = [agRun EXCEPT !.err = TRUE, !.todo = <<>>, !.refs = <<>>]
    /\ phase' = "persist"

TurnLimit ==
    /\ phase = "turn" /\ OutOfTurns
    /\ Stopped(IF Budgeted /\ Remaining <= 0 THEN "budget" ELSE "turns", agMsgs)
    /\ UNCHANGED <<agStored, agReply, used, agCount>>

\* The head of the loop and completeWithObserver's plan: any suffix-closed choice of eligible refs, or none.
TurnStart(n) ==
    /\ phase = "turn" /\ ~OutOfTurns
    /\ used' = IF Budgeted THEN used + 1 ELSE used
    /\ agCount' = [agCount EXCEPT !.asked = IF Budgeted THEN @ + 1 ELSE @]
    /\ IF n = 0 THEN Fails
       ELSE /\ phase' = "attempt"
            /\ agRun' = [agRun EXCEPT !.refs = SubSeq(Models, 1, n),
                                      !.final = Budgeted /\ Remaining = 1]
    /\ UNCHANGED <<agMsgs, agStored, agReply>>

\* One model fails, in fitting the context or in Complete; the last one ends the run.
AttemptFails ==
    /\ phase = "attempt"
    /\ IF ~agRun.ctx \/ Len(agRun.refs) = 1 THEN Fails
       ELSE agRun' = [agRun EXCEPT !.refs = Tail(@)] /\ UNCHANGED phase
    /\ UNCHANGED <<agMsgs, agStored, agReply, used, agCount>>

\* The provider names the calls; a name is unique in its turn, so the place of the call, two in a message, stands for it.
Numbered(tools) == [k \in 1..Len(tools) |-> [id |-> 2 * Len(agMsgs) + k, tool |-> tools[k]]]

\* The results of calls made on the final turn, where tools are disabled.
Unexecuted(calls) == [k \in 1..Len(calls) |-> ToolResult(calls[k].id, {})]

\* fault: an empty answer is asked for again for ever, on the same turn.
EmptyAgain(run) == run

\* An empty answer costs a turn of the run and is asked for again.
EmptyRetry(run) == [run EXCEPT !.empty = @ + 1, !.turn = @ + 1]

\* A model answers: Run's handling of the result up to the first tool call.
AttemptSucceeds(reply) ==
    /\ phase = "attempt" /\ agRun.ctx
    /\ LET calls == Numbered(reply.tools)
           msg == Msg("assistant", reply.text, calls, 0, {})
           result == IF messageSurvivesCompaction(msg) THEN Append(agMsgs, msg) ELSE agMsgs
       IN \/ /\ agRun.final /\ (calls # <<>> \/ ~reply.text)
             /\ Stopped("budget", result \o Unexecuted(calls))
          \/ /\ ~agRun.final /\ calls = <<>> /\ ~reply.text /\ agRun.empty < maxEmpty
             /\ agRun' = EmptyRetry(agRun) /\ phase' = "turn" /\ UNCHANGED agMsgs
          \/ /\ calls = <<>>
             /\ (reply.text \/ (~agRun.final /\ agRun.empty >= maxEmpty))
             /\ agMsgs' = Canonicalize(result) /\ phase' = "persist"
             /\ \E incomplete \in {FALSE, agRun.final} :
                  agRun' = [agRun EXCEPT !.refs = <<>>, !.err = incomplete]
          \/ /\ ~agRun.final /\ calls # <<>>
             /\ agMsgs' = result /\ phase' = "call"
             /\ agRun' = [agRun EXCEPT !.todo = calls, !.empty = 0, !.refs = <<>>]
    /\ UNCHANGED <<agStored, agReply, used, agCount>>

\* The next call of the batch starts; a cancelled context ends the run before it.
ToolStarts ==
    /\ phase = "call" /\ agRun.todo # <<>>
    /\ IF agRun.ctx THEN phase' = "tool" /\ UNCHANGED agRun ELSE Fails
    /\ agCount' = [agCount EXCEPT !.ranFinal = @ \/ agRun.final]
    /\ UNCHANGED <<agMsgs, agStored, agReply, used>>

\* fault: the window keeps one record more than historySize.
RecordUntrimmed(seen, sig) ==
    LET all == Append(seen, sig)
    IN [seen |-> SubSeq(all, 1 + (IF Len(all) > historySize + 1 THEN 1 ELSE 0), Len(all)),
        critical |-> Cardinality({k \in 1..Len(all) : all[k].tool = sig.tool}) > critical]

\* toolLoopDetector.Record: the same call, or the same call with the same output, too often.
Record(seen, sig) ==
    LET all == Append(seen, sig)
        kept == SubSeq(all, 1 + (IF Len(all) > historySize THEN Len(all) - historySize ELSE 0), Len(all))
        repeat == Cardinality({k \in 1..Len(kept) : kept[k].tool = sig.tool})
        stuck == Cardinality({k \in 1..Len(kept) : \A i \in k..Len(kept) : kept[i] = sig})
    IN [seen |-> kept, critical |-> repeat >= critical \/ stuck >= critical]

\* A call ends: its result is a message, the context is looked at again, the loop guard counts it.
ToolFinishes(media) ==
    /\ phase = "tool"
    /\ LET call == Head(agRun.todo)
           msgs == Append(agMsgs, ToolResult(call.id, media))
           guard == Record(agRun.seen, [tool |-> call.tool, out |-> media])
       IN /\ agCount' = [agCount EXCEPT !.given = IF call.tool \in DeliverTools THEN @ \cup media ELSE @]
          /\ IF ~agRun.ctx THEN Fails /\ agMsgs' = msgs
             ELSE IF guard.critical THEN Stopped("loop", msgs)
             ELSE /\ agMsgs' = msgs
                  /\ agRun' = [agRun EXCEPT !.todo = Tail(@), !.seen = guard.seen,
                                            !.turn = IF Len(agRun.todo) = 1 THEN @ + 1 ELSE @]
                  /\ phase' = IF Len(agRun.todo) = 1 THEN "turn" ELSE "call"
    /\ UNCHANGED <<agStored, agReply, used>>

\* fault: a run that was stopped is told and not persisted.
KeepsAnswersOnly == ~agRun.err

\* Reply persists a finished run, and one that a StopError ended.
Keeps == ~agRun.err \/ agRun.stop # "none"

\* Reply after engine.Run: the turn is appended, then the end of the run is told.
Persist(ok) ==
    /\ phase = "persist" /\ phase' = "idle" /\ agRun' = NoRun
    /\ IF agRun.mode = "reply"
       THEN IF Keeps /\ ok
            THEN /\ agStored' = [kind |-> "turn", msgs |-> agMsgs, stop |-> agRun.stop]
                 /\ agReply' = [events |-> Append(agReply.events, IF agRun.err THEN "run_failed" ELSE "run_finished"),
                                media |-> IF agRun.err THEN {} ELSE selectAttachments(agMsgs),
                                stop |-> agRun.stop, refused |-> FALSE]
            ELSE /\ agReply' = [agReply EXCEPT !.events = Append(@, "run_failed"),
                                               !.stop = agRun.stop, !.refused = Keeps]
                 /\ UNCHANGED agStored
       ELSE /\ agReply' = [agReply EXCEPT !.media = selectAttachments(agMsgs)]
            /\ UNCHANGED agStored
    /\ agCount' = [agCount EXCEPT !.subEnded = @ \/ (agRun.mode = "sub" /\ (agRun.err \/ Remaining <= 0))]
    /\ agMsgs' = <<>> /\ UNCHANGED used

EngineStep ==
    \/ TurnLimit \/ (\E n \in 0..Len(Models) : TurnStart(n)) \/ AttemptFails
    \/ (\E reply \in ModelReplies : AttemptSucceeds(reply))
    \/ ToolStarts \/ (\E media \in ToolOutcomes : ToolFinishes(media))
    \/ (\E ok \in BOOLEAN : Persist(ok))

AgentNext ==
    \/ (\E outcome \in {"reserve", "prepare", "ok"} : Reply(outcome)) \/ SubagentRun
    \/ CancelRun \/ EngineStep

AgentSpec == AgentInit /\ [][AgentNext]_agVars

\* Models and tools return (they have deadlines or their context ends), so the goroutine that runs the
\* engine keeps taking steps.
AgentFairness == WF_agVars(EngineStep)

-----------------------------------------------------------------------------
\* The state of a run: its batch is only open in a batch, and the loop detector's window is bounded.
AgentTypeOK ==
    /\ phase \in {"idle", "turn", "attempt", "call", "tool", "persist"}
    /\ agRun.turn \in 0..maxTurns /\ agRun.empty \in 0..maxEmpty
    /\ Len(agRun.seen) <= historySize
    /\ (phase \in {"call", "tool"}) => agRun.todo # <<>>
    /\ (phase = "attempt") => agRun.refs # <<>>

\* A turn that was appended can be replayed to a provider: it does not end with a message that asks for
\* tools, every result answers a call, and every call has one result unless the tool-loop guard
\* (engine.go:272) ended the run within the batch.
StoredTurnsAreWhole ==
    LET msgs == agStored.msgs
        open == Cardinality({id \in CallIds(msgs) : ~\E k \in 1..Len(msgs) : msgs[k].res = id})
    IN agStored.kind = "turn" =>
         /\ msgs # <<>> => Last(msgs).calls = <<>>
         /\ agStored.stop # "none" => Last(msgs) = AssistantText \/ Last(msgs).media # {}
         /\ \A k \in 1..Len(msgs) : msgs[k].res # 0 => msgs[k].res \in CallIds(msgs)
         /\ \A i, j \in 1..Len(msgs) : i # j /\ msgs[i].res = msgs[j].res => msgs[i].res = 0
         /\ open = 0 \/ (agStored.stop = "loop" /\ open = 1)

\* Every tool call of an appended turn has a result. Engine.Run stops within a batch when the loop guard
\* fires and appends no result for the calls that are left, so it does not hold.
StoredCallsAreAnswered ==
    agStored.kind = "turn" =>
      \A id \in CallIds(agStored.msgs) : \E k \in 1..Len(agStored.msgs) : agStored.msgs[k].res = id

\* What a run hands to the user is exactly what deliver tools attached in it, whatever tools ran before,
\* between and after them: no media of another tool leaks, none is lost (turnreply, issue #110).
DeliversExactly ==
    /\ (phase = "idle" /\ agReply.events # <<>> /\ Last(agReply.events) = "run_finished") => agReply.media = agCount.given
    /\ (phase = "persist" /\ ~agRun.err) => selectAttachments(Canonicalize(agMsgs)) = agCount.given

\* Every reply is told ended exactly once, last; a finished one is in the store, and so is one that a
\* guard stopped, as its summary says ("Progress up to this point has been saved"), unless the append failed.
EndsAreTold ==
    agReply.events # <<>> /\ phase = "idle" =>
      LET ends == {k \in 1..Len(agReply.events) : agReply.events[k] # "run_started"}
      IN /\ ends = {Len(agReply.events)}
         /\ Last(agReply.events) = "run_finished" => agStored.kind = "turn" /\ agStored.stop = "none"
         /\ agReply.stop # "none" /\ ~agReply.refused => agStored.kind = "turn"

\* However often a session's run is continued, its model is asked at most budgetLimit times, and no tool
\* runs on the final turn.
BudgetIsShared == agCount.asked <= budgetLimit /\ ~agCount.ranFinal

\* What must end, whatever the model answers: retries of empty answers, tool turns and fallbacks are bounded.
RunUnderway == phase # "idle"
=============================================================================
