----------------------------- MODULE TelegramRun -----------------------------
(***************************************************************************)
(* One run in a Telegram chat (channel/telegram/agent_endpoint.go, draft.go*)
(* and the send chain of channel.go): a status message, an ephemeral       *)
(* preview of the answer and the final message. mu guards the session and  *)
(* is held for one step; opMu is held over a call of the Bot API. Timer    *)
(* callbacks run in goroutines of their own, and stopping a timer does not *)
(* stop a callback that has begun.                                         *)
(***************************************************************************)
EXTENDS Integers, Sequences, FiniteSets, SequencesExt

CONSTANTS MaxRunEvents,  \* bound: events of the run
          MaxTgFaults    \* bound: calls that fail or whose answer is lost

VARIABLES tg,       \* the session: quiet mode, finished, holder of opMu, typing
          draft,    \* the preview of this run
          status,   \* the status message, and whether it should have another text
          timers,   \* armed timers
          cbs,      \* callbacks that have begun
          fin,      \* the worker: "run", or the progress of Finish and Abort
          chat,     \* what the user sees
          tfaults, lost, \* failed calls; calls that took effect although they failed
          nEvents
tgVars == <<tg, draft, status, timers, cbs, fin, chat, tfaults, lost, nEvents>>

Kinds == {"show", "stall", "again", "edit", "draft"}
\* The answer: two rich chunks, the first of which takes two plain messages.
Chunks == <<[pieces |-> <<1, 2>>, rich |-> TRUE], [pieces |-> <<3>>, rich |-> TRUE]>>
Legacy(chunk) == [i \in DOMAIN chunk.pieces |-> [pieces |-> <<chunk.pieces[i]>>, rich |-> FALSE]]

TgInit ==
    /\ \E quiet, private \in BOOLEAN :
         /\ tg = [quiet |-> quiet, finished |-> FALSE, op |-> "free", typing |-> TRUE, cancelled |-> FALSE]
         /\ draft = [on |-> ~quiet /\ private, sent |-> FALSE, inFlight |-> FALSE, text |-> FALSE, dirty |-> FALSE,
                     armed |-> FALSE, fired |-> FALSE, stop |-> ~quiet /\ private]
         /\ timers = [k \in Kinds |-> k = "stall" \/ (k = "show" /\ ~quiet)]
    /\ status = [id |-> 0, stale |-> FALSE]
    /\ cbs = [k \in Kinds |-> "idle"]
    /\ fin = [pc |-> "run", kind |-> "none", text |-> FALSE, media |-> 0, sentMedia |-> 0, edit |-> 0, todo |-> <<>>]
    /\ chat = [statuses |-> {}, made |-> 0, preview |-> FALSE, shown |-> <<>>] /\ tfaults = 0 /\ lost = 0 /\ nEvents = 0

Fault == tfaults < MaxTgFaults /\ tfaults' = tfaults + 1
Fine == UNCHANGED <<tfaults, lost>>
\* A call of the Bot API: done, refused, or done with its answer lost.
Call(done, refused) == \/ Fine /\ done
                       \/ Fault /\ UNCHANGED lost /\ refused
Lossy(done, refused, doneButLost) == Call(done, refused) \/ (Fault /\ lost' = lost + 1 /\ doneButLost)

draftVisible == draft.on /\ (draft.sent \/ draft.inFlight \/ draft.text)
\* A timer that is armed, or has fired and waits for opMu, takes the newest content with it.
scheduleDraft(d) == [d EXCEPT !.armed = TRUE]
\* An update to a preview that is shown, or will be, must go out.
Touch(d) == [scheduleDraft(d) EXCEPT !.dirty = TRUE]
disableDraft(d) == [d EXCEPT !.on = FALSE, !.text = FALSE, !.armed = FALSE, !.fired = FALSE, !.stop = FALSE, !.dirty = FALSE]

-----------------------------------------------------------------------------
(* Events of the run *)

\* scheduleStatusEdit: the newest text wins; the edit is debounced. (Which text it is no property tells apart.)
EditWanted == status.id # 0 /\ ~draftVisible /\ ~tg.finished
scheduleStatusEdit ==
    IF EditWanted THEN status' = [status EXCEPT !.stale = TRUE] /\ timers' = [timers EXCEPT !["edit"] = TRUE]
    ELSE UNCHANGED <<status, timers>>

\* A turn starts (resetDraft), or a tool starts or ends; then noteActivity.
Event(turn) ==
    /\ fin.pc = "run" /\ nEvents < MaxRunEvents /\ nEvents' = nEvents + 1
    /\ LET reset == IF draft.on /\ turn THEN [draft EXCEPT !.text = FALSE] ELSE draft
       IN draft' = IF draft.on /\ (draft.sent \/ draft.inFlight \/ reset.text) THEN Touch(reset) ELSE reset
    /\ IF EditWanted
       THEN /\ status' = [status EXCEPT !.stale = TRUE]
            /\ timers' = [timers EXCEPT !["edit"] = TRUE, !["stall"] = TRUE]
       ELSE timers' = [timers EXCEPT !["stall"] = TRUE] /\ UNCHANGED status
    /\ UNCHANGED <<tg, cbs, fin, chat, tfaults, lost>>

\* appendDraft and appendReasoningDraft; a preview that grows too long is given up.
Delta ==
    /\ fin.pc = "run" /\ draft.on /\ ~tg.cancelled /\ nEvents < MaxRunEvents /\ nEvents' = nEvents + 1
    /\ \/ draft' = Touch([draft EXCEPT !.text = TRUE]) /\ UNCHANGED timers
       \/ draft.text /\ draft' = disableDraft(draft) /\ timers' = [timers EXCEPT !["again"] = TRUE]
    /\ UNCHANGED <<tg, status, cbs, fin, chat, tfaults, lost>>

\* The stop button of the preview, or the end of the process: handleStoppedMessageGeneration.
StopRun ==
    /\ fin.pc \in {"run", "lock"} /\ ~tg.cancelled /\ draft.stop /\ chat.preview
    /\ tg' = [tg EXCEPT !.cancelled = TRUE] /\ draft' = [draft EXCEPT !.stop = FALSE]
    /\ UNCHANGED <<status, timers, cbs, fin, chat, tfaults, lost, nEvents>>
Shutdown ==
    /\ fin.pc \in {"run", "lock"} /\ ~tg.cancelled /\ tg' = [tg EXCEPT !.cancelled = TRUE]
    /\ UNCHANGED <<draft, status, timers, cbs, fin, chat, tfaults, lost, nEvents>>

-----------------------------------------------------------------------------
(* Timer callbacks *)

Goes(k, pc) == cbs' = [cbs EXCEPT ![k] = pc]
Ends(k) == Goes(k, "idle")
Free(k) == tg' = [tg EXCEPT !.op = "free"] /\ Ends(k)

Fire(k) ==
    /\ timers[k] /\ cbs[k] = "idle" /\ timers' = [timers EXCEPT ![k] = FALSE]
    /\ Goes(k, IF k = "edit" THEN "read" ELSE "check")
    /\ UNCHANGED <<tg, draft, status, fin, chat, tfaults, lost, nEvents>>
FireDraft ==
    /\ draft.armed /\ ~draft.fired /\ cbs["draft"] = "idle" /\ Goes("draft", "lock") /\ draft' = [draft EXCEPT !.fired = TRUE]
    /\ UNCHANGED <<tg, status, timers, fin, chat, tfaults, lost, nEvents>>

MayShow == ~tg.finished /\ status.id = 0 /\ ~draftVisible
MayEdit == ~tg.finished /\ status.id # 0 /\ ~draftVisible

\* fault: the callback does not look at the session again once it has the lock.
ShowUnchecked == TRUE

\* The second look of showStatus, under opMu.
StillMayShow == MayShow

\* showOrUpdateStatus and the first look of showStatus.
Check(k) ==
    /\ cbs[k] = "check"
    /\ \/ tg.cancelled /\ Ends(k) /\ UNCHANGED <<draft, status, timers>>
       \/ ~tg.cancelled /\ k # "show" /\ status.id # 0 /\ scheduleStatusEdit /\ Ends(k) /\ UNCHANGED draft
       \/ ~tg.cancelled /\ (k = "show" \/ status.id = 0) /\ ~MayShow /\ Ends(k) /\ UNCHANGED <<draft, status, timers>>
       \/ ~tg.cancelled /\ MayShow /\ draft.on /\ draft' = scheduleDraft(draft) /\ Ends(k) /\ UNCHANGED <<status, timers>>
       \/ ~tg.cancelled /\ MayShow /\ ~draft.on /\ Goes(k, "lock") /\ UNCHANGED <<draft, status, timers>>
    /\ UNCHANGED <<tg, fin, chat, tfaults, lost, nEvents>>

Lock(k) ==
    /\ k \in {"show", "stall", "again"} /\ cbs[k] = "lock" /\ tg.op = "free"
    /\ IF StillMayShow THEN tg' = [tg EXCEPT !.op = k] /\ Goes(k, "send") ELSE Ends(k) /\ UNCHANGED tg
    /\ UNCHANGED <<draft, status, timers, fin, chat, tfaults, lost, nEvents>>

NewStatus == [chat EXCEPT !.made = @ + 1, !.statuses = @ \cup {chat.made + 1}, !.preview = FALSE]
SendStatus(k) ==
    /\ cbs[k] = "send" /\ k # "edit" /\ k # "draft"
    /\ Lossy(chat' = NewStatus /\ Goes(k, "sent") /\ UNCHANGED tg,
             Free(k) /\ UNCHANGED chat,
             chat' = NewStatus /\ Free(k))
    /\ UNCHANGED <<draft, status, timers, fin, nEvents>>
StatusSent(k) ==
    /\ cbs[k] = "sent" /\ k # "edit" /\ status' = [id |-> chat.made, stale |-> FALSE] /\ Free(k)
    /\ UNCHANGED <<draft, timers, fin, chat, tfaults, lost, nEvents>>

\* flushStatusEdit: one look without opMu, one with it.
EditRead ==
    /\ cbs["edit"] = "read"
    /\ IF MayEdit /\ status.stale THEN Goes("edit", "lock") ELSE Ends("edit")
    /\ UNCHANGED <<tg, draft, status, timers, fin, chat, tfaults, lost, nEvents>>
EditLock ==
    /\ cbs["edit"] = "lock" /\ tg.op = "free"
    /\ IF MayEdit /\ status.stale
       THEN tg' = [tg EXCEPT !.op = "edit"] /\ Goes("edit", "send") /\ status' = [status EXCEPT !.stale = FALSE]
       ELSE Ends("edit") /\ UNCHANGED <<tg, status>>
    /\ UNCHANGED <<draft, timers, fin, chat, tfaults, lost, nEvents>>
EditSent ==
    /\ cbs["edit"] = "send"
    /\ Call(UNCHANGED status, status' = [status EXCEPT !.stale = TRUE])
    /\ Free("edit") /\ UNCHANGED <<draft, timers, fin, chat, nEvents>>

\* fault: the timer of the preview is not cleared when it has fired.
FlushKeepsTimer(d) == [d EXCEPT !.inFlight = TRUE, !.dirty = FALSE]

\* flushDraft takes what the preview shows now.
Flush(d) == [d EXCEPT !.armed = FALSE, !.fired = FALSE, !.inFlight = TRUE, !.dirty = FALSE]

\* fault: a preview that was due when the run ended is still sent.
FlushUnchecked == draft.on

MayFlush == ~tg.finished /\ draft.on /\ ~tg.cancelled
FlushLock ==
    /\ cbs["draft"] = "lock" /\ tg.op = "free"
    /\ IF MayFlush THEN tg' = [tg EXCEPT !.op = "draft"] /\ Goes("draft", "send") /\ draft' = Flush(draft)
       ELSE Ends("draft") /\ UNCHANGED <<tg, draft>>
    /\ UNCHANGED <<status, timers, fin, chat, tfaults, lost, nEvents>>

\* A preview that cannot be sent is given up for a status message.
FlushFails == /\ draft' = [disableDraft(draft) EXCEPT !.inFlight = FALSE] /\ timers' = [timers EXCEPT !["again"] = TRUE]
FlushSend ==
    /\ cbs["draft"] = "send"
    /\ Lossy(/\ draft' = [draft EXCEPT !.inFlight = FALSE, !.sent = TRUE, !.armed = @ \/ draft.on] /\ chat' = [chat EXCEPT !.preview = TRUE]
             /\ timers' = [timers EXCEPT !["again"] = @ \/ ~draft.on],
             FlushFails /\ UNCHANGED chat,
             FlushFails /\ chat' = [chat EXCEPT !.preview = TRUE])
    /\ Free("draft") /\ UNCHANGED <<status, fin, nEvents>>

-----------------------------------------------------------------------------
(* The end of the run *)

At(pc) == fin.pc = pc
To(pc) == fin' = [fin EXCEPT !.pc = pc]

\* The worker calls Abort when the run was cancelled and Finish otherwise, with text, attachments or both.
EndRun ==
    /\ At("run")
    /\ \E text \in BOOLEAN, media \in 0..2 :
         /\ text \/ media > 0
         /\ fin' = [fin EXCEPT !.pc = "lock", !.kind = IF tg.cancelled THEN "abort" ELSE "finish", !.text = text, !.media = media]
    /\ UNCHANGED <<tg, draft, status, timers, cbs, chat, tfaults, lost, nEvents>>

\* fault: Finish calls Abort with opMu still held.
HandOverLocked == tg' = [tg EXCEPT !.op = "finish"]

\* Finish of a cancelled run lets go of opMu, and Abort takes it again.
HandOver == UNCHANGED tg
FinishCancelled ==
    /\ At("lock") /\ fin.kind = "finish" /\ tg.op = "free" /\ tg.cancelled /\ HandOver
    /\ fin' = [fin EXCEPT !.kind = "abort"] /\ UNCHANGED <<draft, status, timers, cbs, chat, tfaults, lost, nEvents>>

FinishLock ==
    /\ At("lock") /\ tg.op = "free" /\ (tg.cancelled => fin.kind = "abort")
    /\ tg' = [tg EXCEPT !.op = "finish", !.finished = TRUE]
    /\ draft' = [draft EXCEPT !.armed = FALSE, !.fired = FALSE, !.stop = FALSE]
    /\ timers' = [timers EXCEPT !["show"] = FALSE, !["stall"] = FALSE, !["edit"] = FALSE]
    /\ fin' = [fin EXCEPT !.pc = "clean", !.edit = status.id]
    /\ UNCHANGED <<status, cbs, chat, tfaults, lost, nEvents>>

\* After a preview the answer is a new message, which clears it; a status message is deleted.
deleteStatusMessage(id) == chat' = [chat EXCEPT !.statuses = @ \ {id}]
Clean ==
    /\ At("clean") /\ tg' = [tg EXCEPT !.typing = FALSE]
    /\ IF draft.sent /\ fin.edit # 0 THEN Call(deleteStatusMessage(fin.edit), UNCHANGED chat) ELSE Fine /\ UNCHANGED chat
    /\ fin' = [fin EXCEPT !.edit = IF draft.sent THEN 0 ELSE @, !.pc = IF fin.kind = "abort" THEN "stopped" ELSE "answer"]
    /\ UNCHANGED <<draft, status, timers, cbs, nEvents>>

\* Abort shows that the run was stopped, if the user saw anything of it.
Stopped ==
    /\ At("stopped") /\ To("unlock")
    /\ IF fin.edit # 0 THEN Call(deleteStatusMessage(fin.edit), UNCHANGED chat)
       ELSE IF draft.sent THEN Call(chat' = [chat EXCEPT !.preview = FALSE], UNCHANGED chat)
       ELSE Fine /\ UNCHANGED chat
    /\ UNCHANGED <<tg, draft, status, timers, cbs, nEvents>>

Show(pieces) == [chat EXCEPT !.shown = @ \o pieces, !.preview = FALSE]
Media == <<0>>

\* A single attachment takes a short text as its caption.
Caption ==
    /\ At("answer") /\ fin.media = 1 /\ fin.edit = 0
    /\ Lossy(chat' = Show(Media \o (IF fin.text THEN <<1, 2, 3>> ELSE <<>>)) /\ To("unlock"),
             UNCHANGED chat /\ fin' = [fin EXCEPT !.pc = IF fin.text THEN "text" ELSE "excuse", !.media = 0, !.todo = Chunks],
             chat' = Show(Media \o (IF fin.text THEN <<1, 2, 3>> ELSE <<>>))
               /\ fin' = [fin EXCEPT !.pc = IF fin.text THEN "text" ELSE "excuse", !.media = 0, !.todo = Chunks])
    /\ UNCHANGED <<tg, draft, status, timers, cbs, nEvents>>
Answer ==
    /\ At("answer")
    /\ IF fin.text THEN fin' = [fin EXCEPT !.pc = "text", !.todo = Chunks] /\ Fine /\ UNCHANGED chat
       ELSE /\ To("media")
            /\ IF fin.edit # 0 THEN Call(deleteStatusMessage(fin.edit), UNCHANGED chat) ELSE Fine /\ UNCHANGED chat
    /\ UNCHANGED <<tg, draft, status, timers, cbs, nEvents>>

Rest == Tail(fin.todo)
AfterText == IF fin.media > 0 THEN "media" ELSE "unlock"

\* EditText: the first chunk replaces the status message, as a rich message, as HTML or as plain text.
EditFirst ==
    /\ At("text") /\ fin.edit # 0
    /\ LET chunk == Head(fin.todo)
           edited == [chat EXCEPT !.shown = @ \o chunk.pieces, !.statuses = @ \ {fin.edit}]
       IN \/ Fine /\ chat' = edited /\ fin' = [fin EXCEPT !.edit = 0, !.todo = Rest]
          \/ chunk.rich /\ Fine /\ UNCHANGED chat /\ fin' = [fin EXCEPT !.todo = Legacy(chunk) \o Rest]
          \/ ~chunk.rich /\ Fault /\ UNCHANGED <<chat, lost>> /\ fin' = [fin EXCEPT !.edit = 0, !.todo = Chunks]
          \/ ~chunk.rich /\ Fault /\ lost' = lost + 1 /\ chat' = edited /\ fin' = [fin EXCEPT !.edit = 0, !.todo = Chunks]
    /\ UNCHANGED <<tg, draft, status, timers, cbs, nEvents>>

\* fault: an answer that was cut off is sent again from its start.
RestartText == [fin EXCEPT !.todo = IF tfaults < MaxTgFaults THEN Chunks ELSE <<>>]

\* A chunk that cannot be sent ends the text: what follows is not sent, what was shown is not sent again.
GiveUpText == [fin EXCEPT !.todo = <<>>]
SendChunk ==
    /\ At("text") /\ fin.edit = 0 /\ fin.todo # <<>>
    /\ LET chunk == Head(fin.todo)
       IN \/ Fine /\ chat' = Show(chunk.pieces) /\ fin' = [fin EXCEPT !.todo = Rest]
          \/ chunk.rich /\ Fine /\ UNCHANGED chat /\ fin' = [fin EXCEPT !.todo = Legacy(chunk) \o Rest]
          \/ chunk.rich /\ Fault /\ lost' = lost + 1 /\ chat' = Show(chunk.pieces) /\ fin' = [fin EXCEPT !.todo = Legacy(chunk) \o Rest]
          \/ ~chunk.rich /\ Fault /\ UNCHANGED <<chat, lost>> /\ fin' = GiveUpText
    /\ UNCHANGED <<tg, draft, status, timers, cbs, nEvents>>
TextOver ==
    /\ At("text") /\ fin.todo = <<>> /\ To(AfterText)
    /\ UNCHANGED <<tg, draft, status, timers, cbs, chat, tfaults, lost, nEvents>>

\* The attachments, each on its own; one that fails does not keep back the others.
SendMedia ==
    /\ At("media") /\ fin.media > 0
    /\ Lossy(chat' = Show(Media) /\ fin' = [fin EXCEPT !.media = @ - 1, !.sentMedia = @ + 1],
             UNCHANGED chat /\ fin' = [fin EXCEPT !.media = @ - 1],
             chat' = Show(Media) /\ fin' = [fin EXCEPT !.media = @ - 1])
    /\ UNCHANGED <<tg, draft, status, timers, cbs, nEvents>>
MediaOver ==
    /\ At("media") /\ fin.media = 0 /\ To(IF fin.sentMedia = 0 /\ ~fin.text THEN "excuse" ELSE "unlock")
    /\ UNCHANGED <<tg, draft, status, timers, cbs, chat, tfaults, lost, nEvents>>
\* Nothing could be shown: the user is told so.
Excuse ==
    /\ At("excuse") /\ To("unlock") /\ Call(chat' = Show(<<9>>), UNCHANGED chat)
    /\ UNCHANGED <<tg, draft, status, timers, cbs, nEvents>>
Unlock ==
    /\ At("unlock") /\ To("done") /\ tg' = [tg EXCEPT !.op = "free"]
    /\ UNCHANGED <<draft, status, timers, cbs, chat, tfaults, lost, nEvents>>

Callbacks == FireDraft \/ EditRead \/ EditLock \/ EditSent \/ FlushLock \/ FlushSend
             \/ \E k \in Kinds : Fire(k) \/ Check(k) \/ Lock(k) \/ SendStatus(k) \/ StatusSent(k)
Finishes == FinishCancelled \/ FinishLock \/ Clean \/ Stopped \/ Caption \/ Answer \/ EditFirst \/ SendChunk \/ TextOver
            \/ SendMedia \/ MediaOver \/ Excuse \/ Unlock
TgNext == (\E turn \in BOOLEAN : Event(turn)) \/ Delta \/ StopRun \/ Shutdown \/ EndRun \/ Callbacks \/ Finishes
TgSpec == TgInit /\ [][TgNext]_tgVars

\* Callbacks and calls of the Bot API come back; opMu is handed to a waiter at some time; a cancelled run ends.
TgFairness == /\ WF_tgVars(Callbacks) /\ WF_tgVars(Finishes) /\ SF_tgVars(FinishCancelled \/ FinishLock)
              /\ WF_tgVars(EndRun /\ tg.cancelled)

-----------------------------------------------------------------------------
Pieces == SelectSeq(chat.shown, LAMBDA p : p \in 1..3)

\* The answer reaches the user in order and never twice: a failed edit starts it again only if no part of it
\* was shown (textDeliveryStarted), and fallbacks repeat nothing. Without failures it is complete.
FinalTextOnce ==
    /\ lost = 0 => Pieces = [i \in 1..Len(Pieces) |-> i]
    /\ fin.pc = "done" /\ fin.kind = "finish" /\ fin.text /\ tfaults = 0 => Pieces = <<1, 2, 3>>
    /\ fin.pc = "done" /\ fin.kind = "finish" /\ tfaults = 0 => chat.shown # <<>>

\* When the run is over the chat shows only its result: for every status message or preview that is left
\* over a call of the Bot API has failed.
ChatIsClean == fin.pc = "done" => Cardinality(chat.statuses) + (IF chat.preview THEN 1 ELSE 0) <= tfaults

\* A change of a preview that can be seen has a timer, also when it comes while the preview is being sent.
PreviewIsArmed == draft.on /\ draft.dirty /\ ~tg.finished /\ ~tg.cancelled
                  => draft.armed /\ (draft.fired => cbs["draft"] = "lock")

\* Nothing late changes the chat: once the answer was shown no status, edit or preview comes after it.
QuietAfterEnd == [][fin.pc = "done" => chat' = chat /\ status' = status]_tgVars

\* What must end: the session of a run that has ended or was stopped, until opMu is free, no callback is left
\* and typing is off.
SessionEnding ==
    /\ fin.pc # "run" \/ tg.cancelled
    /\ ~(fin.pc = "done" /\ tg.op = "free" /\ ~tg.typing /\ \A k \in Kinds : cbs[k] = "idle")
=============================================================================
