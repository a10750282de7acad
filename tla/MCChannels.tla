----------------------------- MODULE MCChannels -----------------------------
(***************************************************************************)
(* Bounded instances of what carries messages to the user: the runtime's   *)
(* outbound workers and Deliver streams, the session event log of the chat *)
(* bridge, a run shown in a Telegram chat, the text it is cut into, and    *)
(* the media store. The components share no state here, so a behaviour     *)
(* follows one of them (focus) and leaves the others where they start.     *)
(***************************************************************************)
EXTENDS Outbound, SessionEventLog, TelegramRun, TelegramText, MediaStore

CONSTANT Focuses    \* the components the run explores
VARIABLE focus

channelVars == <<focus, obVars, logVars, tgVars, txVars, msVars>>

mDocuments == UNION {[1..n -> {"text", "blank", "fence", "row", "sep", "wide", "head"}] : n \in 0..4}
mStrings == UNION {[1..n -> {"x", "s", "n"}] : n \in 0..7}
mDetected == [voice |-> "application/ogg", photo |-> "image/png"]
mKindOf == [voice |-> "audio", photo |-> "image"]

ChannelsInit ==
    /\ focus \in Focuses
    /\ OutboundInit /\ MediaInit
    /\ LogInit /\ (focus # "log" => retainedBytes = 1)
    /\ TgInit /\ (focus # "telegram" => tg.quiet)
    /\ TextInit /\ (focus # "text" => lines = <<>> /\ whole = <<>>)

OnlyOutbound == focus = "outbound" /\ UNCHANGED <<focus, logVars, tgVars, txVars, msVars>>
OnlyLog      == focus = "log" /\ UNCHANGED <<focus, obVars, tgVars, txVars, msVars>>
OnlyTelegram == focus = "telegram" /\ UNCHANGED <<focus, obVars, logVars, txVars, msVars>>
OnlyText     == focus = "text" /\ UNCHANGED <<focus, obVars, logVars, tgVars, msVars>>
OnlyMedia    == focus = "media" /\ UNCHANGED <<focus, obVars, logVars, tgVars, txVars>>

ChannelsNext ==
    \/ OnlyOutbound /\ OutboundNext
    \/ OnlyLog /\ LogNext
    \/ OnlyTelegram /\ TgNext
    \/ OnlyText /\ TextNext
    \/ OnlyMedia /\ MediaNext

\* OutboundFairness, the fairness of LogFairSpec, TgFairness and MediaFairness, of the component in focus.
ChannelsFairness ==
    /\ WF_channelVars((OnlyTelegram /\ Callbacks) \/ (OnlyOutbound /\ Runtime) \/ (OnlyLog /\ StreamStep("a")))
    /\ WF_channelVars((OnlyTelegram /\ Finishes) \/ (OnlyMedia /\ MediaSystem) \/ (OnlyLog /\ StreamStep("b")))
    /\ SF_channelVars(OnlyTelegram /\ (FinishCancelled \/ FinishLock))
    /\ WF_channelVars(OnlyTelegram /\ EndRun /\ tg.cancelled)

ChannelsSpec == ChannelsInit /\ [][ChannelsNext]_channelVars
ChannelsFairSpec == ChannelsSpec /\ ChannelsFairness

Unfinished ==
    \/ focus = "outbound" /\ HeldUp
    \/ focus = "log" /\ Behind
    \/ focus = "telegram" /\ SessionEnding
    \/ focus = "media" /\ UpdatesWait

\* Nothing waits for ever: a publisher or the runtime's shutdown for a client that does not read, a watcher of
\* the event log for what it missed, a Telegram session for its own callbacks and locks, an update at Telegram
\* for a polling session that keeps breaking.
ChannelsSettle == Unfinished ~> ~Unfinished

\* The outbound worker and the bridge's fan-out: an error means that nobody got the message, a stream that lives
\* misses nothing, and the runtime's end reports the error that caused it.
OutboundSafe == ErrorMeansNobody /\ StreamsHaveNoGaps /\ ErrorsAreReported

\* Telegram: the answer is shown once and complete, no preview is left beside it, a visible preview that changed
\* is on its way, and the text arrives whole in chunks that stand alone.
TelegramSafe ==
    /\ FinalTextOnce /\ ChatIsClean /\ PreviewIsArmed
    /\ EveryLineIsSent /\ ChunksStandAlone /\ SplitKeepsText

\* The media store: what was accepted stays readable until it is due, and no sweep or failure leaves a scope
\* that names an object that is gone.
MediaSafe == AcceptedMediaResolves /\ ScopesAreBacked
=============================================================================
