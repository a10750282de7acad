--------------------------- MODULE SessionEventLog ---------------------------
(***************************************************************************)
(* The event log of one bridge session and the WatchEvents streams that    *)
(* serve it (systems/agent/internal/channel/bridge/events.go), with the    *)
(* one client the repository has, the browser session's watch loop         *)
(* (libs/chat-contract/browser/session.go), at the other end.              *)
(*                                                                         *)
(* An event is its index and its serialized size: what an event says is    *)
(* BridgeRuns' subject.  Every action is one critical section of the log's *)
(* mutex or one hand-over between a stream's handler and its client.       *)
(***************************************************************************)
EXTENDS Integers, Sequences, FiniteSets, SequencesExt

CONSTANTS
    Watchers,           \* clients that keep a WatchEvents stream open
    Retention,          \* sessionEventRetention
    RetentionBytes,     \* sessionEventRetentionBytes
    SubscriberBuffer,   \* sessionSubscriberBuffer
    Sizes,              \* serialized sizes an event may have
    MaxEvents,          \* bound: events appended in a behaviour
    MaxBreaks           \* bound: streams that break from outside

ASSUME LogAssumption ==
    /\ Retention \in Nat \ {0}
    /\ RetentionBytes \in Nat \ {0}
    /\ SubscriberBuffer \in Nat \ {0}
    /\ Sizes \subseteq Nat \ {0}
    /\ MaxEvents \in Nat \ {0}
    /\ MaxBreaks \in Nat

VARIABLES
    nextIndex,      \* index the next append takes
    events,         \* retained events, oldest first
    retainedBytes,  \* the running total the eviction loop compares
    subscribers,    \* streams the log still fans out to
    watching,       \* streams whose WatchEvents handler has not returned
    replay,         \* the part of the replay each handler has yet to send
    channel,        \* each subscriber's buffered channel
    cursor,         \* browser.session.index: the last index received
    seen,           \* ghost: event indexes the client received
    excused,        \* ghost: indexes a resync notice told the client about
    breaks          \* streams broken from outside so far

logVars == <<nextIndex, events, retainedBytes, subscribers, watching, replay,
             channel, cursor, seen, excused, breaks>>

Frame(i) == [index |-> i, notice |-> FALSE]
Notice(i) == [index |-> i, notice |-> TRUE]

\* What a handler still has to hand over.  A handler whose subscriber is no
\* longer registered reads a closed channel: the buffered rest, then its end.
Pending(w) == replay[w] \o channel[w]

Bytes(s) == FoldLeft(LAMBDA total, e : total + e.size, 0, s)

-----------------------------------------------------------------------------
\* fault: the newest event is evicted with the rest when it alone is too big
EvictEverything(s, total) ==
    CHOOSE d \in 0..Len(s) :
        /\ d = Len(s) \/ (Len(s) - d <= Retention
                          /\ total - Bytes(SubSeq(s, 1, d)) <= RetentionBytes)
        /\ \A e \in 0..(d - 1) :
              ~(Len(s) - e <= Retention
                /\ total - Bytes(SubSeq(s, 1, e)) <= RetentionBytes)

\* How many of the oldest events an append evicts: just enough for both
\* limits, and never the newest one.
Drop(s, total) ==
    CHOOSE d \in 0..(Len(s) - 1) :
        LET Fits(n) == \/ n = Len(s) - 1
                       \/ /\ Len(s) - n <= Retention
                          /\ total - Bytes(SubSeq(s, 1, n)) <= RetentionBytes
        IN  Fits(d) /\ \A e \in 0..(d - 1) : ~Fits(e)

\* fault: an event a full subscriber has no room for is skipped for it
FanOutSkip(f) ==
    /\ channel' = [w \in Watchers |->
                     IF w \in subscribers /\ Len(channel[w]) < SubscriberBuffer
                     THEN Append(channel[w], f) ELSE channel[w]]
    /\ UNCHANGED subscribers

\* The non-blocking send to every subscriber; one with a full channel is
\* removed and its channel closed.
FanOut(f) ==
    /\ subscribers' = {w \in subscribers : Len(channel[w]) < SubscriberBuffer}
    /\ channel' = [w \in Watchers |->
                     IF w \in subscribers' THEN Append(channel[w], f)
                                           ELSE channel[w]]

\* sessionEventLog.append
AppendEvent(size) ==
    LET grown == Append(events, [index |-> nextIndex, size |-> size])
        total == retainedBytes + size
        d     == Drop(grown, total)
    IN  /\ nextIndex <= MaxEvents
        /\ nextIndex' = nextIndex + 1
        /\ events' = SubSeq(grown, d + 1, Len(grown))
        /\ retainedBytes' = total - Bytes(SubSeq(grown, 1, d))
        /\ FanOut(Frame(nextIndex))
        /\ UNCHANGED <<watching, replay, cursor, seen, excused, breaks>>

\* fault: a cursor one below the window's oldest index is taken for a gap
NoticeAtTheEdge(after) ==
    IF events # <<>> /\ after < events[1].index
    THEN <<Notice(events[1].index - 1)>> ELSE <<>>

\* fault: a cursor behind the window is answered with the window alone
NoNotice(after) == <<>>

\* The resync notice of a cursor that no longer reaches the retained history.
ResyncNotice(after) ==
    IF events # <<>> /\ after < events[1].index - 1
    THEN <<Notice(events[1].index - 1)>> ELSE <<>>

\* The notice if there is one, then every retained event after the cursor.
\* Retained indexes grow, so those are the events past the first `known` ones.
Replay(after) ==
    LET known == CHOOSE k \in 0..Len(events) :
                    \A i \in 1..Len(events) : events[i].index > after <=> i > k
    IN  ResyncNotice(after)
          \o [i \in 1..(Len(events) - known) |-> Frame(events[known + i].index)]

\* session.watch opens a stream at its cursor; WatchEvents subscribes, which
\* registers the stream and takes its replay in one critical section.
WatchEvents(w) ==
    /\ w \notin watching
    /\ watching' = watching \cup {w}
    /\ subscribers' = subscribers \cup {w}
    /\ replay' = [replay EXCEPT ![w] = Replay(cursor[w])]
    /\ channel' = [channel EXCEPT ![w] = <<>>]
    /\ UNCHANGED <<nextIndex, events, retainedBytes, cursor, seen, excused, breaks>>

\* session.event's cursor: it only moves forward, and a frame at or below it
\* is ignored.
Receive(w, f) ==
    /\ cursor' = [cursor EXCEPT ![w] = IF f.index <= @ THEN @ ELSE f.index]
    /\ seen' = [seen EXCEPT ![w] =
                  IF f.notice \/ f.index <= cursor[w] THEN @ ELSE @ \cup {f.index}]
    /\ excused' = [excused EXCEPT ![w] =
                     IF f.notice THEN @ \cup ((cursor[w] + 1)..f.index) ELSE @]

SendReplay(w) ==
    /\ w \in watching
    /\ replay[w] # <<>>
    /\ Receive(w, Head(replay[w]))
    /\ replay' = [replay EXCEPT ![w] = Tail(@)]
    /\ UNCHANGED <<nextIndex, events, retainedBytes, subscribers, watching,
                   channel, breaks>>

SendLive(w) ==
    /\ w \in watching
    /\ replay[w] = <<>> /\ channel[w] # <<>>
    /\ Receive(w, Head(channel[w]))
    /\ channel' = [channel EXCEPT ![w] = Tail(@)]
    /\ UNCHANGED <<nextIndex, events, retainedBytes, subscribers, watching,
                   replay, breaks>>

\* fault: a dropped subscriber's channel is never closed
NeverClosed(w) == w \in Watchers /\ FALSE /\ UNCHANGED logVars

\* The handler reads the end of a channel the append path closed and returns.
EndOfStream(w) ==
    /\ w \in watching \ subscribers
    /\ replay[w] = <<>> /\ channel[w] = <<>>
    /\ watching' = watching \ {w}
    /\ UNCHANGED <<nextIndex, events, retainedBytes, subscribers, replay,
                   channel, cursor, seen, excused, breaks>>

\* The client's context is done or a send fails: the handler returns and the
\* deferred unsubscribe retires the stream; what it held is gone.
Break(w) ==
    /\ w \in watching
    /\ breaks < MaxBreaks
    /\ breaks' = breaks + 1
    /\ watching' = watching \ {w}
    /\ subscribers' = subscribers \ {w}
    /\ replay' = [replay EXCEPT ![w] = <<>>]
    /\ channel' = [channel EXCEPT ![w] = <<>>]
    /\ UNCHANGED <<nextIndex, events, retainedBytes, cursor, seen, excused>>

-----------------------------------------------------------------------------
\* newSessionEventLog, and newSession's opening event, which is in the log
\* before the session can be looked up.
LogInit ==
    /\ nextIndex = 2
    /\ \E z \in Sizes : /\ events = <<[index |-> 1, size |-> z]>>
                        /\ retainedBytes = z
    /\ subscribers = {}
    /\ watching = {}
    /\ replay = [w \in Watchers |-> <<>>]
    /\ channel = [w \in Watchers |-> <<>>]
    /\ cursor = [w \in Watchers |-> 0]
    /\ seen = [w \in Watchers |-> {}]
    /\ excused = [w \in Watchers |-> {}]
    /\ breaks = 0

\* A stream's own steps: what its handler and its client do unprompted.
StreamStep(w) ==
    WatchEvents(w) \/ SendReplay(w) \/ SendLive(w) \/ EndOfStream(w)

LogNext ==
    \/ \E z \in Sizes : AppendEvent(z)
    \/ \E w \in Watchers : StreamStep(w) \/ Break(w)

LogSpec == LogInit /\ [][LogNext]_logVars

LogFairSpec == LogSpec /\ \A w \in Watchers : WF_logVars(StreamStep(w))

-----------------------------------------------------------------------------
\* The state's shape: the log's fields have their types, the byte counter is
\* the sum of what is retained, and only a running handler is subscribed.
LogTypeOK ==
    /\ nextIndex \in 2..(MaxEvents + 1)
    /\ \A i \in DOMAIN events : events[i] \in [index : 1..MaxEvents, size : Sizes]
    /\ retainedBytes = Bytes(events)
    /\ subscribers \subseteq watching /\ watching \subseteq Watchers
    /\ \A w \in Watchers :
          /\ Len(channel[w]) <= SubscriberBuffer
          /\ cursor[w] \in 0..MaxEvents
          /\ seen[w] \subseteq 1..MaxEvents
          /\ excused[w] \subseteq 1..MaxEvents
    /\ breaks \in 0..MaxBreaks

\* append: the window is the newest run of consecutive indexes, it never loses
\* its newest event, and it respects both limits unless one event alone breaks
\* the byte limit.
WindowSound ==
    /\ events # <<>>
    /\ \A i \in DOMAIN events : events[i].index = nextIndex - 1 - Len(events) + i
    /\ Len(events) <= Retention
    /\ Len(events) > 1 => retainedBytes <= RetentionBytes

\* append and subscribe promise a dropped, broken or late stream "exactly what
\* it missed": whatever lies below a client's cursor it received, or a resync
\* notice told it that it was gone.
NoSilentGap ==
    \A w \in Watchers : 1..cursor[w] \subseteq seen[w] \cup excused[w]

\* subscribe: a client is never told that an event it received is gone, nor
\* that one is gone which it could still have been given.
NoticesAreTrue ==
    \A w \in Watchers :
        /\ seen[w] \cap excused[w] = {}
        /\ \A i \in DOMAIN replay[w] :
              replay[w][i].notice =>
                 /\ i = 1
                 /\ cursor[w] < replay[w][i].index
                 /\ \A e \in DOMAIN events : replay[w][i].index < events[e].index

\* subscribe registers and replays in one critical section: what a subscribed
\* stream still holds continues the cursor without a repeat, in index order,
\* and reaches the newest event; only its first frame may jump, as a notice.
HandoffExact ==
    \A w \in watching :
        LET p == Pending(w)
            At(i) == IF i = 0 THEN cursor[w] ELSE p[i].index
        IN  /\ \A i \in 1..Len(p) :
                  IF p[i].notice THEN i = 1 /\ At(1) > cursor[w]
                                 ELSE At(i) = At(i - 1) + 1
            /\ w \in subscribers => At(Len(p)) = nextIndex - 1

\* What must end: the lag of a client that keeps reading and reconnecting, however
\* often it was dropped for falling behind or its stream broke.
Behind == \E w \in Watchers : cursor[w] < nextIndex - 1
=============================================================================
