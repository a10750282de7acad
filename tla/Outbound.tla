------------------------------- MODULE Outbound -------------------------------
(***************************************************************************)
(* Messages that leave the runtime: the bus (bus/bus.go), the outbound     *)
(* worker (app/workers.go), the fan-out to the Deliver streams of the      *)
(* bridge (channel/bridge/deliver.go), the bridge server, and how          *)
(* runRuntimeWorkers joins them. The client of a stream reads when it      *)
(* likes, or never.                                                        *)
(***************************************************************************)
EXTENDS Integers, Sequences, FiniteSets, SequencesExt

CONSTANTS Streams,       \* Deliver calls
          BufferSize,    \* outboundSubscriberBuffer
          MaxMessages,   \* bound: messages published
          MaxFailures    \* bound: workers that fail on their own

VARIABLES outbound, requests, \* the two queues of the bus: messages nobody waits for, and the others
          told,          \* what the publisher of each message was told
          fanned,        \* messages fanned out so far, in order
          registry,      \* the subscribers of the fan-out
          stream,        \* every stream: handler, buffer, what it sent, where in "fanned" it began
          server,        \* the gRPC server
          worker,        \* each worker: running, or how it ended
          main           \* runRuntimeWorkers
obVars == <<outbound, requests, told, fanned, registry, stream, server, worker, main>>

Workers == {"outbound", "server"}
OutboundInit ==
    /\ outbound = <<>> /\ requests = <<>> /\ told = <<>> /\ fanned = <<>> /\ registry = {}
    /\ stream = [s \in Streams |-> [pc |-> "none", buffer |-> <<>>, got |-> <<>>, from |-> 0, open |-> TRUE]]
    /\ server = "serving" /\ worker = [w \in Workers |-> "running"]
    /\ main = [pc |-> "running", cancelled |-> FALSE, err |-> FALSE, joined |-> {}]

\* PublishOutbound, and PublishOutboundAndWaitForDelivery until its request is queued. (Bound: not once the
\* runtime ends.)
Publish(waits) ==
    /\ Len(told) < MaxMessages /\ ~main.cancelled
    /\ IF waits THEN requests' = Append(requests, Len(told) + 1) /\ UNCHANGED outbound
       ELSE outbound' = Append(outbound, Len(told) + 1) /\ UNCHANGED requests
    /\ told' = Append(told, IF waits THEN "waiting" ELSE "queued")
    /\ UNCHANGED <<fanned, registry, stream, server, worker, main>>
\* The publisher's context ends while it waits.
GiveUp ==
    /\ \E m \in DOMAIN told : told[m] = "waiting" /\ told' = [told EXCEPT ![m] = "gone"]
    /\ UNCHANGED <<outbound, requests, fanned, registry, stream, server, worker, main>>

-----------------------------------------------------------------------------
(* The worker and the fan-out *)

Live == registry
Full == {s \in registry : Len(stream[s].buffer) = BufferSize}
\* fault: the send to a subscriber whose buffer is full waits for it.
fanOutBlocks(m) ==
    /\ Full = {} /\ fanned' = Append(fanned, m) /\ UNCHANGED registry
    /\ stream' = [s \in Streams |-> IF s \in registry THEN [stream[s] EXCEPT !.buffer = Append(@, m)] ELSE stream[s]]
\* fault: a message that does not fit is skipped, and the subscriber stays.
fanOutSkips(m) ==
    /\ fanned' = Append(fanned, m) /\ UNCHANGED registry
    /\ stream' = [s \in Streams |-> IF s \in registry \ Full THEN [stream[s] EXCEPT !.buffer = Append(@, m)] ELSE stream[s]]

fanOut(m) ==
    /\ fanned' = Append(fanned, m) /\ registry' = registry \ Full
    /\ stream' = [s \in Streams |-> IF s \in Full THEN [stream[s] EXCEPT !.open = FALSE]
                                    ELSE IF s \in registry THEN [stream[s] EXCEPT !.buffer = Append(@, m)] ELSE stream[s]]

\* fault: one subscriber that fell behind makes the delivery fail.
SomeDropped == Full # {}

ReachedNobody == Live # {} /\ Full = Live
\* Acknowledge never blocks: the publisher may be gone.
Acknowledge(m, failed) ==
    told' = [told EXCEPT ![m] = IF @ = "waiting" THEN (IF failed THEN "failed" ELSE "delivered") ELSE @]
OutboundWorker ==
    /\ worker["outbound"] = "running"
    /\ \/ outbound # <<>> /\ fanOut(Head(outbound)) /\ outbound' = Tail(outbound) /\ UNCHANGED <<requests, told, worker>>
       \/ requests # <<>> /\ fanOut(Head(requests)) /\ Acknowledge(Head(requests), ReachedNobody)
          /\ requests' = Tail(requests) /\ UNCHANGED <<outbound, worker>>
       \/ main.cancelled /\ worker' = [worker EXCEPT !["outbound"] = "ended"]
          /\ UNCHANGED <<outbound, requests, told, fanned, registry, stream>>
    /\ UNCHANGED <<server, main>>

-----------------------------------------------------------------------------
(* Deliver streams *)

\* (Streams are numbered in the order in which they open.)
Subscribe(s) ==
    /\ stream[s].pc = "none" /\ (\A r \in Streams : r < s => stream[r].pc # "none")
    /\ server = "serving" /\ registry' = registry \cup {s}
    /\ stream' = [stream EXCEPT ![s] = [pc |-> "serving", buffer |-> <<>>, got |-> <<>>, from |-> Len(fanned), open |-> TRUE]]
    /\ UNCHANGED <<outbound, requests, told, fanned, server, worker, main>>
\* The client takes the next message.
ReceiveDeliver(s) ==
    /\ stream[s].pc = "serving" /\ stream[s].buffer # <<>>
    /\ stream' = [stream EXCEPT ![s].buffer = Tail(@), ![s].got = Append(@, Head(stream[s].buffer))]
    /\ UNCHANGED <<outbound, requests, told, fanned, registry, server, worker, main>>
Unsubscribe(s) == stream' = [stream EXCEPT ![s].pc = "ended"] /\ registry' = registry \ {s}
\* A stream that was dropped ends after what it holds.
EndDropped(s) ==
    /\ stream[s].pc = "serving" /\ ~stream[s].open /\ stream[s].buffer = <<>> /\ Unsubscribe(s)
    /\ UNCHANGED <<outbound, requests, told, fanned, server, worker, main>>
\* The client walks away, or the server cancels its context.
EndStream(s) ==
    /\ stream[s].pc = "serving" /\ Unsubscribe(s) /\ UNCHANGED <<outbound, requests, told, fanned, server, worker, main>>

-----------------------------------------------------------------------------
(* The server, and the end of the runtime *)

Serving == {s \in Streams : stream[s].pc = "serving"}
stopServing ==
    /\ server = "serving" /\ main.cancelled /\ server' = "graceful"
    /\ UNCHANGED <<outbound, requests, told, fanned, registry, stream, worker, main>>

\* serverShutdownTimeout has passed: Stop cancels the contexts of the calls.
StopTimer == server = "graceful"
HardStop ==
    /\ StopTimer /\ server' = "stopping"
    /\ UNCHANGED <<outbound, requests, told, fanned, registry, stream, worker, main>>
CancelCall == \E s \in Serving : server = "stopping" /\ EndStream(s)
ServerEnds ==
    /\ server \in {"graceful", "stopping"} /\ Serving = {} /\ worker["server"] = "running"
    /\ server' = "stopped" /\ worker' = [worker EXCEPT !["server"] = "ended"]
    /\ UNCHANGED <<outbound, requests, told, fanned, registry, stream, main>>
\* A worker returns an error of its own.
WorkerFails(w) ==
    /\ worker[w] = "running" /\ (w = "server" => server = "serving")
    /\ Cardinality({v \in Workers : worker[v] = "failed"}) < MaxFailures
    /\ worker' = [worker EXCEPT ![w] = "failed"] /\ server' = IF w = "server" THEN "stopped" ELSE server
    /\ UNCHANGED <<outbound, requests, told, fanned, registry, stream, main>>
\* runRuntimeWorkers: the first result, or the end of the context, cancels the others.
Cancel ==
    /\ main.pc = "running" /\ main' = [main EXCEPT !.pc = "joining", !.cancelled = TRUE]
    /\ UNCHANGED <<outbound, requests, told, fanned, registry, stream, server, worker>>

\* fault: only the first result counts.
JoinFirst(w) == main.err

joinRuntimeWorkerError(w) == main.err \/ worker[w] = "failed"
WorkerResult(w) ==
    /\ main.pc \in {"running", "joining"} /\ worker[w] # "running" /\ w \notin main.joined
    /\ main' = [main EXCEPT !.pc = "joining", !.cancelled = TRUE, !.joined = @ \cup {w},
                            !.err = IF main.pc = "running" THEN worker[w] = "failed" ELSE joinRuntimeWorkerError(w)]
    /\ UNCHANGED <<outbound, requests, told, fanned, registry, stream, server, worker>>
AllJoined ==
    /\ main.pc = "joining" /\ main.joined = Workers /\ main' = [main EXCEPT !.pc = "done"]
    /\ UNCHANGED <<outbound, requests, told, fanned, registry, stream, server, worker>>
\* shutdownTimeout (35 s, the server's own is 2 s): it gives up with an error of its own.
JoinTimeout ==
    /\ main.pc = "joining" /\ main.joined # Workers /\ server \notin {"serving", "graceful"}
    /\ main' = [main EXCEPT !.pc = "timeout", !.err = TRUE]
    /\ UNCHANGED <<outbound, requests, told, fanned, registry, stream, server, worker>>

Runtime == OutboundWorker \/ stopServing \/ HardStop \/ CancelCall \/ ServerEnds \/ AllJoined
           \/ (\E w \in Workers : WorkerResult(w))
\* The process exits when runRuntimeWorkers returns.
OutboundNext ==
    /\ main.pc \in {"running", "joining"}
    /\ \/ Runtime \/ GiveUp \/ Cancel \/ JoinTimeout
       \/ \E waits \in BOOLEAN : Publish(waits)
       \/ \E s \in Streams : Subscribe(s) \/ ReceiveDeliver(s) \/ EndDropped(s) \/ EndStream(s)
       \/ \E w \in Workers : WorkerFails(w)
OutboundSpec == OutboundInit /\ [][OutboundNext]_obVars
\* The goroutines of the runtime run on; nothing is assumed of the clients of the streams.
OutboundFairness == WF_obVars(Runtime)

-----------------------------------------------------------------------------
\* What the publisher is told is so: a delivery that failed reached no stream, and one that succeeded while
\* streams were open was taken by one of them, whatever happened to the others.
ErrorMeansNobody ==
    /\ \A m \in DOMAIN told : told[m] = "failed" => \A s \in Streams : m \notin ToSet(stream[s].got \o stream[s].buffer)
    /\ \A m \in DOMAIN told : told[m] = "delivered" => m \in ToSet(fanned)
    /\ \A k \in DOMAIN fanned : told[fanned[k]] = "delivered" /\ (\E s \in registry : stream[s].from < k) =>
         \E s \in Streams : fanned[k] \in ToSet(stream[s].got \o stream[s].buffer)

\* A stream misses nothing between its subscription and its end: what it was sent and holds is a gapless
\* stretch of the messages, and all of them while it is subscribed.
StreamsHaveNoGaps ==
    \A s \in Streams : stream[s].pc # "none" =>
      /\ stream[s].got \o stream[s].buffer = SubSeq(fanned, stream[s].from + 1, stream[s].from + Len(stream[s].got \o stream[s].buffer))
      /\ s \in registry => Len(stream[s].got \o stream[s].buffer) = Len(fanned) - stream[s].from

\* An error of a worker is reported by the runtime, also when another worker ended first.
ErrorsAreReported == main.pc = "done" => (main.err <=> \E w \in Workers : worker[w] = "failed")

\* What must end, although a client stops reading: every publisher that waits gets its answer while the runtime
\* is up, and the runtime ends when it is told to, with streams still open.
HeldUp ==
    \/ worker["outbound"] = "running" /\ main.pc # "timeout" /\ \E m \in DOMAIN told : told[m] = "waiting"
    \/ main.cancelled /\ main.pc \notin {"done", "timeout"}
=============================================================================
