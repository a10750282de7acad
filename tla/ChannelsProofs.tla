---------------------------- MODULE ChannelsProofs ----------------------------
(***************************************************************************)
(* Proofs about what carries messages to the user: the outbound worker     *)
(* with its fan-out and the end of the runtime (Outbound), a run shown in  *)
(* a Telegram chat with its timers and failing calls (TelegramRun), and    *)
(* the media store with everyone who writes to it and the sweep            *)
(* (MediaStore), for every number of streams, messages, workers' failures, *)
(* run events, failed calls, contents, scopes, turns and faults.  OutInv,  *)
(* TgInv and MediaInv are inductive.  (The session event log has its own   *)
(* module, SessionEventLogProofs; what the text is cut into, TelegramText, *)
(* is computed by folds and stays with TLC.)                               *)
(***************************************************************************)
EXTENDS MCChannels, FiniteSetTheorems, TLAPS

(* The outbound worker. *)
Told == {"queued", "waiting", "gone", "failed", "delivered"}
StreamStates == [pc : {"none", "serving", "ended"}, buffer : Seq(Nat), got : Seq(Nat), from : Nat, open : BOOLEAN]
MainStates == [pc : {"running", "joining", "timeout", "done"}, cancelled : BOOLEAN, err : BOOLEAN, joined : SUBSET Workers]

QueueTyped ==
    /\ outbound \in Seq(Nat) /\ requests \in Seq(Nat) /\ fanned \in Seq(Nat) /\ told \in Seq(Told)
    /\ registry \in SUBSET Streams /\ stream \in [Streams -> StreamStates]

\* What a stream was sent and what it holds.
Had(s) == stream[s].got \o stream[s].buffer

\* A message is in its queue until it is fanned out, a request once; only then its publisher is answered.
QueuesOK ==
    /\ \A x \in 1..Len(outbound) : outbound[x] \in 1..Len(told) /\ told[outbound[x]] = "queued"
    /\ \A x \in 1..Len(requests) : requests[x] \in 1..Len(told) /\ told[requests[x]] \in {"waiting", "gone"}
    /\ \A x, y \in 1..Len(requests) : x # y => requests[x] # requests[y]
    /\ \A k \in 1..Len(fanned) : fanned[k] \in 1..Len(told) /\ told[fanned[k]] # "waiting"
    /\ \A m \in 1..Len(told) : told[m] \in {"failed", "delivered"} => \E k \in 1..Len(fanned) : fanned[k] = m

\* What a stream had is a stretch of what was fanned out, up to the last message while it is subscribed.
StreamOK(s) ==
    /\ stream[s].pc = "none" => stream[s].got = <<>> /\ stream[s].buffer = <<>>
    /\ s \in registry => stream[s].pc = "serving" /\ stream[s].from + Len(Had(s)) = Len(fanned)
    /\ stream[s].from + Len(Had(s)) <= Len(fanned)
    /\ \A x \in 1..Len(Had(s)) : Had(s)[x] = fanned[stream[s].from + x]

\* The answers of the publishers, in terms of what the streams had.
Took(s, m) == \E x \in 1..Len(Had(s)) : Had(s)[x] = m
FailedOK == \A m \in 1..Len(told), s \in Streams : told[m] = "failed" => ~Took(s, m)
DeliveredOK ==
    \A k \in 1..Len(fanned) : told[fanned[k]] = "delivered" /\ (\E s \in registry : stream[s].from < k) =>
        \E s \in Streams : Took(s, fanned[k])

StreamsInv == QueueTyped /\ QueuesOK /\ (\A s \in Streams : StreamOK(s)) /\ FailedOK /\ DeliveredOK

\* runRuntimeWorkers knows of the errors of the workers it has joined.
JoinInv ==
    /\ worker \in [Workers -> {"running", "ended", "failed"}] /\ main \in MainStates
    /\ \A w \in main.joined : worker[w] # "running"
    /\ main.pc = "running" => main.joined = {}
    /\ main.pc \in {"running", "joining"} => (main.err <=> \E w \in main.joined : worker[w] = "failed")
    /\ main.pc = "done" => (main.err <=> \E w \in Workers : worker[w] = "failed")

OutInv == StreamsInv /\ JoinInv

(* The media store. *)
ScopeRecords == [refs : SUBSET Contents, fresh : BOOLEAN]
Sweeps == [pc : {"idle", "turns", "scopes", "release"}, old : SUBSET Web, cursor : Nat, keep : SUBSET Contents, todo : SUBSET Web]
Sends == [pc : {"idle", "resolve", "hash", "retain"}, parts : Seq(Contents), k : Nat, id : Nat]

MediaTyped ==
    /\ scopes \in [DOMAIN scopes -> ScopeRecords] /\ DOMAIN scopes \subseteq {Telegram, Tool} \cup 1..nScopes
    /\ nScopes \in 0..MaxScopes /\ rpc \in Sends /\ known \in SUBSET Contents
    /\ queue \in Seq(SUBSET Contents) /\ transcript \in Seq(SUBSET Contents)
    /\ inbound = [poll |-> inbound.poll, msg |-> inbound.msg]
    /\ inbound.msg = [pc |-> inbound.msg.pc, content |-> inbound.msg.content]
    /\ inbound.msg.pc # "idle" => inbound.msg.content \in Contents
    /\ sweep \in Sweeps /\ attached \in SUBSET Contents

\* The sweep: it looks at scopes of the web interface that exist, and keeps the turns it has read.
SweepOK ==
    /\ sweep.old \subseteq 1..nScopes /\ sweep.todo \subseteq sweep.old \cap DOMAIN scopes
    /\ sweep.pc # "release" => sweep.todo = {}
    /\ sweep.pc = "turns" =>
          /\ sweep.cursor <= Len(transcript) /\ (Len(transcript) # 0 => sweep.cursor < Len(transcript))
          /\ \A k \in 1..sweep.cursor : transcript[k] \subseteq sweep.keep

Names(s, m) == s \in DOMAIN scopes /\ m \subseteq scopes[s].refs

\* A send works on a scope of its own, which names the parts it has passed.
SendOK ==
    rpc.pc # "idle" =>
        /\ rpc.id \in 1..nScopes /\ rpc.id \notin sweep.old
        /\ rpc.id \in DOMAIN scopes => scopes[rpc.id].fresh
        /\ rpc.k \in 1..Len(rpc.parts)
        /\ \A j \in 1..(rpc.k - 1) : Names(rpc.id, {rpc.parts[j]})

\* A scope that no sweep can release before the message it was made for is stored.
Young(s) == s \in {Telegram, Tool} \/ (scopes[s].fresh /\ s \notin sweep.old)
QueueHeld == \A x \in DOMAIN queue : queue[x] = {} \/ \E s \in DOMAIN scopes : Names(s, queue[x]) /\ Young(s)

\* A scope that the sweep in progress does not release: it is not looked at, or the turn is kept.
Spared(s, m) == s \notin sweep.todo /\ (s \notin sweep.old \/ sweep.pc = "turns" \/ m \subseteq sweep.keep)
TranscriptHeld == \A k \in DOMAIN transcript : transcript[k] = {} \/ \E s \in DOMAIN scopes : Names(s, transcript[k]) /\ Spared(s, transcript[k])

AttachedHeld == \A c \in attached : Names(Tool, {c}) \/ \E k \in DOMAIN transcript : c \in transcript[k]

\* Every object and record that a scope names is there.
Backed == disk = [objects |-> disk.objects, refs |-> disk.refs, type |-> disk.type] /\ ScopesAreBacked

MediaInv == MediaTyped /\ SweepOK /\ SendOK /\ QueueHeld /\ TranscriptHeld /\ AttachedHeld /\ Backed


(* The Telegram session. *)
Senders == {"show", "stall", "again"}
ChunkRecords == [pieces : Seq(Nat) \ {<<>>}, rich : BOOLEAN]
Drafts == [on : BOOLEAN, sent : BOOLEAN, inFlight : BOOLEAN, text : BOOLEAN, dirty : BOOLEAN,
           armed : BOOLEAN, fired : BOOLEAN, stop : BOOLEAN]
EndSteps == {"clean", "stopped", "answer", "text", "media", "excuse", "unlock"}

Ops == {"free", "finish"} \cup Kinds
TgSessions == [quiet : BOOLEAN, finished : BOOLEAN, op : Ops, typing : BOOLEAN, cancelled : BOOLEAN]
StatusRecords == [id : Nat, stale : BOOLEAN]
CallbackSteps == {"idle", "read", "check", "lock", "send", "sent"}
Pcs == {"run", "lock", "done"} \cup EndSteps
Endings == [pc : Pcs, kind : {"none", "finish", "abort"}, text : BOOLEAN,
            media : Nat, sentMedia : Nat, edit : Nat, todo : Seq(ChunkRecords)]
Chats == [statuses : SUBSET Nat, made : Nat, preview : BOOLEAN, shown : Seq(Nat)]

TgTyped ==
    /\ tg \in TgSessions /\ draft \in Drafts /\ status \in StatusRecords
    /\ timers \in [Kinds -> BOOLEAN] /\ cbs \in [Kinds -> CallbackSteps]
    /\ fin \in Endings /\ chat \in Chats /\ tfaults \in Nat /\ lost \in Nat /\ nEvents \in Nat

\* Who calls the Bot API holds opMu, and the session is finished once its end has it.
TgLocked ==
    /\ \A k \in Kinds : cbs[k] \in {"send", "sent"} => tg.op = k
    /\ fin.pc \in EndSteps => tg.op = "finish"
    /\ tg.finished <=> fin.pc \notin {"run", "lock"}
    /\ fin.pc = "done" => \A k \in Kinds : cbs[k] \notin {"send", "sent"}
    /\ cbs["edit"] \notin {"check", "sent"} /\ cbs["draft"] \in {"idle", "lock", "send"} /\ ~timers["draft"]

\* The preview: a change of it has a timer.
TgPreviewed ==
    /\ PreviewIsArmed
    /\ draft.armed \/ draft.fired => draft.on
    /\ draft.fired /\ ~tg.finished /\ ~tg.cancelled => cbs["draft"] = "lock"
    /\ cbs["draft"] = "send" => ~draft.fired

\* The status messages the session still deletes or turns into its answer; a preview that nobody clears any more.
Known == IF fin.pc \in {"run", "lock"} THEN {status.id} \cup (IF \E k \in Senders : cbs[k] = "sent" THEN {chat.made} ELSE {})
         ELSE IF fin.pc \in {"clean", "stopped", "answer", "text"} THEN {fin.edit} ELSE {}
GivenUp == draft.sent => \/ fin.pc = "text" /\ fin.todo = <<>>
                         \/ fin.pc = "media" /\ (fin.text \/ fin.media = 0)
                         \/ fin.pc \in {"unlock", "done"}
Left == chat.statuses \ Known
Owed == IF chat.preview /\ GivenUp THEN 1 ELSE 0
TgCounted == IsFiniteSet(chat.statuses) /\ 0 \notin chat.statuses /\ Cardinality(Left) + Owed <= tfaults

\* What the steps of the end have left to do, and where a status message may still come from.
TgAims ==
    /\ \A k \in Senders : cbs[k] \in {"send", "sent"} => status.id = 0
    /\ fin.pc \in {"lock", "clean", "answer"} => fin.text \/ fin.media > 0
    /\ fin.pc = "text" /\ fin.edit # 0 => fin.todo # <<>>
    /\ fin.pc \in {"answer", "text", "stopped"} /\ draft.sent => fin.edit = 0

TgInv == TgTyped /\ TgLocked /\ TgPreviewed /\ TgCounted /\ TgAims

-----------------------------------------------------------------------------
(* Sequences: what was sent and what is held, as one sequence. *)

LEMMA AppendIs ==
    ASSUME NEW S, NEW q \in Seq(S), NEW m \in S
    PROVE  /\ Append(q, m) \in Seq(S) /\ Len(Append(q, m)) = Len(q) + 1 /\ Len(q) \in Nat
           /\ Append(q, m)[Len(q) + 1] = m /\ \A x \in 1..Len(q) : Append(q, m)[x] = q[x]
OBVIOUS

LEMMA TailIs ==
    ASSUME NEW S, NEW q \in Seq(S), q # <<>>
    PROVE  /\ Tail(q) \in Seq(S) /\ Len(Tail(q)) = Len(q) - 1 /\ Len(q) \in Nat /\ Len(q) >= 1
           /\ Head(q) \in S /\ Head(q) = q[1] /\ \A x \in 1..Len(Tail(q)) : x + 1 \in 1..Len(q) /\ Tail(q)[x] = q[x + 1]
OBVIOUS

LEMMA ConcatIs ==
    ASSUME NEW S, NEW g \in Seq(S), NEW b \in Seq(S)
    PROVE  /\ g \o b \in Seq(S) /\ Len(g \o b) = Len(g) + Len(b) /\ Len(g) \in Nat /\ Len(b) \in Nat
           /\ \A x \in 1..Len(g) : (g \o b)[x] = g[x]
           /\ \A x \in 1..Len(b) : (g \o b)[Len(g) + x] = b[x]
OBVIOUS

\* Sequences that agree everywhere are equal.
LEMMA SameSequence ==
    ASSUME NEW S, NEW g \in Seq(S), NEW b \in Seq(S), Len(g) = Len(b), \A x \in 1..Len(g) : g[x] = b[x]
    PROVE  g = b
<1>1. /\ g = [x \in 1..Len(g) |-> g[x]] /\ b = [x \in 1..Len(b) |-> b[x]]
  OBVIOUS
<1>2. [x \in 1..Len(g) |-> g[x]] = [x \in 1..Len(b) |-> b[x]]
  OBVIOUS
<1>3. QED BY <1>1, <1>2, Zenon

\* A message more is held.
LEMMA HoldsMore ==
    ASSUME NEW g \in Seq(Nat), NEW b \in Seq(Nat), NEW m \in Nat
    PROVE  /\ Len(g \o Append(b, m)) = Len(g \o b) + 1
           /\ (g \o Append(b, m))[Len(g \o b) + 1] = m
           /\ \A x \in 1..Len(g \o b) : (g \o Append(b, m))[x] = (g \o b)[x]
<1>1. PICK d : d = Append(b, m)
    OBVIOUS
<1>2. /\ d \in Seq(Nat) /\ Len(d) = Len(b) + 1 /\ d[Len(b) + 1] = m /\ \A x \in 1..Len(b) : d[x] = b[x]
    BY <1>1, AppendIs
<1>3. /\ Len(g \o b) = Len(g) + Len(b) /\ Len(g) \in Nat /\ Len(b) \in Nat
      /\ (\A x \in 1..Len(g) : (g \o b)[x] = g[x]) /\ \A x \in 1..Len(b) : (g \o b)[Len(g) + x] = b[x]
    BY ConcatIs
<1>4. /\ Len(g \o d) = Len(g) + Len(d) /\ (\A x \in 1..Len(g) : (g \o d)[x] = g[x])
      /\ \A x \in 1..Len(d) : (g \o d)[Len(g) + x] = d[x]
  <2>1. d \in Seq(Nat)
    BY <1>2
  <2>2. QED BY <2>1, ConcatIs
<1>5. ASSUME NEW x \in 1..Len(g \o b) PROVE (g \o d)[x] = (g \o b)[x]
  <2>1. CASE x \in 1..Len(g)
    BY <1>3, <1>4, <2>1
  <2>2. CASE x \notin 1..Len(g)
    <3>1. PICK y : y = x - Len(g)
      OBVIOUS
    <3>2. y \in 1..Len(b) /\ y \in 1..Len(d) /\ x = Len(g) + y
      BY <1>2, <1>3, <2>2, <3>1
    <3>3. QED BY <1>2, <1>3, <1>4, <3>2
  <2>3. QED BY <2>1, <2>2
<1>6. (g \o d)[Len(g \o b) + 1] = m
  <2>1. Len(b) + 1 \in 1..Len(d) /\ Len(g \o b) + 1 = Len(g) + (Len(b) + 1)
    BY <1>2, <1>3
  <2>2. QED BY <1>2, <1>4, <2>1
<1>7. Len(g \o d) = Len(g \o b) + 1
    BY <1>2, <1>3, <1>4
<1>8. QED BY <1>1, <1>5, <1>6, <1>7

\* A held message is sent.
LEMMA SendsOne ==
    ASSUME NEW g \in Seq(Nat), NEW b \in Seq(Nat), b # <<>>
    PROVE  /\ Len(Append(g, Head(b)) \o Tail(b)) = Len(g \o b)
           /\ \A x \in 1..Len(g \o b) : (Append(g, Head(b)) \o Tail(b))[x] = (g \o b)[x]
<1>1. PICK h, d, t : h = Head(b) /\ d = Append(g, h) /\ t = Tail(b)
    OBVIOUS
<1>2. /\ t \in Seq(Nat) /\ Len(t) = Len(b) - 1 /\ Len(b) \in Nat /\ Len(b) >= 1 /\ h \in Nat /\ h = b[1]
      /\ \A x \in 1..Len(t) : x + 1 \in 1..Len(b) /\ t[x] = b[x + 1]
    BY <1>1, TailIs
<1>3. /\ d \in Seq(Nat) /\ Len(d) = Len(g) + 1 /\ Len(g) \in Nat /\ d[Len(g) + 1] = h /\ \A x \in 1..Len(g) : d[x] = g[x]
    BY <1>1, <1>2, AppendIs
<1>4. /\ Len(g \o b) = Len(g) + Len(b)
      /\ (\A x \in 1..Len(g) : (g \o b)[x] = g[x]) /\ \A x \in 1..Len(b) : (g \o b)[Len(g) + x] = b[x]
    BY ConcatIs
<1>5. /\ Len(d \o t) = Len(d) + Len(t)
      /\ (\A x \in 1..Len(d) : (d \o t)[x] = d[x]) /\ \A x \in 1..Len(t) : (d \o t)[Len(d) + x] = t[x]
  <2>1. d \in Seq(Nat) /\ t \in Seq(Nat)
    BY <1>2, <1>3
  <2>2. QED BY <2>1, ConcatIs
<1>6. ASSUME NEW x \in 1..Len(g \o b) PROVE (d \o t)[x] = (g \o b)[x]
  <2>1. CASE x \in 1..Len(g)
    BY <1>3, <1>4, <1>5, <2>1
  <2>2. CASE x = Len(g) + 1
    <3>1. x \in 1..Len(d) /\ 1 \in 1..Len(b)
      BY <1>2, <1>3, <2>2
    <3>2. QED BY <1>2, <1>3, <1>4, <1>5, <2>2, <3>1
  <2>3. CASE x > Len(g) + 1
    <3>1. PICK y : y = x - Len(d)
      OBVIOUS
    <3>2. Len(t) = Len(b) - 1 /\ Len(b) \in Nat /\ Len(d) = Len(g) + 1 /\ Len(g) \in Nat /\ Len(g \o b) = Len(g) + Len(b)
      BY <1>2, <1>3, <1>4
    <3>3. y \in 1..Len(t) /\ x = Len(d) + y /\ y + 1 \in 1..Len(b) /\ x = Len(g) + (y + 1)
      BY <2>3, <3>1, <3>2
    <3>4. (d \o t)[Len(d) + y] = t[y] /\ t[y] = b[y + 1] /\ (g \o b)[Len(g) + (y + 1)] = b[y + 1]
      BY <1>2, <1>4, <1>5, <3>3
    <3>5. x = Len(d) + y /\ x = Len(g) + (y + 1)
      BY <3>3
    <3>6. QED BY <3>4, <3>5, Zenon
  <2>4. Len(g) \in Nat /\ Len(b) \in Nat /\ Len(g \o b) = Len(g) + Len(b)
    BY <1>2, <1>3, <1>4
  <2>5. x \in 1..Len(g) \/ x = Len(g) + 1 \/ x > Len(g) + 1
    BY <2>4
  <2>6. QED BY <2>1, <2>2, <2>3, <2>5
<1>7. Len(d \o t) = Len(g \o b)
    BY <1>2, <1>3, <1>4, <1>5
<1>8. QED BY <1>1, <1>6, <1>7

-----------------------------------------------------------------------------
(* The outbound worker: what the fan-out does to each stream. *)

LEMMA OutFacts ==
    ASSUME StreamsInv
    PROVE  /\ outbound \in Seq(Nat) /\ requests \in Seq(Nat) /\ fanned \in Seq(Nat) /\ told \in Seq(Told)
           /\ Len(fanned) \in Nat /\ Len(told) \in Nat /\ Len(outbound) \in Nat /\ Len(requests) \in Nat
           /\ registry \in SUBSET Streams /\ stream \in [Streams -> StreamStates]
           /\ QueuesOK /\ FailedOK /\ DeliveredOK
<1>1. outbound \in Seq(Nat) /\ requests \in Seq(Nat) /\ fanned \in Seq(Nat) /\ told \in Seq(Told)
    BY DEF StreamsInv, QueueTyped
<1>2. Len(fanned) \in Nat /\ Len(told) \in Nat /\ Len(outbound) \in Nat /\ Len(requests) \in Nat
    BY <1>1
<1>3. QED BY <1>1, <1>2 DEF StreamsInv, QueueTyped

LEMMA StreamFacts ==
    ASSUME StreamsInv, NEW CONSTANT s \in Streams
    PROVE  /\ stream[s] \in StreamStates /\ stream[s].got \in Seq(Nat) /\ stream[s].buffer \in Seq(Nat)
           /\ stream[s].from \in Nat /\ Had(s) \in Seq(Nat) /\ Len(Had(s)) \in Nat /\ StreamOK(s)
<1>1. stream[s] \in StreamStates
    BY DEF StreamsInv, QueueTyped
<1>2. stream[s].got \in Seq(Nat) /\ stream[s].buffer \in Seq(Nat) /\ stream[s].from \in Nat
    BY <1>1 DEF StreamStates
<1>3. Had(s) \in Seq(Nat) /\ Len(Had(s)) \in Nat
    BY <1>2, ConcatIs DEF Had
<1>4. QED BY <1>1, <1>2, <1>3 DEF StreamsInv

\* A stream that has what it had, in the sense of the invariants.
SameHad(s) ==
    /\ stream'[s].from = stream[s].from /\ Len(Had(s))' = Len(Had(s))
    /\ \A x \in 1..Len(Had(s)) : Had(s)'[x] = Had(s)[x]

\* A step that fans nothing out and takes nothing from a stream.
LEMMA NothingFanned ==
    ASSUME StreamsInv, QueueTyped', QueuesOK', UNCHANGED fanned, registry' \subseteq registry,
           \A s \in Streams : SameHad(s),
           \A s \in Streams : stream'[s].pc = "none" => stream'[s].got = <<>> /\ stream'[s].buffer = <<>>,
           \A s \in registry' : stream'[s].pc = "serving",
           Len(told) <= Len(told'),
           \A m \in 1..Len(told') : told'[m] \in {"failed", "delivered"} => m \in 1..Len(told) /\ told[m] = told'[m]
    PROVE  StreamsInv'
<1>1. ASSUME NEW CONSTANT s \in Streams PROVE StreamOK(s)'
  <2>1. StreamOK(s) /\ SameHad(s)
    BY StreamFacts
  <2>2. s \in registry' => s \in registry
    OBVIOUS
  <2>3. \A x \in 1..Len(Had(s))' : Had(s)'[x] = fanned'[stream'[s].from + x]
    BY <2>1 DEF StreamOK, SameHad
  <2>4. QED BY <2>1, <2>2, <2>3 DEF StreamOK, SameHad
<1>2. \A s \in Streams : \A m : Took(s, m)' <=> Took(s, m)
    BY DEF Took, SameHad
<1>3. FailedOK'
    BY <1>2, OutFacts DEF FailedOK
<1>4. DeliveredOK'
  <2>1. SUFFICES ASSUME NEW CONSTANT k \in 1..Len(fanned), told'[fanned[k]] = "delivered",
                        NEW CONSTANT r \in registry', stream'[r].from < k
                 PROVE  \E s \in Streams : Took(s, fanned[k])'
    BY DEF DeliveredOK
  <2>2. fanned[k] \in 1..Len(told')
    BY OutFacts DEF QueuesOK
  <2>3. told[fanned[k]] = "delivered" /\ r \in registry /\ r \in Streams
    BY <2>1, <2>2, OutFacts
  <2>4. stream[r].from < k
    BY <2>1, <2>3 DEF SameHad
  <2>5. PICK s \in Streams : Took(s, fanned[k])
    BY <2>3, <2>4, OutFacts DEF DeliveredOK
  <2>6. QED BY <1>2, <2>5
<1>5. QED BY <1>1, <1>3, <1>4 DEF StreamsInv

LEMMA FanOutIs ==
    ASSUME StreamsInv, NEW CONSTANT m \in Nat, fanOut(m)
    PROVE  /\ fanned' \in Seq(Nat) /\ Len(fanned') = Len(fanned) + 1 /\ fanned'[Len(fanned) + 1] = m
           /\ \A k \in 1..Len(fanned) : fanned'[k] = fanned[k]
           /\ registry' \in SUBSET registry /\ stream' \in [Streams -> StreamStates]
           /\ \A s \in Streams : s \notin registry \ Full => s \notin registry' /\ SameHad(s)
           /\ \A s \in Streams : stream'[s].pc = stream[s].pc /\ stream'[s].from = stream[s].from
           /\ \A s \in Streams : stream'[s].pc = "none" => stream'[s].got = <<>> /\ stream'[s].buffer = <<>>
           /\ \A s \in registry \ Full :
                 /\ s \in registry' /\ Len(Had(s))' = Len(Had(s)) + 1 /\ Had(s)'[Len(Had(s)) + 1] = m
                 /\ \A x \in 1..Len(Had(s)) : Had(s)'[x] = Had(s)[x]
<1>1. /\ fanned' = Append(fanned, m) /\ registry' = registry \ Full
      /\ stream' = [s \in Streams |-> IF s \in Full THEN [stream[s] EXCEPT !.open = FALSE]
                                      ELSE IF s \in registry THEN [stream[s] EXCEPT !.buffer = Append(@, m)] ELSE stream[s]]
    BY DEF fanOut
<1>2. /\ fanned' \in Seq(Nat) /\ Len(fanned') = Len(fanned) + 1 /\ fanned'[Len(fanned) + 1] = m
      /\ \A k \in 1..Len(fanned) : fanned'[k] = fanned[k]
    BY <1>1, OutFacts, AppendIs
<1>3. registry \subseteq Streams /\ Full \subseteq registry /\ registry' \subseteq registry
    BY <1>1, OutFacts DEF Full
<1>4. ASSUME NEW CONSTANT s \in Streams, s \notin registry \ Full
      PROVE  /\ s \notin registry' /\ SameHad(s) /\ stream'[s] \in StreamStates
             /\ stream'[s].pc = stream[s].pc /\ stream'[s].got = stream[s].got /\ stream'[s].buffer = stream[s].buffer
  <2>1. stream[s] \in StreamStates
    BY StreamFacts
  <2>2. stream'[s] = stream[s] \/ stream'[s] = [stream[s] EXCEPT !.open = FALSE]
    BY <1>1, <1>3, <1>4
  <2>3. /\ stream'[s] \in StreamStates /\ stream'[s].pc = stream[s].pc /\ stream'[s].got = stream[s].got
        /\ stream'[s].buffer = stream[s].buffer /\ stream'[s].from = stream[s].from
    BY <2>1, <2>2 DEF StreamStates
  <2>4. QED BY <1>1, <1>4, <2>3 DEF SameHad, Had
<1>5. ASSUME NEW CONSTANT s \in registry \ Full
      PROVE  /\ s \in registry' /\ stream'[s] \in StreamStates
             /\ stream'[s].pc = stream[s].pc /\ stream'[s].from = stream[s].from /\ stream[s].pc # "none"
             /\ Len(Had(s))' = Len(Had(s)) + 1 /\ Had(s)'[Len(Had(s)) + 1] = m
             /\ \A x \in 1..Len(Had(s)) : Had(s)'[x] = Had(s)[x]
  <2>1. /\ s \in Streams /\ stream[s] \in StreamStates /\ stream[s].got \in Seq(Nat) /\ stream[s].buffer \in Seq(Nat) /\ StreamOK(s)
    BY <1>3, <1>5, StreamFacts
  <2>2. PICK b : b = Append(stream[s].buffer, m)
    OBVIOUS
  <2>3. stream'[s] = [stream[s] EXCEPT !.buffer = b] /\ b \in Seq(Nat)
    BY <1>1, <1>3, <1>5, <2>1, <2>2, AppendIs
  <2>4. /\ stream'[s] \in StreamStates /\ stream'[s].pc = stream[s].pc /\ stream'[s].got = stream[s].got
        /\ stream'[s].buffer = b /\ stream'[s].from = stream[s].from
    BY <2>1, <2>3 DEF StreamStates
  <2>5. Had(s)' = stream[s].got \o Append(stream[s].buffer, m) /\ Had(s) = stream[s].got \o stream[s].buffer
    BY <2>2, <2>4 DEF Had
  <2>6. /\ Len(Had(s))' = Len(Had(s)) + 1 /\ Had(s)'[Len(Had(s)) + 1] = m
        /\ \A x \in 1..Len(Had(s)) : Had(s)'[x] = Had(s)[x]
    <3>1. PICK g, a : g = stream[s].got /\ a = stream[s].buffer
      OBVIOUS
    <3>2. g \in Seq(Nat) /\ a \in Seq(Nat)
      BY <2>1, <3>1
    <3>3. /\ Len(g \o Append(a, m)) = Len(g \o a) + 1
          /\ (g \o Append(a, m))[Len(g \o a) + 1] = m
          /\ \A x \in 1..Len(g \o a) : (g \o Append(a, m))[x] = (g \o a)[x]
      BY <3>2, HoldsMore
    <3>4. Had(s)' = g \o Append(a, m) /\ Had(s) = g \o a
      BY <2>5, <3>1
    <3>5. QED BY <3>3, <3>4, Zenon
  <2>7. stream[s].pc # "none"
    BY <1>5, <2>1 DEF StreamOK
  <2>8. QED BY <1>1, <1>5, <2>4, <2>6, <2>7
<1>6. ASSUME NEW CONSTANT s \in Streams
      PROVE  /\ stream'[s] \in StreamStates /\ stream'[s].pc = stream[s].pc /\ stream'[s].from = stream[s].from
             /\ stream'[s].pc = "none" => stream'[s].got = <<>> /\ stream'[s].buffer = <<>>
  <2>1. CASE s \in registry \ Full
    BY <1>5, <2>1
  <2>2. CASE s \notin registry \ Full
    BY <1>4, <2>2, StreamFacts DEF SameHad, StreamOK
  <2>3. QED BY <2>1, <2>2
<1>7. stream' \in [Streams -> StreamStates]
  <2>1. \E f : stream' = [s \in Streams |-> f[s]]
    <3>1. stream' = [s \in Streams |-> stream'[s]]
      BY <1>1
    <3>2. QED BY <3>1
  <2>2. QED BY <1>6, <2>1
<1>8. QED BY <1>2, <1>3, <1>4, <1>5, <1>6, <1>7

\* A message m leaves its queue: the streams with room get it, and its publisher is answered.
LEMMA FannedKeeps ==
    ASSUME StreamsInv, NEW CONSTANT m \in 1..Len(told), fanOut(m), QueueTyped', QueuesOK', Len(told') = Len(told),
           \A n \in 1..Len(told) : n # m => told'[n] = told[n],
           told'[m] \in {"failed", "delivered"} => told[m] = "waiting",
           told'[m] = "failed" => Full = registry
    PROVE  StreamsInv'
<1>1. m \in Nat /\ registry \subseteq Streams
    BY OutFacts
<1>2. /\ fanned' \in Seq(Nat) /\ Len(fanned') = Len(fanned) + 1 /\ fanned'[Len(fanned) + 1] = m
      /\ \A k \in 1..Len(fanned) : fanned'[k] = fanned[k]
    BY <1>1, FanOutIs
<1>3. /\ registry' \in SUBSET registry
      /\ \A s \in Streams : s \notin registry \ Full => s \notin registry' /\ SameHad(s)
      /\ \A s \in Streams : stream'[s].pc = stream[s].pc /\ stream'[s].from = stream[s].from
      /\ \A s \in Streams : stream'[s].pc = "none" => stream'[s].got = <<>> /\ stream'[s].buffer = <<>>
    BY <1>1, FanOutIs
<1>4. \A s \in registry \ Full :
         /\ s \in registry' /\ Len(Had(s))' = Len(Had(s)) + 1 /\ Had(s)'[Len(Had(s)) + 1] = m
         /\ \A x \in 1..Len(Had(s)) : Had(s)'[x] = Had(s)[x]
    BY <1>1, FanOutIs
<1>5. \A k \in 1..Len(fanned) : fanned[k] \in 1..Len(told) /\ told[fanned[k]] # "waiting"
    BY OutFacts DEF QueuesOK
<1>6. ASSUME NEW CONSTANT s \in Streams PROVE StreamOK(s)'
  <2>1. StreamOK(s) /\ Len(Had(s)) \in Nat /\ stream[s].from \in Nat /\ Len(fanned) \in Nat
    BY StreamFacts, OutFacts
  <2>2. \A x \in 1..Len(Had(s)) : stream[s].from + x \in 1..Len(fanned) /\ Had(s)[x] = fanned[stream[s].from + x]
    BY <2>1 DEF StreamOK
  <2>3. CASE s \in registry \ Full
    <3>1. /\ Len(Had(s))' = Len(Had(s)) + 1 /\ Had(s)'[Len(Had(s)) + 1] = m
          /\ (\A x \in 1..Len(Had(s)) : Had(s)'[x] = Had(s)[x])
          /\ stream[s].from + Len(Had(s)) = Len(fanned) /\ stream[s].pc = "serving"
      BY <1>4, <2>1, <2>3 DEF StreamOK
    <3>2. ASSUME NEW x \in 1..Len(Had(s))' PROVE Had(s)'[x] = fanned'[stream[s].from + x]
      <4>1. CASE x \in 1..Len(Had(s))
        BY <1>2, <2>2, <3>1, <4>1
      <4>2. CASE x = Len(Had(s)) + 1
        <5>1. stream[s].from + x = Len(fanned) + 1
          <6>1. stream[s].from \in Nat /\ Len(Had(s)) \in Nat /\ stream[s].from + Len(Had(s)) = Len(fanned)
            BY <2>1, <3>1
          <6>2. QED BY <4>2, <6>1
        <5>2. Had(s)'[x] = m /\ fanned'[stream[s].from + x] = m
          BY <1>2, <3>1, <4>2, <5>1, Zenon
        <5>3. QED BY <5>2
      <4>3. x \in 1..Len(Had(s)) \/ x = Len(Had(s)) + 1
        <5>1. Len(Had(s))' = Len(Had(s)) + 1 /\ Len(Had(s)) \in Nat
          BY <2>1, <3>1
        <5>2. QED BY <5>1
      <4>4. QED BY <4>1, <4>2, <4>3
    <3>3. stream'[s].from + Len(Had(s))' = Len(fanned')
      <4>1. /\ stream[s].from \in Nat /\ Len(Had(s)) \in Nat /\ stream[s].from + Len(Had(s)) = Len(fanned)
            /\ Len(Had(s))' = Len(Had(s)) + 1 /\ Len(fanned') = Len(fanned) + 1 /\ stream'[s].from = stream[s].from
        BY <1>2, <1>3, <2>1, <3>1
      <4>2. QED BY <4>1
    <3>4. QED BY <1>2, <1>3, <3>1, <3>2, <3>3 DEF StreamOK
  <2>4. CASE s \notin registry \ Full
    <3>1. s \notin registry' /\ SameHad(s)
      BY <1>3, <2>4
    <3>2. \A x \in 1..Len(Had(s))' : Had(s)'[x] = fanned'[stream'[s].from + x]
      BY <1>2, <2>2, <3>1 DEF SameHad
    <3>3. stream'[s].from + Len(Had(s))' <= Len(fanned')
      BY <1>2, <2>1, <3>1 DEF SameHad, StreamOK
    <3>4. QED BY <1>3, <3>1, <3>2, <3>3 DEF StreamOK
  <2>5. QED BY <2>3, <2>4
<1>7. ASSUME NEW CONSTANT s \in Streams, NEW CONSTANT n PROVE
         /\ Took(s, n) => Took(s, n)'
         /\ Took(s, n)' => Took(s, n) \/ (n = m /\ s \in registry \ Full)
  <2>1. CASE s \in registry \ Full
    <3>1. Len(Had(s)) \in Nat
      BY StreamFacts
    <3>2. QED BY <1>4, <2>1, <3>1 DEF Took
  <2>2. CASE s \notin registry \ Full
    BY <1>3, <2>2 DEF Took, SameHad
  <2>3. QED BY <2>1, <2>2
<1>8. FailedOK'
  <2>1. SUFFICES ASSUME NEW CONSTANT n \in 1..Len(told), NEW CONSTANT s \in Streams, told'[n] = "failed", Took(s, n)'
                 PROVE  FALSE
    BY DEF FailedOK
  <2>2. CASE n # m
    <3>1. told[n] = "failed" /\ Took(s, n)
      BY <1>7, <2>1, <2>2
    <3>2. QED BY <3>1, OutFacts DEF FailedOK
  <2>3. CASE n = m
    <3>1. Took(s, m) /\ told[m] = "waiting"
      BY <1>7, <2>1, <2>3
    <3>2. PICK x \in 1..Len(Had(s)) : Had(s)[x] = m
      BY <3>1 DEF Took
    <3>3. stream[s].from + x \in 1..Len(fanned) /\ fanned[stream[s].from + x] = m
      <4>1. /\ stream[s].from \in Nat /\ Len(Had(s)) \in Nat /\ Len(fanned) \in Nat
            /\ stream[s].from + Len(Had(s)) <= Len(fanned) /\ Had(s)[x] = fanned[stream[s].from + x]
        BY <3>2, StreamFacts, OutFacts DEF StreamOK
      <4>2. stream[s].from + x \in 1..Len(fanned)
        BY <3>2, <4>1
      <4>3. QED BY <3>2, <4>1, <4>2
    <3>4. QED BY <1>5, <3>1, <3>3
  <2>4. QED BY <2>2, <2>3
<1>9. DeliveredOK'
  <2>1. ASSUME NEW CONSTANT k, NEW CONSTANT n, NEW CONSTANT r, k \in 1..Len(fanned'), n = fanned'[k],
               told'[n] = "delivered", r \in registry', stream'[r].from < k
        PROVE  \E s \in Streams : Took(s, n)'
    <3>1. r \in registry /\ r \in Streams /\ stream[r].from < k
      BY <1>1, <1>3, <2>1
    <3>2. CASE k \in 1..Len(fanned)
      <4>1. n = fanned[k] /\ n \in 1..Len(told) /\ told[n] # "waiting"
        BY <1>2, <1>5, <2>1, <3>2
      <4>2. told[n] = "delivered"
        BY <2>1, <4>1
      <4>3. PICK s \in Streams : Took(s, fanned[k])
        BY <3>1, <3>2, <4>1, <4>2, OutFacts DEF DeliveredOK
      <4>4. Took(s, n)
        BY <4>1, <4>3
      <4>5. QED BY <1>7, <4>4
    <3>3. CASE k = Len(fanned) + 1
      <4>1. r \in registry \ Full
        BY <1>3, <2>1, <3>1
      <4>2. Len(Had(r))' = Len(Had(r)) + 1 /\ Had(r)'[Len(Had(r)) + 1] = m
        BY <1>4, <4>1
      <4>3. n = m /\ Len(Had(r)) \in Nat
        BY <1>2, <2>1, <3>1, <3>3, StreamFacts
      <4>4. Len(Had(r)) + 1 \in 1..Len(Had(r))'
        BY <4>2, <4>3
      <4>5. Took(r, n)'
        BY <4>2, <4>3, <4>4 DEF Took
      <4>6. QED BY <3>1, <4>5
    <3>4. k \in 1..Len(fanned) \/ k = Len(fanned) + 1
      <4>1. Len(fanned') = Len(fanned) + 1 /\ Len(fanned) \in Nat
        BY <1>2, OutFacts
      <4>2. QED BY <2>1, <4>1
    <3>5. QED BY <3>2, <3>3, <3>4
  <2>2. SUFFICES ASSUME NEW CONSTANT k \in 1..Len(fanned'), told'[fanned'[k]] = "delivered",
                        \E r \in registry' : stream'[r].from < k
                 PROVE  \E s \in Streams : Took(s, fanned[k])'
    BY DEF DeliveredOK
  <2>3. PICK r, n : r \in registry' /\ stream'[r].from < k /\ n = fanned'[k]
    BY <2>2
  <2>4. PICK s \in Streams : Took(s, n)'
    BY <2>1, <2>2, <2>3
  <2>5. Took(s, fanned[k])'
    BY <2>3, <2>4 DEF Took
  <2>6. QED BY <2>5
<1>10. QED BY <1>6, <1>8, <1>9 DEF StreamsInv

-----------------------------------------------------------------------------
(* The outbound worker: the steps. *)

\* Streams that nobody touches have what they had.
LEMMA StreamsRest ==
    ASSUME StreamsInv, UNCHANGED <<registry, stream>>
    PROVE  /\ registry' \subseteq registry /\ \A s \in Streams : SameHad(s)
           /\ \A s \in Streams : stream'[s].pc = "none" => stream'[s].got = <<>> /\ stream'[s].buffer = <<>>
           /\ \A s \in registry' : stream'[s].pc = "serving"
<1>1. ASSUME NEW CONSTANT s \in Streams
      PROVE  SameHad(s) /\ (stream'[s].pc = "none" => stream'[s].got = <<>> /\ stream'[s].buffer = <<>>)
    BY StreamFacts DEF SameHad, Had, StreamOK
<1>2. ASSUME NEW CONSTANT s \in registry' PROVE stream'[s].pc = "serving"
    BY <1>2, OutFacts, StreamFacts DEF StreamOK
<1>3. QED BY <1>1, <1>2

LEMMA PublishKeeps ==
    ASSUME StreamsInv, NEW CONSTANT waits \in BOOLEAN, Publish(waits)
    PROVE  StreamsInv'
<1>1. PICK n, v, q : n = Len(told) + 1 /\ v = (IF waits THEN "waiting" ELSE "queued")
                     /\ q = (IF waits THEN requests ELSE outbound)
    OBVIOUS
<1>2. /\ told' = Append(told, v) /\ UNCHANGED <<fanned, registry, stream>>
      /\ \/ v = "waiting" /\ q = requests /\ requests' = Append(q, n) /\ UNCHANGED outbound
         \/ v = "queued" /\ q = outbound /\ outbound' = Append(q, n) /\ UNCHANGED requests
    BY <1>1 DEF Publish
<1>3. n \in Nat /\ v \in Told /\ q \in Seq(Nat)
    BY <1>1, OutFacts DEF Told
<1>4. /\ told' \in Seq(Told) /\ Len(told') = n /\ told'[n] = v /\ (\A m \in 1..Len(told) : told'[m] = told[m])
      /\ Len(told) \in Nat /\ n = Len(told) + 1
    BY <1>1, <1>2, <1>3, OutFacts, AppendIs
<1>5. /\ Append(q, n) \in Seq(Nat) /\ Len(Append(q, n)) = Len(q) + 1 /\ Len(q) \in Nat
      /\ Append(q, n)[Len(q) + 1] = n /\ \A x \in 1..Len(q) : Append(q, n)[x] = q[x]
    BY <1>3, AppendIs
<1>6. QueueTyped'
    BY <1>2, <1>4, <1>5, OutFacts DEF QueueTyped
<1>7. 1..Len(told) \subseteq 1..Len(told') /\ n \in 1..Len(told') /\ n \notin 1..Len(told)
    BY <1>4
<1>8. QueuesOK'
  <2>1. \A x \in 1..Len(outbound') : outbound'[x] \in 1..Len(told') /\ told'[outbound'[x]] = "queued"
    <3>1. \A x \in 1..Len(outbound) : outbound[x] \in 1..Len(told) /\ told[outbound[x]] = "queued"
      BY OutFacts DEF QueuesOK
    <3>2. CASE UNCHANGED outbound
      BY <1>4, <1>7, <3>1, <3>2
    <3>3. CASE v = "queued" /\ q = outbound /\ outbound' = Append(q, n)
      <4>1. ASSUME NEW x \in 1..Len(outbound') PROVE x \in 1..Len(q) \/ x = Len(q) + 1
        BY <1>5, <3>3
      <4>2. QED BY <1>4, <1>5, <1>7, <3>1, <3>3, <4>1
    <3>4. QED BY <1>2, <3>2, <3>3
  <2>2. /\ \A x \in 1..Len(requests') : requests'[x] \in 1..Len(told') /\ told'[requests'[x]] \in {"waiting", "gone"}
        /\ \A x, y \in 1..Len(requests') : x # y => requests'[x] # requests'[y]
    <3>1. /\ \A x \in 1..Len(requests) : requests[x] \in 1..Len(told) /\ told[requests[x]] \in {"waiting", "gone"}
          /\ \A x, y \in 1..Len(requests) : x # y => requests[x] # requests[y]
      BY OutFacts DEF QueuesOK
    <3>2. CASE UNCHANGED requests
      BY <1>4, <1>7, <3>1, <3>2
    <3>3. CASE v = "waiting" /\ q = requests /\ requests' = Append(q, n)
      <4>1. ASSUME NEW x \in 1..Len(requests')
            PROVE  \/ x \in 1..Len(q) /\ requests'[x] = requests[x]
                   \/ x = Len(q) + 1 /\ requests'[x] = n
        BY <1>5, <3>3
      <4>2. \A x \in 1..Len(requests') : requests'[x] \in 1..Len(told') /\ told'[requests'[x]] \in {"waiting", "gone"}
        BY <1>4, <1>7, <3>1, <3>3, <4>1
      <4>3. ASSUME NEW x \in 1..Len(requests'), NEW y \in 1..Len(requests'), x # y PROVE requests'[x] # requests'[y]
        BY <1>7, <3>1, <3>3, <4>1, <4>3
      <4>4. QED BY <4>2, <4>3
    <3>4. QED BY <1>2, <3>2, <3>3
  <2>3. \A k \in 1..Len(fanned) : fanned[k] \in 1..Len(told') /\ told'[fanned[k]] # "waiting"
    <3>1. \A k \in 1..Len(fanned) : fanned[k] \in 1..Len(told) /\ told[fanned[k]] # "waiting"
      BY OutFacts DEF QueuesOK
    <3>2. QED BY <1>4, <1>7, <3>1
  <2>4. \A m \in 1..Len(told') : told'[m] \in {"failed", "delivered"} => \E k \in 1..Len(fanned) : fanned[k] = m
    <3>1. \A m \in 1..Len(told) : told[m] \in {"failed", "delivered"} => \E k \in 1..Len(fanned) : fanned[k] = m
      BY OutFacts DEF QueuesOK
    <3>2. \A m \in 1..Len(told') : m \in 1..Len(told) \/ m = n
      BY <1>4
    <3>3. v \notin {"failed", "delivered"}
      BY <1>2
    <3>4. QED BY <1>4, <3>1, <3>2, <3>3
  <2>5. QED BY <1>2, <2>1, <2>2, <2>3, <2>4 DEF QueuesOK
<1>9. /\ Len(told) <= Len(told')
      /\ \A m \in 1..Len(told') : told'[m] \in {"failed", "delivered"} => m \in 1..Len(told) /\ told[m] = told'[m]
  <2>1. \A m \in 1..Len(told') : m \in 1..Len(told) \/ m = n
    BY <1>4
  <2>2. v \notin {"failed", "delivered"}
    BY <1>2
  <2>3. QED BY <1>4, <2>1, <2>2
<1>10. QED BY <1>2, <1>6, <1>8, <1>9, StreamsRest, NothingFanned

LEMMA GiveUpKeeps ==
    ASSUME StreamsInv, GiveUp
    PROVE  StreamsInv'
<1>1. PICK m \in DOMAIN told : told[m] = "waiting" /\ told' = [told EXCEPT ![m] = "gone"]
    BY DEF GiveUp
<1>2. UNCHANGED <<outbound, requests, fanned, registry, stream>>
    BY DEF GiveUp
<1>3. /\ told' \in Seq(Told) /\ Len(told') = Len(told) /\ m \in 1..Len(told) /\ told'[m] = "gone"
      /\ \A n \in 1..Len(told) : n # m => told'[n] = told[n]
  <2>1. told \in Seq(Told) /\ "gone" \in Told
    BY OutFacts DEF Told
  <2>2. QED BY <1>1, <2>1
<1>4. QueueTyped'
    BY <1>2, <1>3, OutFacts DEF QueueTyped
<1>5. QueuesOK'
  <2>1. \A n \in 1..Len(told) : told'[n] = told[n] \/ (told[n] = "waiting" /\ told'[n] = "gone")
    BY <1>1, <1>3
  <2>2. /\ \A x \in 1..Len(outbound) : outbound[x] \in 1..Len(told) /\ told'[outbound[x]] = "queued"
        /\ \A x \in 1..Len(requests) : requests[x] \in 1..Len(told) /\ told'[requests[x]] \in {"waiting", "gone"}
        /\ \A x, y \in 1..Len(requests) : x # y => requests[x] # requests[y]
    <3>1. /\ \A x \in 1..Len(outbound) : outbound[x] \in 1..Len(told) /\ told[outbound[x]] = "queued"
          /\ \A x \in 1..Len(requests) : requests[x] \in 1..Len(told) /\ told[requests[x]] \in {"waiting", "gone"}
          /\ \A x, y \in 1..Len(requests) : x # y => requests[x] # requests[y]
      BY OutFacts DEF QueuesOK
    <3>2. \A x \in 1..Len(outbound) : told'[outbound[x]] = "queued"
      BY <2>1, <3>1
    <3>3. \A x \in 1..Len(requests) : told'[requests[x]] \in {"waiting", "gone"}
      BY <2>1, <3>1
    <3>4. QED BY <3>1, <3>2, <3>3
  <2>3. \A k \in 1..Len(fanned) : fanned[k] \in 1..Len(told) /\ told'[fanned[k]] # "waiting"
    <3>1. \A k \in 1..Len(fanned) : fanned[k] \in 1..Len(told) /\ told[fanned[k]] # "waiting"
      BY OutFacts DEF QueuesOK
    <3>2. QED BY <2>1, <3>1
  <2>4. \A n \in 1..Len(told) : told'[n] \in {"failed", "delivered"} => \E k \in 1..Len(fanned) : fanned[k] = n
    <3>1. \A n \in 1..Len(told) : told[n] \in {"failed", "delivered"} => \E k \in 1..Len(fanned) : fanned[k] = n
      BY OutFacts DEF QueuesOK
    <3>2. QED BY <2>1, <3>1
  <2>5. QED BY <1>2, <1>3, <2>2, <2>3, <2>4 DEF QueuesOK
<1>6. QED BY <1>1, <1>2, <1>3, <1>4, <1>5, OutFacts, StreamsRest, NothingFanned

\* The head of a queue leaves it.
LEMMA TakesHead ==
    ASSUME NEW q \in Seq(Nat), q # <<>>
    PROVE  /\ Head(q) \in Nat /\ Tail(q) \in Seq(Nat) /\ 1 \in 1..Len(q) /\ Head(q) = q[1]
           /\ \A x \in 1..Len(Tail(q)) : x + 1 \in 1..Len(q) /\ x + 1 # 1 /\ Tail(q)[x] = q[x + 1]
<1>1. /\ Tail(q) \in Seq(Nat) /\ Len(Tail(q)) = Len(q) - 1 /\ Len(q) \in Nat /\ Len(q) >= 1 /\ Head(q) \in Nat /\ Head(q) = q[1]
      /\ \A x \in 1..Len(Tail(q)) : x + 1 \in 1..Len(q) /\ Tail(q)[x] = q[x + 1]
    BY TailIs
<1>2. QED BY <1>1

LEMMA SendsKeep ==
    ASSUME StreamsInv, outbound # <<>>, fanOut(Head(outbound)), outbound' = Tail(outbound), UNCHANGED <<requests, told>>
    PROVE  StreamsInv'
<1>1. PICK m : m = Head(outbound)
    OBVIOUS
<1>2. /\ m \in Nat /\ outbound' \in Seq(Nat) /\ 1 \in 1..Len(outbound) /\ m = outbound[1]
      /\ \A x \in 1..Len(outbound') : x + 1 \in 1..Len(outbound) /\ outbound'[x] = outbound[x + 1]
    BY <1>1, OutFacts, TakesHead
<1>3. m \in 1..Len(told) /\ told[m] = "queued"
    BY <1>2, OutFacts DEF QueuesOK
<1>4. /\ fanned' \in Seq(Nat) /\ Len(fanned') = Len(fanned) + 1 /\ fanned'[Len(fanned) + 1] = m
      /\ (\A k \in 1..Len(fanned) : fanned'[k] = fanned[k])
      /\ registry' \in SUBSET registry /\ stream' \in [Streams -> StreamStates]
    BY <1>1, <1>2, FanOutIs
<1>5. QueueTyped'
    BY <1>2, <1>4, OutFacts DEF QueueTyped
<1>6. QueuesOK'
  <2>1. \A k \in 1..Len(fanned') : fanned'[k] \in 1..Len(told) /\ told[fanned'[k]] # "waiting"
    <3>1. \A k \in 1..Len(fanned') : k \in 1..Len(fanned) \/ k = Len(fanned) + 1
      BY <1>4, OutFacts
    <3>2. QED BY <1>3, <1>4, <3>1, OutFacts DEF QueuesOK
  <2>2. \A n \in 1..Len(told) : told[n] \in {"failed", "delivered"} => \E k \in 1..Len(fanned') : fanned'[k] = n
    <3>1. 1..Len(fanned) \subseteq 1..Len(fanned')
      BY <1>4, OutFacts
    <3>2. \A n \in 1..Len(told) : told[n] \in {"failed", "delivered"} => \E k \in 1..Len(fanned) : fanned[k] = n
      BY OutFacts DEF QueuesOK
    <3>3. QED BY <1>4, <3>1, <3>2
  <2>3. \A x \in 1..Len(outbound') : outbound'[x] \in 1..Len(told) /\ told[outbound'[x]] = "queued"
    BY <1>2, OutFacts DEF QueuesOK
  <2>4. QED BY <2>1, <2>2, <2>3, OutFacts DEF QueuesOK
<1>7. QED BY <1>1, <1>3, <1>5, <1>6, FannedKeeps

LEMMA AnswersKeep ==
    ASSUME StreamsInv, requests # <<>>, fanOut(Head(requests)), Acknowledge(Head(requests), ReachedNobody),
           requests' = Tail(requests), UNCHANGED outbound
    PROVE  StreamsInv'
<1>1. PICK m : m = Head(requests)
    OBVIOUS
<1>2. /\ m \in Nat /\ requests' \in Seq(Nat) /\ 1 \in 1..Len(requests) /\ m = requests[1]
      /\ \A x \in 1..Len(requests') : x + 1 \in 1..Len(requests) /\ x + 1 # 1 /\ requests'[x] = requests[x + 1]
    BY <1>1, OutFacts, TakesHead
<1>3. m \in 1..Len(told) /\ told[m] \in {"waiting", "gone"}
    BY <1>2, OutFacts DEF QueuesOK
<1>4. /\ fanned' \in Seq(Nat) /\ Len(fanned') = Len(fanned) + 1 /\ fanned'[Len(fanned) + 1] = m
      /\ (\A k \in 1..Len(fanned) : fanned'[k] = fanned[k])
      /\ registry' \in SUBSET registry /\ stream' \in [Streams -> StreamStates]
    BY <1>1, <1>2, FanOutIs
<1>5. PICK v : v = (IF told[m] = "waiting" THEN (IF ReachedNobody THEN "failed" ELSE "delivered") ELSE told[m])
    OBVIOUS
<1>6. told' = [told EXCEPT ![m] = v]
    BY <1>1, <1>5 DEF Acknowledge
<1>7. /\ v \in Told /\ v # "waiting" /\ (v \in {"failed", "delivered"} => told[m] = "waiting") /\ (v = "failed" => ReachedNobody)
    BY <1>3, <1>5 DEF Told
<1>8. /\ told' \in Seq(Told) /\ Len(told') = Len(told) /\ told'[m] = v
      /\ \A n \in 1..Len(told) : n # m => told'[n] = told[n]
  <2>1. told \in Seq(Told)
    BY OutFacts
  <2>2. QED BY <1>3, <1>6, <1>7, <2>1
<1>9. v = "failed" => Full = registry
    BY <1>7 DEF ReachedNobody, Live
<1>10. QueueTyped'
    BY <1>2, <1>4, <1>8, OutFacts DEF QueueTyped
<1>11. QueuesOK'
  <2>1. \A k \in 1..Len(fanned') : fanned'[k] \in 1..Len(told') /\ told'[fanned'[k]] # "waiting"
    <3>1. \A k \in 1..Len(fanned') : k \in 1..Len(fanned) \/ k = Len(fanned) + 1
      BY <1>4, OutFacts
    <3>2. \A k \in 1..Len(fanned) : fanned[k] \in 1..Len(told) /\ told[fanned[k]] # "waiting"
      BY OutFacts DEF QueuesOK
    <3>3. QED BY <1>3, <1>4, <1>7, <1>8, <3>1, <3>2
  <2>2. \A n \in 1..Len(told') : told'[n] \in {"failed", "delivered"} => \E k \in 1..Len(fanned') : fanned'[k] = n
    <3>1. 1..Len(fanned) \subseteq 1..Len(fanned') /\ Len(fanned) + 1 \in 1..Len(fanned')
      BY <1>4, OutFacts
    <3>2. \A n \in 1..Len(told) : told[n] \in {"failed", "delivered"} => \E k \in 1..Len(fanned) : fanned[k] = n
      BY OutFacts DEF QueuesOK
    <3>3. ASSUME NEW n \in 1..Len(told), told'[n] \in {"failed", "delivered"} PROVE \E k \in 1..Len(fanned') : fanned'[k] = n
      <4>1. CASE n = m
        BY <1>4, <3>1, <4>1
      <4>2. CASE n # m
        BY <1>4, <1>8, <3>1, <3>2, <3>3, <4>2
      <4>3. QED BY <4>1, <4>2
    <3>4. QED BY <1>8, <3>3
  <2>3. /\ \A x \in 1..Len(requests') : requests'[x] \in 1..Len(told) /\ told[requests'[x]] \in {"waiting", "gone"} /\ requests'[x] # m
        /\ \A x, y \in 1..Len(requests') : x # y => requests'[x] # requests'[y]
    <3>1. /\ \A x \in 1..Len(requests) : requests[x] \in 1..Len(told) /\ told[requests[x]] \in {"waiting", "gone"}
          /\ \A x, y \in 1..Len(requests) : x # y => requests[x] # requests[y]
      BY OutFacts DEF QueuesOK
    <3>2. \A x, y \in 1..Len(requests') : x # y => x + 1 # y + 1
      OBVIOUS
    <3>3. QED BY <1>2, <3>1, <3>2
  <2>4. \A x \in 1..Len(outbound) : outbound[x] \in 1..Len(told) /\ told[outbound[x]] = "queued" /\ outbound[x] # m
    BY <1>3, OutFacts DEF QueuesOK
  <2>5. QED BY <1>8, <2>1, <2>2, <2>3, <2>4 DEF QueuesOK
<1>12. QED BY <1>1, <1>3, <1>7, <1>8, <1>9, <1>10, <1>11, FannedKeeps

\* A stream opens where the fan-out is.
LEMMA SubscribeKeeps ==
    ASSUME StreamsInv, NEW CONSTANT s \in Streams, Subscribe(s)
    PROVE  StreamsInv'
<1>1. PICK r : r = [pc |-> "serving", buffer |-> <<>>, got |-> <<>>, from |-> Len(fanned), open |-> TRUE]
    OBVIOUS
<1>2. /\ stream[s].pc = "none" /\ registry' = registry \cup {s} /\ stream' = [stream EXCEPT ![s] = r]
      /\ UNCHANGED <<outbound, requests, told, fanned>>
    BY <1>1 DEF Subscribe
<1>3. <<>> \in Seq(Nat) /\ Len(<<>>) = 0
    OBVIOUS
<1>4. r \in StreamStates /\ r.pc = "serving" /\ r.got = <<>> /\ r.buffer = <<>> /\ r.from = Len(fanned)
    BY <1>1, <1>3, OutFacts DEF StreamStates
<1>5. /\ stream' \in [Streams -> StreamStates] /\ stream'[s] = r /\ \A t \in Streams : t # s => stream'[t] = stream[t]
    BY <1>2, <1>4, OutFacts
<1>6. QueueTyped' /\ QueuesOK'
    BY <1>2, <1>5, OutFacts DEF QueueTyped, QueuesOK
<1>7. Len(Had(s))' = 0 /\ Len(Had(s)) = 0 /\ s \notin registry
  <2>1. stream[s].got = <<>> /\ stream[s].buffer = <<>> /\ s \notin registry
    BY <1>2, StreamFacts DEF StreamOK
  <2>2. Len(<<>> \o <<>>) = 0
    OBVIOUS
  <2>3. QED BY <1>4, <1>5, <2>1, <2>2 DEF Had
<1>8. ASSUME NEW CONSTANT t \in Streams PROVE StreamOK(t)' /\ (\A m : Took(t, m)' <=> Took(t, m))
  <2>1. CASE t = s
    <3>1. StreamOK(s)'
      BY <1>2, <1>4, <1>5, <1>7, OutFacts DEF StreamOK
    <3>2. \A m : Took(s, m)' <=> Took(s, m)
      BY <1>7 DEF Took
    <3>3. QED BY <2>1, <3>1, <3>2
  <2>2. CASE t # s
    <3>1. stream'[t] = stream[t] /\ (t \in registry' <=> t \in registry) /\ StreamOK(t)
      BY <1>2, <1>5, <2>2, StreamFacts
    <3>2. StreamOK(t)'
      BY <1>2, <3>1 DEF StreamOK, Had
    <3>3. \A m : Took(t, m)' <=> Took(t, m)
      BY <3>1 DEF Took, Had
    <3>4. QED BY <3>2, <3>3
  <2>3. QED BY <2>1, <2>2
<1>9. FailedOK'
    BY <1>2, <1>8, OutFacts DEF FailedOK
<1>10. DeliveredOK'
  <2>1. SUFFICES ASSUME NEW CONSTANT k \in 1..Len(fanned), told[fanned[k]] = "delivered",
                        NEW CONSTANT t \in registry', stream'[t].from < k
                 PROVE  \E u \in Streams : Took(u, fanned[k])'
    BY <1>2 DEF DeliveredOK
  <2>2. t # s
    BY <1>4, <1>5, <2>1, OutFacts
  <2>3. t \in registry /\ t \in Streams /\ stream[t].from < k
    BY <1>2, <1>5, <2>1, <2>2, OutFacts
  <2>4. PICK u \in Streams : Took(u, fanned[k])
    BY <2>1, <2>3, OutFacts DEF DeliveredOK
  <2>5. Took(u, fanned[k])'
    BY <1>2, <1>8, <2>4
  <2>6. QED BY <2>5
<1>11. QED BY <1>6, <1>8, <1>9, <1>10 DEF StreamsInv

\* Without a word to a publisher and a message fanned out, only the streams move.
LEMMA OnlyStreams ==
    ASSUME StreamsInv, UNCHANGED <<outbound, requests, told, fanned>>, registry' \in SUBSET registry,
           stream' \in [Streams -> StreamStates], \A s \in Streams : SameHad(s),
           \A s \in Streams : stream'[s].pc = "none" => stream'[s].got = <<>> /\ stream'[s].buffer = <<>>,
           \A s \in registry' : stream'[s].pc = "serving"
    PROVE  StreamsInv'
<1>1. QueueTyped' /\ QueuesOK'
    BY OutFacts DEF QueueTyped, QueuesOK
<1>2. Len(told) <= Len(told')
    BY OutFacts
<1>3. QED BY <1>1, <1>2, NothingFanned

LEMMA ReceiveKeeps ==
    ASSUME StreamsInv, NEW CONSTANT s \in Streams, ReceiveDeliver(s)
    PROVE  StreamsInv'
<1>1. PICK g, b : g = stream[s].got /\ b = stream[s].buffer
    OBVIOUS
<1>2. /\ stream[s].pc = "serving" /\ b # <<>>
      /\ stream' = [stream EXCEPT ![s].buffer = Tail(@), ![s].got = Append(@, Head(stream[s].buffer))]
      /\ UNCHANGED <<outbound, requests, told, fanned, registry>>
    BY <1>1 DEF ReceiveDeliver
<1>3. g \in Seq(Nat) /\ b \in Seq(Nat) /\ stream[s] \in StreamStates /\ stream[s].from \in Nat
    BY <1>1, StreamFacts
<1>4. /\ Tail(b) \in Seq(Nat) /\ Append(g, Head(b)) \in Seq(Nat)
    BY <1>2, <1>3, TakesHead, AppendIs
<1>5. PICK r : r = [stream[s] EXCEPT !.buffer = Tail(b), !.got = Append(g, Head(b))]
    OBVIOUS
<1>6. r \in StreamStates /\ r.pc = "serving" /\ r.buffer = Tail(b) /\ r.got = Append(g, Head(b)) /\ r.from = stream[s].from
    BY <1>2, <1>3, <1>4, <1>5 DEF StreamStates
<1>7. stream' = [stream EXCEPT ![s] = r]
    BY <1>1, <1>2, <1>3, <1>5, OutFacts DEF StreamStates
<1>8. stream' \in [Streams -> StreamStates] /\ stream'[s] = r /\ \A t \in Streams : t # s => stream'[t] = stream[t]
    BY <1>6, <1>7, OutFacts
<1>9. ASSUME NEW CONSTANT t \in Streams PROVE SameHad(t)
  <2>1. CASE t = s
    <3>1. Had(s)' = Append(g, Head(b)) \o Tail(b) /\ Had(s) = g \o b
      BY <1>1, <1>6, <1>8 DEF Had
    <3>2. /\ Len(Append(g, Head(b)) \o Tail(b)) = Len(g \o b)
          /\ \A x \in 1..Len(g \o b) : (Append(g, Head(b)) \o Tail(b))[x] = (g \o b)[x]
      BY <1>2, <1>3, SendsOne
    <3>3. Len(Had(s))' = Len(Had(s)) /\ \A x \in 1..Len(Had(s)) : Had(s)'[x] = Had(s)[x]
      BY <3>1, <3>2, Zenon
    <3>4. QED BY <1>6, <1>8, <2>1, <3>3 DEF SameHad
  <2>2. CASE t # s
    BY <1>8, <2>2 DEF SameHad, Had
  <2>3. QED BY <2>1, <2>2
<1>10. /\ \A t \in Streams : stream'[t].pc = "none" => stream'[t].got = <<>> /\ stream'[t].buffer = <<>>
       /\ \A t \in registry' : stream'[t].pc = "serving"
    BY <1>2, <1>6, <1>8, StreamFacts, OutFacts DEF StreamOK
<1>11. QED BY <1>2, <1>8, <1>9, <1>10, OnlyStreams

LEMMA EndsKeep ==
    ASSUME StreamsInv, NEW CONSTANT s \in Streams, Unsubscribe(s), UNCHANGED <<outbound, requests, told, fanned>>
    PROVE  StreamsInv'
<1>1. /\ stream' = [stream EXCEPT ![s].pc = "ended"] /\ registry' = registry \ {s}
    BY DEF Unsubscribe
<1>2. PICK r : r = [stream[s] EXCEPT !.pc = "ended"]
    OBVIOUS
<1>3. r \in StreamStates /\ r.pc = "ended" /\ r.buffer = stream[s].buffer /\ r.got = stream[s].got /\ r.from = stream[s].from
    BY <1>2, StreamFacts DEF StreamStates
<1>4. stream' \in [Streams -> StreamStates] /\ stream'[s] = r /\ \A t \in Streams : t # s => stream'[t] = stream[t]
    BY <1>1, <1>2, <1>3, OutFacts
<1>5. ASSUME NEW CONSTANT t \in Streams PROVE SameHad(t)
  <2>1. CASE t = s
    BY <1>3, <1>4, <2>1 DEF SameHad, Had
  <2>2. CASE t # s
    BY <1>4, <2>2 DEF SameHad, Had
  <2>3. QED BY <2>1, <2>2
<1>6. /\ \A t \in Streams : stream'[t].pc = "none" => stream'[t].got = <<>> /\ stream'[t].buffer = <<>>
      /\ \A t \in registry' : stream'[t].pc = "serving"
    BY <1>1, <1>3, <1>4, StreamFacts, OutFacts DEF StreamOK
<1>7. QED BY <1>1, <1>4, <1>5, <1>6, OnlyStreams

LEMMA StreamsStay ==
    ASSUME StreamsInv, UNCHANGED <<outbound, requests, told, fanned, registry, stream>>
    PROVE  StreamsInv'
<1>1. registry' \in SUBSET registry /\ stream' \in [Streams -> StreamStates]
    BY OutFacts
<1>2. QED BY <1>1, StreamsRest, OnlyStreams

LEMMA StreamsStart ==
    ASSUME OutboundInit
    PROVE  StreamsInv
<1>1. <<>> \in Seq(Nat) /\ <<>> \in Seq(Told) /\ Len(<<>>) = 0 /\ Len(<<>> \o <<>>) = 0
    OBVIOUS
<1>2. PICK r : r = [pc |-> "none", buffer |-> <<>>, got |-> <<>>, from |-> 0, open |-> TRUE]
    OBVIOUS
<1>3. r \in StreamStates /\ r.pc = "none" /\ r.buffer = <<>> /\ r.got = <<>> /\ r.from = 0
    BY <1>1, <1>2 DEF StreamStates
<1>4. outbound = <<>> /\ requests = <<>> /\ told = <<>> /\ fanned = <<>> /\ registry = {} /\ stream = [s \in Streams |-> r]
    BY <1>2 DEF OutboundInit
<1>5. stream \in [Streams -> StreamStates] /\ \A s \in Streams : stream[s] = r
    BY <1>3, <1>4
<1>6. QueueTyped
    BY <1>1, <1>4, <1>5 DEF QueueTyped
<1>7. QueuesOK /\ FailedOK /\ DeliveredOK
    BY <1>1, <1>4 DEF QueuesOK, FailedOK, DeliveredOK
<1>8. ASSUME NEW CONSTANT s \in Streams PROVE StreamOK(s)
  <2>1. Had(s) = <<>> \o <<>> /\ stream[s] = r /\ fanned = <<>> /\ s \notin registry
    BY <1>3, <1>4, <1>5 DEF Had
  <2>2. Len(Had(s)) = 0
    BY <1>1, <2>1
  <2>3. QED BY <1>1, <1>3, <2>1, <2>2 DEF StreamOK
<1>9. QED BY <1>6, <1>7, <1>8 DEF StreamsInv

LEMMA StreamsStep ==
    ASSUME StreamsInv, [OutboundNext]_obVars
    PROVE  StreamsInv'
<1>1. CASE UNCHANGED obVars
    BY <1>1, StreamsStay DEF obVars
<1>2. ASSUME NEW CONSTANT waits \in BOOLEAN, Publish(waits) PROVE StreamsInv'
    BY <1>2, PublishKeeps
<1>3. CASE GiveUp
    BY <1>3, GiveUpKeeps
<1>4. CASE OutboundWorker
  <2>1. CASE outbound # <<>> /\ fanOut(Head(outbound)) /\ outbound' = Tail(outbound) /\ UNCHANGED <<requests, told, worker>>
    BY <2>1, SendsKeep
  <2>2. CASE /\ requests # <<>> /\ fanOut(Head(requests)) /\ Acknowledge(Head(requests), ReachedNobody)
             /\ requests' = Tail(requests) /\ UNCHANGED <<outbound, worker>>
    BY <2>2, AnswersKeep
  <2>3. CASE UNCHANGED <<outbound, requests, told, fanned, registry, stream>>
    BY <2>3, StreamsStay
  <2>4. QED BY <1>4, <2>1, <2>2, <2>3 DEF OutboundWorker
<1>5. ASSUME NEW CONSTANT s \in Streams, Subscribe(s) \/ ReceiveDeliver(s) PROVE StreamsInv'
    BY <1>5, SubscribeKeeps, ReceiveKeeps
<1>6. ASSUME NEW CONSTANT s \in Streams, EndDropped(s) \/ EndStream(s) PROVE StreamsInv'
    BY <1>6, EndsKeep DEF EndDropped, EndStream
<1>7. CASE CancelCall
    BY <1>6, <1>7 DEF CancelCall, Serving
<1>8. CASE stopServing \/ HardStop \/ ServerEnds \/ AllJoined \/ Cancel \/ JoinTimeout
    BY <1>8, StreamsStay DEF stopServing, HardStop, ServerEnds, AllJoined, Cancel, JoinTimeout
<1>9. ASSUME NEW CONSTANT w \in Workers, WorkerResult(w) \/ WorkerFails(w) PROVE StreamsInv'
    BY <1>9, StreamsStay DEF WorkerResult, WorkerFails
<1>10. QED BY <1>1, <1>2, <1>3, <1>4, <1>5, <1>6, <1>7, <1>8, <1>9 DEF OutboundNext, Runtime

-----------------------------------------------------------------------------
(* The end of the runtime. *)

LEMMA JoinFacts ==
    ASSUME JoinInv
    PROVE  /\ worker \in [Workers -> {"running", "ended", "failed"}] /\ main \in MainStates
           /\ main.pc \in {"running", "joining", "timeout", "done"} /\ main.cancelled \in BOOLEAN
           /\ main.err \in BOOLEAN /\ main.joined \in SUBSET Workers
BY DEF JoinInv, MainStates

\* A worker stops running: it was not joined yet.
LEMMA WorkerStops ==
    ASSUME JoinInv, main.pc \in {"running", "joining"}, UNCHANGED main,
           NEW CONSTANT w \in Workers, worker[w] = "running", NEW CONSTANT v \in {"ended", "failed"},
           worker' = [worker EXCEPT ![w] = v]
    PROVE  JoinInv'
<1>1. /\ worker' \in [Workers -> {"running", "ended", "failed"}] /\ worker'[w] = v
      /\ \A u \in Workers : u # w => worker'[u] = worker[u]
    BY JoinFacts
<1>2. w \notin main.joined
    BY DEF JoinInv
<1>3. \A u \in main.joined : worker'[u] = worker[u]
    BY <1>1, <1>2, JoinFacts
<1>4. (\E u \in main.joined : worker'[u] = "failed") <=> \E u \in main.joined : worker[u] = "failed"
    BY <1>3
<1>5. QED BY <1>1, <1>3, <1>4 DEF JoinInv

\* The result of a worker is joined.
LEMMA ResultKeeps ==
    ASSUME JoinInv, NEW CONSTANT w \in Workers, WorkerResult(w)
    PROVE  JoinInv'
<1>1. PICK e : e = (IF main.pc = "running" THEN worker[w] = "failed" ELSE joinRuntimeWorkerError(w))
    OBVIOUS
<1>2. /\ main.pc \in {"running", "joining"} /\ worker[w] # "running"
      /\ main' = [main EXCEPT !.pc = "joining", !.cancelled = TRUE, !.joined = main.joined \cup {w}, !.err = e]
      /\ UNCHANGED worker
    BY <1>1 DEF WorkerResult
<1>3. e \in BOOLEAN /\ (e <=> \E u \in main.joined \cup {w} : worker[u] = "failed")
  <2>1. main.pc = "running" => main.joined = {}
    BY DEF JoinInv
  <2>2. main.err <=> \E u \in main.joined : worker[u] = "failed"
    BY <1>2 DEF JoinInv
  <2>3. CASE main.pc = "running"
    <3>1. e = (worker[w] = "failed") /\ main.joined = {}
      BY <1>1, <2>1, <2>3
    <3>2. e \in BOOLEAN /\ (e <=> worker[w] = "failed")
      BY <3>1, Zenon
    <3>3. (\E u \in main.joined \cup {w} : worker[u] = "failed") <=> worker[w] = "failed"
      BY <3>1
    <3>4. QED BY <3>2, <3>3, Zenon
  <2>4. CASE main.pc # "running"
    <3>1. e = (main.err \/ worker[w] = "failed")
      BY <1>1, <2>4 DEF joinRuntimeWorkerError
    <3>2. e \in BOOLEAN /\ (e <=> main.err \/ worker[w] = "failed")
      BY <3>1, Zenon
    <3>3. (\E u \in main.joined \cup {w} : worker[u] = "failed") <=> (\E u \in main.joined : worker[u] = "failed") \/ worker[w] = "failed"
      OBVIOUS
    <3>4. QED BY <2>2, <3>2, <3>3, Zenon
  <2>5. QED BY <2>3, <2>4
<1>4. /\ main' \in MainStates /\ main'.pc = "joining" /\ main'.joined = main.joined \cup {w} /\ main'.err = e
    BY <1>2, <1>3, JoinFacts DEF MainStates
<1>5. \A u \in main'.joined : worker'[u] # "running"
    BY <1>2, <1>4 DEF JoinInv
<1>6. main'.err <=> \E u \in main'.joined : worker'[u] = "failed"
    BY <1>2, <1>3, <1>4, Zenon
<1>7. QED BY <1>2, <1>4, <1>5, <1>6, JoinFacts DEF JoinInv

LEMMA JoinStays ==
    ASSUME JoinInv, UNCHANGED <<worker, main>>
    PROVE  JoinInv'
BY DEF JoinInv

LEMMA MainKeeps ==
    ASSUME JoinInv, Cancel \/ AllJoined \/ JoinTimeout
    PROVE  JoinInv'
<1>1. CASE Cancel
  <2>1. main.pc = "running" /\ main' = [main EXCEPT !.pc = "joining", !.cancelled = TRUE] /\ UNCHANGED worker
    BY <1>1 DEF Cancel
  <2>2. main' \in MainStates /\ main'.pc = "joining" /\ main'.err = main.err /\ main'.joined = main.joined
    BY <2>1, JoinFacts DEF MainStates
  <2>3. QED BY <2>1, <2>2 DEF JoinInv
<1>2. CASE AllJoined
  <2>1. main.pc = "joining" /\ main.joined = Workers /\ main' = [main EXCEPT !.pc = "done"] /\ UNCHANGED worker
    BY <1>2 DEF AllJoined
  <2>2. main' \in MainStates /\ main'.pc = "done" /\ main'.err = main.err /\ main'.joined = Workers
    BY <2>1, JoinFacts DEF MainStates
  <2>3. QED BY <2>1, <2>2 DEF JoinInv
<1>3. CASE JoinTimeout
  <2>1. main' = [main EXCEPT !.pc = "timeout", !.err = TRUE] /\ UNCHANGED worker
    BY <1>3 DEF JoinTimeout
  <2>2. main' \in MainStates /\ main'.pc = "timeout" /\ main'.joined = main.joined
    BY <2>1, JoinFacts DEF MainStates
  <2>3. QED BY <2>1, <2>2 DEF JoinInv
<1>4. QED BY <1>1, <1>2, <1>3

LEMMA JoinStart ==
    ASSUME OutboundInit
    PROVE  JoinInv
<1>1. main = [pc |-> "running", cancelled |-> FALSE, err |-> FALSE, joined |-> {}] /\ worker = [w \in Workers |-> "running"]
    BY DEF OutboundInit
<1>2. main \in MainStates /\ main.pc = "running" /\ ~main.err /\ main.joined = {}
    BY <1>1 DEF MainStates
<1>3. QED BY <1>1, <1>2 DEF JoinInv

LEMMA JoinStep ==
    ASSUME JoinInv, [OutboundNext]_obVars
    PROVE  JoinInv'
<1>1. CASE UNCHANGED <<worker, main>>
    BY <1>1, JoinStays
<1>2. CASE UNCHANGED obVars
    BY <1>1, <1>2 DEF obVars
<1>3. SUFFICES ASSUME OutboundNext PROVE JoinInv'
    BY <1>2
<1>4. main.pc \in {"running", "joining"}
    BY <1>3 DEF OutboundNext
<1>5. CASE OutboundWorker
  <2>1. UNCHANGED main /\ worker["outbound"] = "running" /\ (UNCHANGED worker \/ worker' = [worker EXCEPT !["outbound"] = "ended"])
    BY <1>5 DEF OutboundWorker
  <2>2. CASE worker' = [worker EXCEPT !["outbound"] = "ended"]
    <3>1. "outbound" \in Workers
      BY DEF Workers
    <3>2. QED BY <1>4, <2>1, <2>2, <3>1, WorkerStops
  <2>3. QED BY <1>1, <2>1, <2>2
<1>6. CASE ServerEnds
  <2>1. UNCHANGED main /\ worker["server"] = "running" /\ worker' = [worker EXCEPT !["server"] = "ended"] /\ "server" \in Workers
    BY <1>6 DEF ServerEnds, Workers
  <2>2. QED BY <1>4, <2>1, WorkerStops
<1>7. ASSUME NEW CONSTANT w \in Workers, WorkerFails(w) PROVE JoinInv'
  <2>1. UNCHANGED main /\ worker[w] = "running" /\ worker' = [worker EXCEPT ![w] = "failed"]
    BY <1>7 DEF WorkerFails
  <2>2. QED BY <1>4, <2>1, WorkerStops
<1>8. ASSUME NEW CONSTANT w \in Workers, WorkerResult(w) PROVE JoinInv'
    BY <1>8, ResultKeeps
<1>9. CASE Cancel \/ AllJoined \/ JoinTimeout
    BY <1>9, MainKeeps
<1>10. CASE stopServing \/ HardStop \/ CancelCall \/ GiveUp
    BY <1>1, <1>10 DEF stopServing, HardStop, CancelCall, EndStream, GiveUp
<1>11. ASSUME NEW CONSTANT s \in Streams, Subscribe(s) \/ ReceiveDeliver(s) \/ EndDropped(s) \/ EndStream(s) PROVE JoinInv'
    BY <1>1, <1>11 DEF Subscribe, ReceiveDeliver, EndDropped, EndStream
<1>12. ASSUME NEW CONSTANT waits \in BOOLEAN, Publish(waits) PROVE JoinInv'
    BY <1>1, <1>12 DEF Publish
<1>13. QED BY <1>3, <1>5, <1>6, <1>7, <1>8, <1>9, <1>10, <1>11, <1>12 DEF OutboundNext, Runtime

-----------------------------------------------------------------------------
(* What the invariants of the outbound worker give. *)

LEMMA TookIs ==
    ASSUME StreamsInv, NEW CONSTANT s \in Streams, NEW CONSTANT m
    PROVE  m \in ToSet(stream[s].got \o stream[s].buffer) <=> Took(s, m)
<1>1. Had(s) \in Seq(Nat) /\ DOMAIN Had(s) = 1..Len(Had(s))
    BY StreamFacts
<1>2. QED BY <1>1 DEF ToSet, Took, Had

LEMMA OutboundIsSafe ==
    ASSUME StreamsInv, JoinInv
    PROVE  OutboundSafe
<1>1. DOMAIN told = 1..Len(told) /\ DOMAIN fanned = 1..Len(fanned)
    BY OutFacts
<1>2. ErrorMeansNobody
  <2>1. ASSUME NEW CONSTANT m \in DOMAIN told, told[m] = "failed", NEW CONSTANT s \in Streams
        PROVE  m \notin ToSet(stream[s].got \o stream[s].buffer)
    BY <1>1, <2>1, TookIs, OutFacts DEF FailedOK
  <2>2. ASSUME NEW CONSTANT m \in DOMAIN told, told[m] = "delivered" PROVE m \in ToSet(fanned)
    BY <1>1, <2>2, OutFacts DEF QueuesOK, ToSet
  <2>3. ASSUME NEW CONSTANT k \in DOMAIN fanned, told[fanned[k]] = "delivered", \E s \in registry : stream[s].from < k
        PROVE  \E s \in Streams : fanned[k] \in ToSet(stream[s].got \o stream[s].buffer)
    <3>1. PICK s \in Streams : Took(s, fanned[k])
      BY <1>1, <2>3, OutFacts DEF DeliveredOK
    <3>2. PICK n : n = fanned[k]
      OBVIOUS
    <3>3. n \in ToSet(stream[s].got \o stream[s].buffer)
      BY <3>1, <3>2, TookIs
    <3>4. QED BY <3>2, <3>3
  <2>4. QED BY <2>1, <2>2, <2>3 DEF ErrorMeansNobody
<1>3. StreamsHaveNoGaps
  <2>1. ASSUME NEW CONSTANT s \in Streams
        PROVE  /\ Had(s) = SubSeq(fanned, stream[s].from + 1, stream[s].from + Len(Had(s)))
               /\ s \in registry => Len(Had(s)) = Len(fanned) - stream[s].from
    <3>1. PICK f, l : f = stream[s].from /\ l = Len(Had(s))
      OBVIOUS
    <3>2. /\ f \in Nat /\ l \in Nat /\ Had(s) \in Seq(Nat) /\ fanned \in Seq(Nat) /\ Len(fanned) \in Nat
          /\ f + l <= Len(fanned) /\ (\A x \in 1..l : Had(s)[x] = fanned[f + x]) /\ (s \in registry => f + l = Len(fanned))
      BY <3>1, StreamFacts, OutFacts DEF StreamOK
    <3>3. PICK q : q = SubSeq(fanned, f + 1, f + l)
      OBVIOUS
    <3>4. q \in Seq(Nat) /\ Len(q) = l /\ \A x \in 1..l : q[x] = fanned[f + x]
      <4>1. /\ f + 1 \in Int /\ f + l \in Int /\ 1 <= f + 1 /\ f + l <= Len(fanned) /\ (f + l) - (f + 1) + 1 = l
            /\ \A x \in 1..l : (f + 1) + x - 1 = f + x /\ f + x \in 1..Len(fanned)
        BY <3>2
      <4>2. q = [x \in 1..l |-> fanned[f + x]]
        BY <3>2, <3>3, <4>1
      <4>3. \A x \in 1..l : fanned[f + x] \in Nat
        BY <3>2, <4>1
      <4>4. QED BY <3>2, <4>2, <4>3
    <3>5. Had(s) = q
      <4>1. PICK h : h = Had(s)
        OBVIOUS
      <4>2. h \in Seq(Nat) /\ Len(h) = l /\ \A x \in 1..l : h[x] = q[x]
        BY <3>1, <3>2, <3>4, <4>1
      <4>3. h = q
        BY <3>4, <4>2, SameSequence
      <4>4. QED BY <4>1, <4>3
    <3>6. s \in registry => l = Len(fanned) - f
      BY <3>2
    <3>7. QED BY <3>1, <3>3, <3>5, <3>6
  <2>2. QED BY <2>1 DEF StreamsHaveNoGaps, Had
<1>4. ErrorsAreReported
    BY DEF ErrorsAreReported, JoinInv
<1>5. QED BY <1>2, <1>3, <1>4 DEF OutboundSafe

-----------------------------------------------------------------------------
(* The media store: what scopes name only grows, until the sweep releases a scope. *)

LEMMA MediaFacts ==
    ASSUME MediaInv
    PROVE  /\ MediaTyped /\ SweepOK /\ SendOK /\ QueueHeld /\ TranscriptHeld /\ AttachedHeld /\ Backed
           /\ nScopes \in Nat /\ MaxScopes \in Nat /\ nScopes <= MaxScopes /\ 1..nScopes \subseteq Web
           /\ queue \in Seq(SUBSET Contents) /\ transcript \in Seq(SUBSET Contents) /\ rpc \in Sends /\ sweep \in Sweeps
           /\ scopes \in [DOMAIN scopes -> ScopeRecords] /\ DOMAIN scopes \subseteq {Telegram, Tool} \cup 1..nScopes
           /\ Len(queue) \in Nat /\ Len(transcript) \in Nat /\ DOMAIN queue = 1..Len(queue) /\ DOMAIN transcript = 1..Len(transcript)
<1>1. MediaTyped /\ MaxScopes \in Nat
    BY MediaAssumption DEF MediaInv
<1>2. nScopes \in Nat /\ nScopes <= MaxScopes /\ 1..nScopes \subseteq Web
    BY <1>1 DEF MediaTyped, Web
<1>3. queue \in Seq(SUBSET Contents) /\ transcript \in Seq(SUBSET Contents)
    BY <1>1 DEF MediaTyped
<1>4. Len(queue) \in Nat /\ Len(transcript) \in Nat /\ DOMAIN queue = 1..Len(queue) /\ DOMAIN transcript = 1..Len(transcript)
    BY <1>3
<1>5. QED BY <1>1, <1>2, <1>3, <1>4 DEF MediaInv, MediaTyped

\* What a store may do to the scopes: name more, and make young ones.
Grown ==
    /\ DOMAIN scopes \subseteq DOMAIN scopes'
    /\ \A t \in DOMAIN scopes : scopes[t].refs \subseteq scopes'[t].refs /\ (scopes[t].fresh => scopes'[t].fresh)
    /\ \A t \in DOMAIN scopes' : t \in DOMAIN scopes \/ scopes'[t].fresh
    /\ scopes' \in [DOMAIN scopes' -> ScopeRecords] /\ DOMAIN scopes' \subseteq {Telegram, Tool} \cup 1..nScopes'
    /\ nScopes' \in 0..MaxScopes /\ nScopes' >= nScopes

LEMMA NothingGrows ==
    ASSUME MediaInv, UNCHANGED <<scopes, nScopes>>
    PROVE  Grown
BY MediaFacts DEF Grown, MediaTyped

\* Who holds a message's media goes on holding it while scopes grow.
LEMMA HoldersStay ==
    ASSUME MediaInv, Grown, UNCHANGED sweep, NEW CONSTANT t, NEW CONSTANT m, Names(t, m)
    PROVE  t \in DOMAIN scopes' /\ Names(t, m)' /\ (Young(t) => Young(t)') /\ (Spared(t, m) => Spared(t, m)')
<1>1. DOMAIN scopes \subseteq DOMAIN scopes' /\ \A u \in DOMAIN scopes : scopes[u].refs \subseteq scopes'[u].refs /\ (scopes[u].fresh => scopes'[u].fresh)
    BY DEF Grown
<1>2. QED BY <1>1 DEF Names, Young, Spared

LEMMA GrownKeeps ==
    ASSUME MediaInv, Grown, UNCHANGED sweep
    PROVE  /\ queue' = queue => QueueHeld'
           /\ transcript' = transcript => TranscriptHeld' /\ SweepOK'
           /\ transcript' = transcript /\ attached' = attached => AttachedHeld'
           /\ rpc' = rpc => SendOK'
<1>1. /\ \A t \in DOMAIN scopes : t \in DOMAIN scopes' /\ scopes[t].refs \subseteq scopes'[t].refs /\ (scopes[t].fresh => scopes'[t].fresh)
      /\ \A t \in DOMAIN scopes' : t \in DOMAIN scopes \/ scopes'[t].fresh
      /\ nScopes' \in Nat /\ nScopes' >= nScopes /\ nScopes \in Nat /\ 1..nScopes \subseteq 1..nScopes'
    BY MediaFacts DEF Grown
<1>2. ASSUME queue' = queue PROVE QueueHeld'
  <2>1. SUFFICES ASSUME NEW CONSTANT x \in DOMAIN queue, NEW CONSTANT m, m = queue[x], m # {}
        PROVE  \E s \in DOMAIN scopes' : Names(s, m)' /\ Young(s)'
    BY <1>2 DEF QueueHeld
  <2>2. PICK s \in DOMAIN scopes : Names(s, m) /\ Young(s)
    BY <2>1, MediaFacts DEF QueueHeld
  <2>3. QED BY <2>2, HoldersStay
<1>3. ASSUME transcript' = transcript PROVE TranscriptHeld'
  <2>1. SUFFICES ASSUME NEW CONSTANT x \in DOMAIN transcript, NEW CONSTANT m, m = transcript[x], m # {}
        PROVE  \E s \in DOMAIN scopes' : Names(s, m)' /\ Spared(s, m)'
    BY <1>3 DEF TranscriptHeld
  <2>2. PICK s \in DOMAIN scopes : Names(s, m) /\ Spared(s, m)
    BY <2>1, MediaFacts DEF TranscriptHeld
  <2>3. QED BY <2>2, HoldersStay
<1>4. ASSUME transcript' = transcript PROVE SweepOK'
  <2>1. SweepOK
    BY MediaFacts
  <2>2. QED BY <1>1, <1>4, <2>1 DEF SweepOK
<1>5. ASSUME transcript' = transcript, attached' = attached PROVE AttachedHeld'
  <2>1. \A c \in attached : Names(Tool, {c}) => Names(Tool, {c})'
    BY <1>1 DEF Names
  <2>2. QED BY <1>5, <2>1, MediaFacts DEF AttachedHeld
<1>6. ASSUME rpc' = rpc PROVE SendOK'
  <2>1. SUFFICES ASSUME rpc.pc # "idle"
        PROVE  /\ rpc.id \in 1..nScopes' /\ rpc.id \notin sweep.old /\ (rpc.id \in DOMAIN scopes' => scopes'[rpc.id].fresh)
               /\ rpc.k \in 1..Len(rpc.parts) /\ \A j \in 1..(rpc.k - 1) : Names(rpc.id, {rpc.parts[j]})'
    BY <1>6 DEF SendOK
  <2>2. /\ rpc.id \in 1..nScopes /\ rpc.id \notin sweep.old /\ (rpc.id \in DOMAIN scopes => scopes[rpc.id].fresh)
        /\ rpc.k \in 1..Len(rpc.parts) /\ \A j \in 1..(rpc.k - 1) : Names(rpc.id, {rpc.parts[j]})
    BY <2>1, MediaFacts DEF SendOK
  <2>3. \A j \in 1..(rpc.k - 1) : Names(rpc.id, {rpc.parts[j]})'
    BY <1>1, <1>6, <2>2 DEF Names
  <2>4. QED BY <1>1, <2>2, <2>3
<1>7. QED BY <1>2, <1>3, <1>4, <1>5, <1>6

\* A step that leaves disk, scopes and transcript to themselves.
LEMMA BackedStays ==
    ASSUME MediaInv, UNCHANGED <<disk, scopes>>
    PROVE  Backed'
BY MediaFacts DEF Backed, ScopesAreBacked, Resolves

\* Store, however far it gets: the objects are there before a scope names them.
LEMMA StoreGrows ==
    ASSUME MediaInv, NEW CONSTANT c \in Contents, NEW CONSTANT s, s \in {Telegram, Tool} \cup 1..nScopes',
           NEW CONSTANT type, NEW CONSTANT upto \in {"nothing", "object", "ref", "scope"}, Written(c, type, s, upto),
           nScopes' \in 0..MaxScopes, nScopes' >= nScopes
    PROVE  /\ Grown /\ Backed' /\ disk.objects \subseteq disk'.objects /\ disk.refs \subseteq disk'.refs
           /\ upto = "scope" => Names(s, {c})' /\ scopes'[s].fresh
<1>1. /\ disk.objects \subseteq disk'.objects /\ disk.refs \subseteq disk'.refs
      /\ upto = "scope" => c \in disk'.objects /\ c \in disk'.refs
    BY DEF Written
<1>1a. disk' = [objects |-> disk'.objects, refs |-> disk'.refs, type |-> disk'.type]
    BY DEF Written
<1>2. /\ scopes \in [DOMAIN scopes -> ScopeRecords] /\ DOMAIN scopes \subseteq {Telegram, Tool} \cup 1..nScopes'
      /\ \A t \in DOMAIN scopes : scopes[t].refs \subseteq Contents /\ scopes[t].fresh \in BOOLEAN
  <2>1. scopes \in [DOMAIN scopes -> ScopeRecords] /\ DOMAIN scopes \subseteq {Telegram, Tool} \cup 1..nScopes
    BY MediaFacts
  <2>2. 1..nScopes \subseteq 1..nScopes'
    BY MediaFacts
  <2>3. QED BY <2>1, <2>2 DEF ScopeRecords
<1>3. CASE upto # "scope"
  <2>1. scopes' = scopes
    BY <1>3 DEF Written
  <2>2. Grown
    BY <1>2, <2>1 DEF Grown
  <2>3. Backed'
    BY <1>1, <1>1a, <2>1, MediaFacts DEF Backed, ScopesAreBacked, Resolves
  <2>4. QED BY <1>1, <1>3, <2>2, <2>3
<1>4. CASE upto = "scope"
  <2>1. scopes' = [t \in DOMAIN scopes \cup {s} |-> [refs |-> (IF t \in DOMAIN scopes THEN scopes[t].refs ELSE {}) \cup (IF t = s THEN {c} ELSE {}),
                                                     fresh |-> t = s \/ scopes[t].fresh]]
    BY <1>4 DEF Written
  <2>2. DOMAIN scopes' = DOMAIN scopes \cup {s} /\ s \in DOMAIN scopes'
    BY <2>1
  <2>3. \A t \in DOMAIN scopes : scopes'[t].refs = scopes[t].refs \cup (IF t = s THEN {c} ELSE {}) /\ (scopes'[t].fresh <=> t = s \/ scopes[t].fresh)
    BY <2>1
  <2>4. c \in scopes'[s].refs /\ scopes'[s].fresh /\ (s \notin DOMAIN scopes => scopes'[s].refs = {c})
    BY <2>1
  <2>5. \A t \in DOMAIN scopes' : scopes'[t] \in ScopeRecords
    <3>1. ASSUME NEW CONSTANT t \in DOMAIN scopes' PROVE scopes'[t] \in ScopeRecords
      <4>1. PICK r, f : /\ r = (IF t \in DOMAIN scopes THEN scopes[t].refs ELSE {}) \cup (IF t = s THEN {c} ELSE {})
                        /\ f \in BOOLEAN /\ (f <=> (t = s \/ scopes[t].fresh))
        OBVIOUS
      <4>2. scopes'[t] = [refs |-> r, fresh |-> f]
        BY <2>1, <2>2, <4>1, Zenon
      <4>3. r \subseteq Contents
        BY <1>2, <4>1
      <4>4. QED BY <4>1, <4>2, <4>3 DEF ScopeRecords
    <3>2. QED BY <3>1
  <2>6. Grown
    <3>1. scopes' = [t \in DOMAIN scopes' |-> scopes'[t]]
      BY <2>1
    <3>2. scopes' \in [DOMAIN scopes' -> ScopeRecords]
      BY <2>5, <3>1
    <3>3. \A t \in DOMAIN scopes : scopes[t].refs \subseteq scopes'[t].refs /\ (scopes[t].fresh => scopes'[t].fresh)
      BY <2>3
    <3>4. QED BY <1>2, <2>2, <2>4, <3>2, <3>3 DEF Grown
  <2>7. Backed'
    <3>1. SUFFICES ASSUME NEW CONSTANT t \in DOMAIN scopes', NEW CONSTANT d \in scopes'[t].refs PROVE d \in disk'.refs /\ d \in disk'.objects
      BY <1>1a DEF Backed, ScopesAreBacked, Resolves
    <3>2. d = c \/ (t \in DOMAIN scopes /\ d \in scopes[t].refs)
      BY <2>2, <2>3, <2>4
    <3>3. t \in DOMAIN scopes /\ d \in scopes[t].refs => d \in disk.refs /\ d \in disk.objects
      BY MediaFacts DEF Backed, ScopesAreBacked, Resolves
    <3>4. QED BY <1>1, <1>4, <3>2, <3>3
  <2>8. Names(s, {c})'
    BY <2>2, <2>4 DEF Names
  <2>9. QED BY <1>1, <1>4, <2>4, <2>6, <2>7, <2>8
<1>5. QED BY <1>3, <1>4

LEMMA StoreKeeps ==
    ASSUME MediaInv, NEW CONSTANT c \in Contents, NEW CONSTANT s, s \in {Telegram, Tool} \cup 1..nScopes', NEW CONSTANT type,
           Stored(c, type, s) \/ StoreFails(c, type, s), nScopes' \in 0..MaxScopes, nScopes' >= nScopes
    PROVE  Grown /\ Backed' /\ (Stored(c, type, s) => Names(s, {c})' /\ scopes'[s].fresh)
<1>1. ASSUME Stored(c, type, s) PROVE Grown /\ Backed' /\ Names(s, {c})' /\ scopes'[s].fresh
  <2>1. Written(c, type, s, "scope")
    BY <1>1 DEF Stored
  <2>2. QED BY <2>1, StoreGrows
<1>2. ASSUME StoreFails(c, type, s) PROVE Grown /\ Backed'
  <2>1. PICK upto \in {"nothing", "object", "ref"} : Written(c, type, s, upto)
    BY <1>2 DEF StoreFails
  <2>2. QED BY <2>1, StoreGrows
<1>3. QED BY <1>1, <1>2

InboundTyped ==
    /\ inbound = [poll |-> inbound.poll, msg |-> inbound.msg]
    /\ inbound.msg = [pc |-> inbound.msg.pc, content |-> inbound.msg.content]
    /\ inbound.msg.pc # "idle" => inbound.msg.content \in Contents

LEMMA TypedKeeps ==
    ASSUME MediaInv, Grown, rpc' \in Sends, known' \in SUBSET Contents, queue' \in Seq(SUBSET Contents),
           transcript' \in Seq(SUBSET Contents), sweep' \in Sweeps, attached' \in SUBSET Contents,
           UNCHANGED inbound \/ InboundTyped'
    PROVE  MediaTyped'
<1>1. InboundTyped'
    BY MediaFacts DEF InboundTyped, MediaTyped
<1>2. QED BY <1>1 DEF MediaTyped, InboundTyped, Grown

\* A step in which nothing but the scopes, the messages in flight and the browsers' references may change.
LEMMA GrownInv ==
    ASSUME MediaInv, Grown, Backed', UNCHANGED <<sweep, transcript>>, known' \in SUBSET Contents,
           UNCHANGED attached \/ (attached' \in SUBSET Contents /\ AttachedHeld'), UNCHANGED rpc \/ (rpc' \in Sends /\ SendOK'),
           UNCHANGED queue \/ (queue' \in Seq(SUBSET Contents) /\ QueueHeld'), UNCHANGED inbound \/ InboundTyped'
    PROVE  MediaInv'
<1>1. rpc \in Sends /\ queue \in Seq(SUBSET Contents) /\ transcript \in Seq(SUBSET Contents) /\ sweep \in Sweeps /\ attached \in SUBSET Contents
    BY MediaFacts DEF MediaTyped
<1>2. rpc' \in Sends /\ queue' \in Seq(SUBSET Contents) /\ attached' \in SUBSET Contents
    BY <1>1
<1>3. MediaTyped'
    BY <1>1, <1>2, TypedKeeps
<1>4. TranscriptHeld' /\ SweepOK' /\ QueueHeld' /\ AttachedHeld' /\ SendOK'
    BY GrownKeeps
<1>5. QED BY <1>3, <1>4 DEF MediaInv

LEMMA PutKeeps ==
    ASSUME MediaInv, NEW CONSTANT c \in Contents, PutMedia(c)
    PROVE  MediaInv'
<1>1. PICK type : type = sniffMedia(Detected[c])
    OBVIOUS
<1>2. /\ nScopes' = nScopes + 1 /\ nScopes' \in Web /\ known' \in {known, known \cup {c}}
      /\ UNCHANGED <<rpc, queue, transcript, inbound, sweep, attached>>
    BY DEF PutMedia, NextScope
<1>3. nScopes' \in 0..MaxScopes /\ nScopes' >= nScopes /\ nScopes' \in 1..nScopes'
    BY <1>2, MediaFacts DEF Web
<1>4. PICK s : s = nScopes'
    OBVIOUS
<1>5. Stored(c, type, s) \/ StoreFails(c, type, s)
    BY <1>1, <1>2, <1>4 DEF PutMedia, NextScope
<1>6. Grown /\ Backed'
    BY <1>3, <1>4, <1>5, StoreKeeps
<1>7. known' \in SUBSET Contents
    BY <1>2, MediaFacts DEF MediaTyped
<1>8. QED BY <1>2, <1>6, <1>7, GrownInv

LEMMA AttachKeeps ==
    ASSUME MediaInv, NEW CONSTANT c \in Contents, AttachPath(c)
    PROVE  MediaInv'
<1>1. PICK type : type = normalizeAudioContentType(KindOf[c], Detected[c])
    OBVIOUS
<1>2. /\ UNCHANGED <<nScopes, rpc, known, queue, transcript, inbound, sweep>>
      /\ (Stored(c, type, Tool) /\ attached' = attached \cup {c}) \/ (StoreFails(c, type, Tool) /\ UNCHANGED attached)
    BY <1>1 DEF AttachPath
<1>3. nScopes' \in 0..MaxScopes /\ nScopes' >= nScopes /\ known' \in SUBSET Contents
    BY <1>2, MediaFacts DEF MediaTyped
<1>4. Grown /\ Backed' /\ (Stored(c, type, Tool) => Names(Tool, {c})')
    BY <1>2, <1>3, StoreKeeps
<1>5. ASSUME Stored(c, type, Tool), attached' = attached \cup {c} PROVE attached' \in SUBSET Contents /\ AttachedHeld'
  <2>1. attached' \in SUBSET Contents
    BY <1>5, MediaFacts DEF MediaTyped
  <2>2. \A d \in attached : Names(Tool, {d})' \/ \E k \in DOMAIN transcript : d \in transcript[k]
    <3>1. DOMAIN scopes \subseteq DOMAIN scopes' /\ \A t \in DOMAIN scopes : scopes[t].refs \subseteq scopes'[t].refs
      BY <1>4 DEF Grown
    <3>2. \A d : Names(Tool, {d}) => Names(Tool, {d})'
      BY <3>1 DEF Names
    <3>3. QED BY <3>2, MediaFacts DEF AttachedHeld
  <2>3. QED BY <1>2, <1>4, <1>5, <2>1, <2>2 DEF AttachedHeld
<1>6. QED BY <1>2, <1>3, <1>4, <1>5, GrownInv

\* A message more waits, for which a scope holds what it names.
LEMMA QueueMore ==
    ASSUME MediaInv, Grown, UNCHANGED sweep, NEW CONSTANT m \in SUBSET Contents, queue' = Append(queue, m),
           m = {} \/ \E s \in DOMAIN scopes' : Names(s, m)' /\ Young(s)'
    PROVE  queue' \in Seq(SUBSET Contents) /\ QueueHeld'
<1>1. queue \in Seq(SUBSET Contents) /\ Len(queue) \in Nat /\ DOMAIN queue = 1..Len(queue)
    BY MediaFacts
<1>2. /\ queue' \in Seq(SUBSET Contents) /\ DOMAIN queue' = 1..(Len(queue) + 1)
      /\ queue'[Len(queue) + 1] = m /\ \A x \in 1..Len(queue) : queue'[x] = queue[x]
    BY <1>1
<1>3. ASSUME NEW CONSTANT x \in 1..Len(queue), NEW CONSTANT q, q = queue[x], q # {}
      PROVE  \E s \in DOMAIN scopes' : Names(s, q)' /\ Young(s)'
  <2>1. PICK s \in DOMAIN scopes : Names(s, q) /\ Young(s)
    BY <1>1, <1>3, MediaFacts DEF QueueHeld
  <2>2. QED BY <2>1, HoldersStay
<1>4. ASSUME NEW CONSTANT x \in DOMAIN queue', NEW CONSTANT q, q = queue'[x], q # {}
      PROVE  \E s \in DOMAIN scopes' : Names(s, q)' /\ Young(s)'
  <2>1. CASE x \in 1..Len(queue)
    BY <1>2, <1>3, <1>4, <2>1
  <2>2. CASE x = Len(queue) + 1
    BY <1>2, <1>4, <2>2
  <2>3. QED BY <1>1, <1>2, <1>4, <2>1, <2>2
<1>5. QED BY <1>2, <1>4 DEF QueueHeld

LEMMA AttachmentKeeps ==
    ASSUME MediaInv, storeAttachment
    PROVE  MediaInv'
<1>1. PICK c : c = inbound.msg.content
    OBVIOUS
<1>2. PICK type : type = Detected[c]
    OBVIOUS
<1>3. /\ inbound.msg.pc = "store" /\ UNCHANGED <<nScopes, rpc, known, transcript, sweep, attached>>
      /\ (Stored(c, type, Telegram) /\ HandOn({c})) \/ (StoreFails(c, type, Telegram) /\ HandOn({}))
    BY <1>1, <1>2 DEF storeAttachment, IngestFails
<1>4. c \in Contents /\ nScopes' \in 0..MaxScopes /\ nScopes' >= nScopes /\ known' \in SUBSET Contents
    BY <1>1, <1>3, MediaFacts DEF MediaTyped
<1>5. Grown /\ Backed' /\ (Stored(c, type, Telegram) => Names(Telegram, {c})')
    BY <1>3, <1>4, StoreKeeps
<1>6. PICK m \in SUBSET Contents : queue' = Append(queue, m) /\ (m = {} \/ Names(Telegram, m)')
    BY <1>3, <1>4, <1>5 DEF HandOn
<1>7. queue' \in Seq(SUBSET Contents) /\ QueueHeld'
  <2>1. Names(Telegram, m)' => Telegram \in DOMAIN scopes' /\ Young(Telegram)'
    BY DEF Names, Young
  <2>2. QED BY <1>3, <1>5, <1>6, <2>1, QueueMore
<1>8. InboundTyped'
    BY <1>3, MediaFacts DEF HandOn, NoMessage, InboundTyped, MediaTyped
<1>9. QED BY <1>3, <1>4, <1>5, <1>7, <1>8, GrownInv

-----------------------------------------------------------------------------
(* The send of a browser. *)

LEMMA NoSendIs == NoSend \in Sends /\ NoSend.pc = "idle"
<1>1. <<>> \in Seq(Contents)
    OBVIOUS
<1>2. QED BY <1>1 DEF NoSend, Sends

LEMMA NoSendKeeps ==
    ASSUME rpc' = NoSend
    PROVE  rpc' \in Sends /\ SendOK'
BY NoSendIs DEF SendOK

LEMMA SendFacts ==
    ASSUME MediaInv, rpc.pc # "idle"
    PROVE  /\ rpc = [pc |-> rpc.pc, parts |-> rpc.parts, k |-> rpc.k, id |-> rpc.id] /\ rpc.parts \in Seq(Contents) /\ rpc.id \in 1..nScopes
           /\ rpc.k \in Nat /\ 1 <= rpc.k /\ rpc.k <= Len(rpc.parts) /\ Len(rpc.parts) \in Nat /\ Part \in Contents
           /\ rpc.id \notin sweep.old /\ (rpc.id \in DOMAIN scopes => scopes[rpc.id].fresh)
           /\ \A j \in 1..(rpc.k - 1) : Names(rpc.id, {rpc.parts[j]})
<1>1. rpc \in Sends /\ SendOK
    BY MediaFacts
<1>2. rpc = [pc |-> rpc.pc, parts |-> rpc.parts, k |-> rpc.k, id |-> rpc.id] /\ rpc.parts \in Seq(Contents) /\ rpc.k \in Nat
    BY <1>1 DEF Sends
<1>3. rpc.k \in 1..Len(rpc.parts) /\ Len(rpc.parts) \in Nat
    BY <1>1, <1>2 DEF SendOK
<1>4. rpc.parts[rpc.k] \in Contents
    BY <1>2, <1>3
<1>5. QED BY <1>1, <1>2, <1>3, <1>4 DEF SendOK, Part

\* A send that moves on to its part k, in scopes that grow.
LEMMA SendMoves ==
    ASSUME MediaInv, Grown, UNCHANGED sweep, rpc.pc # "idle", NEW CONSTANT pc \in {"resolve", "hash", "retain"}, NEW CONSTANT k \in Nat,
           rpc' = [rpc EXCEPT !.pc = pc, !.k = k], 1 <= k, k <= Len(rpc.parts),
           NEW CONSTANT s, s = rpc.id, NEW CONSTANT ps, ps = rpc.parts, \A j \in 1..(k - 1) : Names(s, {ps[j]}) \/ Names(s, {ps[j]})'
    PROVE  rpc' \in Sends /\ SendOK'
<1>1. rpc.parts \in Seq(Contents) /\ rpc.id \in 1..nScopes /\ Len(rpc.parts) \in Nat /\ rpc.id \notin sweep.old /\ (s \in DOMAIN scopes => scopes[s].fresh)
    BY SendFacts
<1>2. rpc'.parts = ps /\ rpc'.id = s /\ rpc'.k = k
    BY MediaFacts DEF Sends
<1>3. nScopes' \in Nat /\ nScopes' >= nScopes /\ nScopes \in Nat
    BY MediaFacts DEF Grown
<1>4. rpc' \in Sends
    BY MediaFacts DEF Sends
<1>5. \A j \in 1..(k - 1) : Names(s, {ps[j]})'
    BY HoldersStay
<1>6. s \in DOMAIN scopes' => scopes'[s].fresh
    BY <1>1 DEF Grown
<1>7. \A j \in 1..(rpc'.k - 1) : Names(rpc.id, {rpc.parts[j]})'
    BY <1>2, <1>5
<1>8. rpc'.id \in 1..nScopes' /\ rpc'.id \notin sweep'.old /\ rpc'.k \in 1..Len(rpc'.parts) /\ (rpc'.id \in DOMAIN scopes' => scopes'[rpc'.id].fresh)
    BY <1>1, <1>2, <1>3, <1>6
<1>9. QED BY <1>4, <1>7, <1>8 DEF SendOK

LEMMA SendLooks ==
    ASSUME MediaInv, SendResolve \/ SendHash
    PROVE  MediaInv'
<1>1. /\ rpc.pc # "idle" /\ UNCHANGED <<disk, scopes, nScopes, known, queue, transcript, inbound, sweep, attached>>
      /\ rpc' = NoSend \/ \E pc \in {"hash", "retain"} : rpc' = [rpc EXCEPT !.pc = pc]
    BY DEF SendResolve, SendHash
<1>2. Grown /\ Backed' /\ known' \in SUBSET Contents
    BY <1>1, NothingGrows, BackedStays, MediaFacts DEF MediaTyped
<1>3. ASSUME NEW CONSTANT pc \in {"hash", "retain"}, rpc' = [rpc EXCEPT !.pc = pc] PROVE rpc' \in Sends /\ SendOK'
  <2>1. PICK s, ps, k : s = rpc.id /\ ps = rpc.parts /\ k = rpc.k
    OBVIOUS
  <2>2. rpc' = [rpc EXCEPT !.pc = pc, !.k = k]
    BY <1>3, <2>1, MediaFacts DEF Sends
  <2>3. k \in Nat /\ 1 <= k /\ k <= Len(rpc.parts) /\ \A j \in 1..(k - 1) : Names(s, {ps[j]})
    BY <1>1, <2>1, SendFacts
  <2>4. QED BY <1>1, <1>2, <2>1, <2>2, <2>3, SendMoves
<1>4. rpc' \in Sends /\ SendOK'
    BY <1>1, <1>3, NoSendKeeps
<1>5. QED BY <1>1, <1>2, <1>4, GrownInv

LEMMA RetainKeeps ==
    ASSUME MediaInv, SendRetain
    PROVE  MediaInv'
<1>1. rpc.pc = "retain" /\ UNCHANGED <<nScopes, known, transcript, inbound, sweep, attached>>
    BY DEF SendRetain
<1>2. PICK s, ps, k, c, type : s = rpc.id /\ ps = rpc.parts /\ k = rpc.k /\ c = Part /\ type = disk.type[Part]
    OBVIOUS
<1>3. /\ rpc = [pc |-> "retain", parts |-> ps, k |-> k, id |-> s] /\ ps \in Seq(Contents) /\ s \in 1..nScopes /\ Len(ps) \in Nat
      /\ k \in Nat /\ 1 <= k /\ k <= Len(ps) /\ c \in Contents /\ c = ps[k] /\ s \notin sweep.old
      /\ \A j \in 1..(k - 1) : Names(s, {ps[j]})
    BY <1>1, <1>2, SendFacts DEF Part
<1>4. nScopes' \in 0..MaxScopes /\ nScopes' >= nScopes /\ s \in 1..nScopes' /\ known' \in SUBSET Contents
    BY <1>1, <1>3, MediaFacts DEF MediaTyped
<1>5. CASE Part \notin disk.objects /\ Refused /\ UNCHANGED <<disk, scopes, mfaults>>
  <2>1. Grown /\ Backed' /\ rpc' \in Sends /\ SendOK'
    BY <1>1, <1>5, NothingGrows, BackedStays, NoSendKeeps DEF Refused
  <2>2. QED BY <1>1, <1>4, <1>5, <2>1, GrownInv DEF Refused
<1>6. CASE Part \in disk.objects /\ StoreFails(Part, disk.type[Part], rpc.id) /\ Refused
  <2>1. StoreFails(c, type, s)
    BY <1>2, <1>6
  <2>2. Grown /\ Backed' /\ rpc' \in Sends /\ SendOK'
    BY <1>3, <1>4, <1>6, <2>1, StoreKeeps, NoSendKeeps DEF Refused
  <2>3. QED BY <1>1, <1>4, <1>6, <2>2, GrownInv DEF Refused
<1>7. ASSUME Retain PROVE Grown /\ Backed' /\ Names(s, {c})' /\ scopes'[s].fresh
  <2>1. Stored(c, type, s)
    BY <1>2, <1>7 DEF Retain
  <2>2. QED BY <1>3, <1>4, <2>1, StoreKeeps
<1>8. CASE Retain /\ rpc.k < Len(rpc.parts) /\ rpc' = [rpc EXCEPT !.pc = "resolve", !.k = @ + 1] /\ UNCHANGED queue
  <2>1. k < Len(ps) /\ k + 1 \in Nat
    BY <1>2, <1>3, <1>8
  <2>2. \A j \in 1..((k + 1) - 1) : Names(s, {ps[j]}) \/ Names(s, {ps[j]})'
    <3>1. ASSUME NEW CONSTANT j \in 1..((k + 1) - 1) PROVE Names(s, {ps[j]}) \/ Names(s, {ps[j]})'
      <4>1. CASE j = k
        BY <1>3, <1>7, <1>8, <4>1
      <4>2. CASE j # k
        <5>1. j \in 1..(k - 1)
          BY <1>3, <4>2
        <5>2. QED BY <1>3, <5>1
      <4>3. QED BY <4>1, <4>2
    <3>2. QED BY <3>1
  <2>3. rpc' \in Sends /\ SendOK'
    <3>1. PICK n : n = k + 1
      OBVIOUS
    <3>2. /\ n \in Nat /\ 1 <= n /\ n <= Len(ps) /\ rpc' = [rpc EXCEPT !.pc = "resolve", !.k = n]
          /\ \A j \in 1..(n - 1) : Names(s, {ps[j]}) \/ Names(s, {ps[j]})'
      BY <1>2, <1>3, <1>8, <2>1, <2>2, <3>1
    <3>3. QED BY <1>1, <1>2, <1>7, <1>8, <3>2, SendMoves
  <2>4. QED BY <1>1, <1>4, <1>7, <1>8, <2>3, GrownInv
<1>9. CASE Retain /\ Refused
  <2>1. rpc' \in Sends /\ SendOK'
    BY <1>9, NoSendKeeps DEF Refused
  <2>2. QED BY <1>1, <1>4, <1>7, <1>9, <2>1, GrownInv DEF Refused
<1>10. CASE Retain /\ ~(rpc.k < Len(rpc.parts)) /\ rpc' = NoSend /\ queue' = Append(queue, ToSet(rpc.parts))
  <2>1. rpc' \in Sends /\ SendOK'
    BY <1>10, NoSendKeeps
  <2>2. k = Len(ps)
    BY <1>2, <1>3, <1>10
  <2>3. PICK m : m = ToSet(ps)
    OBVIOUS
  <2>4. m \in SUBSET Contents /\ queue' = Append(queue, m) /\ \A c1 \in m : \E j \in 1..k : c1 = ps[j]
    BY <1>2, <1>3, <1>10, <2>2, <2>3 DEF ToSet
  <2>5. \A j \in 1..k : Names(s, {ps[j]})'
    <3>1. ASSUME NEW CONSTANT j \in 1..k PROVE Names(s, {ps[j]})'
      <4>1. CASE j = k
        BY <1>3, <1>7, <1>10, <4>1
      <4>2. CASE j # k
        <5>1. j \in 1..(k - 1)
          BY <1>3, <4>2
        <5>2. Names(s, {ps[j]})
          BY <1>3, <5>1
        <5>3. QED BY <1>1, <1>7, <1>10, <5>2, HoldersStay
      <4>3. QED BY <4>1, <4>2
    <3>2. QED BY <3>1
  <2>6. Names(s, m)' /\ Young(s)' /\ s \in DOMAIN scopes'
    <3>1. s \in DOMAIN scopes' /\ scopes'[s].fresh /\ sweep' = sweep
      BY <1>1, <1>7, <1>10 DEF Names
    <3>2. \A j \in 1..k : ps[j] \in scopes'[s].refs
      BY <2>5 DEF Names
    <3>3. m \subseteq scopes'[s].refs
      BY <2>4, <3>2
    <3>4. QED BY <1>3, <3>1, <3>3 DEF Names, Young
  <2>7. queue' \in Seq(SUBSET Contents) /\ QueueHeld'
    BY <1>1, <1>7, <1>10, <2>4, <2>6, QueueMore
  <2>8. QED BY <1>1, <1>4, <1>7, <1>10, <2>1, <2>7, GrownInv
<1>11. QED BY <1>5, <1>6, <1>8, <1>9, <1>10 DEF SendRetain

LEMMA SendKeeps ==
    ASSUME MediaInv, NEW CONSTANT ps \in Seq(Contents), Len(ps) >= 1, Send(ps)
    PROVE  MediaInv'
<1>1. /\ UNCHANGED <<disk, scopes, known, queue, transcript, inbound, sweep, attached>> /\ nScopes' = nScopes + 1 /\ nScopes' \in Web
      /\ rpc' = [pc |-> "resolve", parts |-> ps, k |-> 1, id |-> nScopes']
    BY DEF Send, NextScope
<1>2. /\ nScopes \in Nat /\ nScopes' \in 0..MaxScopes /\ nScopes' >= nScopes /\ 1..nScopes \subseteq 1..nScopes' /\ nScopes' \in 1..nScopes'
      /\ nScopes' \notin 1..nScopes /\ nScopes' # Telegram /\ nScopes' # Tool /\ nScopes' \in Nat
    BY <1>1, MediaFacts DEF Web, Telegram, Tool
<1>3. Grown
    BY <1>1, <1>2, MediaFacts DEF Grown
<1>4. Backed' /\ known' \in SUBSET Contents
    BY <1>1, BackedStays, MediaFacts DEF MediaTyped
<1>5. PICK n : n = nScopes'
    OBVIOUS
<1>6. n \notin DOMAIN scopes' /\ n \notin sweep'.old /\ n \in 1..nScopes' /\ n \in Nat
    BY <1>1, <1>2, <1>5, MediaFacts DEF SweepOK
<1>7. rpc' = [pc |-> "resolve", parts |-> ps, k |-> 1, id |-> n] /\ Len(ps) \in Nat
    BY <1>1, <1>5
<1>8. rpc' \in Sends
    BY <1>6, <1>7 DEF Sends
<1>9. rpc'.id = n /\ rpc'.k = 1 /\ rpc'.parts = ps /\ 1 \in 1..Len(ps) /\ 1..(1 - 1) = {}
    BY <1>7
<1>10. SendOK'
    BY <1>6, <1>9 DEF SendOK
<1>11. QED BY <1>1, <1>3, <1>4, <1>8, <1>10, GrownInv

-----------------------------------------------------------------------------
(* Runs, the Telegram handler, attach_media and crashes. *)

\* The oldest message goes from the queue to the transcript with its holder, which the sweep does not look at.
LEMMA RunKeeps ==
    ASSUME MediaInv, RunMessage
    PROVE  MediaInv'
<1>1. PICK m : m = Head(queue)
    OBVIOUS
<1>2. /\ queue # <<>> /\ queue' = Tail(queue) /\ transcript' \in {transcript, Append(transcript, m)}
      /\ UNCHANGED <<disk, scopes, nScopes, rpc, known, inbound, sweep, attached>>
    BY <1>1 DEF RunMessage
<1>3. /\ queue \in Seq(SUBSET Contents) /\ transcript \in Seq(SUBSET Contents) /\ Len(queue) \in Nat /\ Len(queue) >= 1 /\ m = queue[1] /\ m \in SUBSET Contents
      /\ queue' \in Seq(SUBSET Contents) /\ DOMAIN queue' = 1..(Len(queue) - 1) /\ \A x \in 1..(Len(queue) - 1) : queue'[x] = queue[x + 1]
    BY <1>1, <1>2, MediaFacts, TailIs
<1>4. /\ Len(transcript) \in Nat /\ transcript' \in Seq(SUBSET Contents) /\ DOMAIN transcript' = 1..Len(transcript')
      /\ Len(transcript') \in Nat /\ Len(transcript') >= Len(transcript)
      /\ \A k \in 1..Len(transcript) : transcript'[k] = transcript[k]
      /\ \A k \in 1..Len(transcript') : k \in 1..Len(transcript) \/ transcript'[k] = m
  <2>1. transcript \in Seq(SUBSET Contents) /\ m \in SUBSET Contents
    BY <1>3
  <2>2. CASE transcript' = transcript
    BY <2>1, <2>2
  <2>3. CASE transcript' = Append(transcript, m)
    BY <2>1, <2>3, AppendIs
  <2>4. QED BY <1>2, <2>2, <2>3
<1>5. Grown /\ Backed'
    BY <1>2, NothingGrows, BackedStays
<1>6. \A x \in 1..Len(queue) : queue[x] = {} \/ \E s \in DOMAIN scopes : Names(s, queue[x]) /\ Young(s)
    BY MediaFacts DEF QueueHeld
<1>7. QueueHeld'
  <2>1. ASSUME NEW CONSTANT x \in DOMAIN queue', NEW CONSTANT q, q = queue'[x], q # {}
        PROVE  \E s \in DOMAIN scopes' : Names(s, q)' /\ Young(s)'
    <3>1. x + 1 \in 1..Len(queue) /\ q = queue[x + 1]
      BY <1>3, <2>1
    <3>2. PICK s \in DOMAIN scopes : Names(s, q) /\ Young(s)
      BY <1>6, <2>1, <3>1
    <3>3. QED BY <1>2, <1>5, <3>2, HoldersStay
  <2>2. QED BY <2>1 DEF QueueHeld
<1>8. TranscriptHeld'
  <2>1. ASSUME NEW CONSTANT k \in DOMAIN transcript', NEW CONSTANT q, q = transcript'[k], q # {}
        PROVE  \E s \in DOMAIN scopes' : Names(s, q)' /\ Spared(s, q)'
    <3>1. \E s \in DOMAIN scopes : Names(s, q) /\ Spared(s, q)
      <4>1. CASE k \in 1..Len(transcript)
        BY <1>4, <2>1, <4>1, MediaFacts DEF TranscriptHeld
      <4>2. CASE q = m
        <5>1. PICK s \in DOMAIN scopes : Names(s, m) /\ Young(s)
          BY <1>3, <1>6, <2>1, <4>2
        <5>2. s \notin sweep.old
          BY <5>1, MediaFacts DEF Young, SweepOK, Telegram, Tool
        <5>3. Spared(s, m)
          BY <5>2, MediaFacts DEF Spared, SweepOK
        <5>4. QED BY <4>2, <5>1, <5>3
      <4>3. QED BY <1>4, <2>1, <4>1, <4>2
    <3>2. PICK s \in DOMAIN scopes : Names(s, q) /\ Spared(s, q)
      BY <3>1
    <3>3. QED BY <1>2, <1>5, <3>2, HoldersStay
  <2>2. QED BY <2>1 DEF TranscriptHeld
<1>9. SweepOK'
  <2>1. SweepOK /\ sweep \in Sweeps
    BY MediaFacts
  <2>2. ASSUME sweep.pc = "turns"
        PROVE  /\ sweep.cursor <= Len(transcript') /\ (Len(transcript') # 0 => sweep.cursor < Len(transcript'))
               /\ \A k \in 1..sweep.cursor : transcript'[k] \subseteq sweep.keep
    <3>1. /\ sweep.cursor \in Nat /\ sweep.cursor <= Len(transcript) /\ (Len(transcript) # 0 => sweep.cursor < Len(transcript))
          /\ \A k \in 1..sweep.cursor : transcript[k] \subseteq sweep.keep
      BY <2>1, <2>2 DEF SweepOK, Sweeps
    <3>2. \A k \in 1..sweep.cursor : k \in 1..Len(transcript)
      BY <1>4, <3>1
    <3>3. QED BY <1>4, <3>1, <3>2
  <2>3. QED BY <1>2, <2>1, <2>2 DEF SweepOK
<1>10. AttachedHeld'
  <2>1. \A c : (\E k \in DOMAIN transcript : c \in transcript[k]) => \E k \in DOMAIN transcript' : c \in transcript'[k]
    <3>1. ASSUME NEW CONSTANT c, NEW CONSTANT k \in DOMAIN transcript, c \in transcript[k] PROVE k \in DOMAIN transcript' /\ c \in transcript'[k]
      BY <1>4, <3>1, MediaFacts
    <3>2. QED BY <3>1
  <2>2. \A c : Names(Tool, {c}) => Names(Tool, {c})'
    BY <1>2 DEF Names
  <2>3. QED BY <1>2, <2>1, <2>2, MediaFacts DEF AttachedHeld
<1>11. MediaTyped' /\ SendOK'
  <2>1. rpc \in Sends /\ known \in SUBSET Contents /\ sweep \in Sweeps /\ attached \in SUBSET Contents
    BY MediaFacts DEF MediaTyped
  <2>2. MediaTyped'
    BY <1>2, <1>3, <1>4, <1>5, <2>1, TypedKeeps
  <2>3. QED BY <1>2, <1>5, <2>2, GrownKeeps
<1>12. QED BY <1>5, <1>7, <1>8, <1>9, <1>10, <1>11 DEF MediaInv

LEMMA PollingKeeps ==
    ASSUME MediaInv, Update \/ PollingEnds \/ superviseLongPolling \/ handleMessage
    PROVE  MediaInv'
<1>1. UNCHANGED <<disk, scopes, nScopes, rpc, known, queue, transcript, sweep, attached>>
    BY DEF Update, PollingEnds, superviseLongPolling, handleMessage
<1>2. InboundTyped
    BY MediaFacts DEF InboundTyped, MediaTyped
<1>3. \/ inbound' = inbound \/ \E p : inbound' = [inbound EXCEPT !.poll = p]
      \/ \E c \in Contents : inbound' = [inbound EXCEPT !.msg = [pc |-> "download", content |-> c]]
    BY DEF Update, PollingEnds, superviseLongPolling, handleMessage, sleepContext
<1>4. ASSUME NEW CONSTANT p, inbound' = [inbound EXCEPT !.poll = p] PROVE InboundTyped'
    BY <1>2, <1>4 DEF InboundTyped
<1>5. ASSUME NEW CONSTANT c \in Contents, inbound' = [inbound EXCEPT !.msg = [pc |-> "download", content |-> c]] PROVE InboundTyped'
    BY <1>2, <1>5 DEF InboundTyped
<1>6. UNCHANGED inbound \/ InboundTyped'
    BY <1>3, <1>4, <1>5
<1>7. Grown /\ Backed' /\ known' \in SUBSET Contents
    BY <1>1, NothingGrows, BackedStays, MediaFacts DEF MediaTyped
<1>8. QED BY <1>1, <1>6, <1>7, GrownInv

LEMMA DownloadKeeps ==
    ASSUME MediaInv, downloadTelegramFile
    PROVE  MediaInv'
<1>1. inbound.msg.pc = "download" /\ UNCHANGED <<disk, scopes, nScopes, rpc, known, transcript, sweep, attached>>
    BY DEF downloadTelegramFile
<1>2. InboundTyped /\ inbound.msg.content \in Contents
    BY <1>1, MediaFacts DEF InboundTyped, MediaTyped
<1>3. Grown /\ Backed' /\ known' \in SUBSET Contents
    BY <1>1, NothingGrows, BackedStays, MediaFacts DEF MediaTyped
<1>4. CASE inbound' = [inbound EXCEPT !.msg.pc = "store"] /\ UNCHANGED queue
  <2>1. InboundTyped'
    BY <1>2, <1>4 DEF InboundTyped
  <2>2. QED BY <1>1, <1>3, <1>4, <2>1, GrownInv
<1>5. CASE HandOn({})
  <2>1. InboundTyped'
    BY <1>2, <1>5 DEF HandOn, InboundTyped, NoMessage
  <2>2. queue' \in Seq(SUBSET Contents) /\ QueueHeld'
    <3>1. PICK m \in SUBSET Contents : m = {}
      OBVIOUS
    <3>2. queue' = Append(queue, m)
      BY <1>5, <3>1 DEF HandOn
    <3>3. QED BY <1>1, <1>3, <3>1, <3>2, QueueMore
  <2>3. QED BY <1>1, <1>3, <2>1, <2>2, GrownInv
<1>6. QED BY <1>4, <1>5 DEF downloadTelegramFile

LEMMA AttachRefKeeps ==
    ASSUME MediaInv, NEW CONSTANT c \in Contents, AttachRef(c)
    PROVE  MediaInv'
<1>1. /\ \E k \in DOMAIN transcript : c \in transcript[k] /\ attached' = attached \cup {c}
      /\ UNCHANGED <<disk, scopes, nScopes, rpc, known, queue, transcript, inbound, sweep>>
    BY DEF AttachRef
<1>2. Grown /\ Backed' /\ known' \in SUBSET Contents /\ attached' \in SUBSET Contents
    BY <1>1, NothingGrows, BackedStays, MediaFacts DEF MediaTyped
<1>3. AttachedHeld'
  <2>1. \A d : Names(Tool, {d}) => Names(Tool, {d})'
    BY <1>1 DEF Names
  <2>2. QED BY <1>1, <2>1, MediaFacts DEF AttachedHeld
<1>4. QED BY <1>1, <1>2, <1>3, GrownInv

\* A sweep that is over, or not begun, spares every scope.
LEMMA NoSweepKeeps ==
    ASSUME MediaInv, Grown, Backed', sweep' = NoSweep, UNCHANGED <<transcript, known, attached>>,
           UNCHANGED rpc \/ rpc' = NoSend, UNCHANGED queue \/ queue' = <<>>, UNCHANGED inbound \/ InboundTyped'
    PROVE  MediaInv'
<1>1. /\ sweep'.old = {} /\ sweep'.todo = {} /\ sweep'.pc = "idle" /\ sweep' \in Sweeps
    BY DEF NoSweep, Sweeps
<1>2. /\ \A t \in DOMAIN scopes : t \in DOMAIN scopes' /\ scopes[t].refs \subseteq scopes'[t].refs /\ (scopes[t].fresh => scopes'[t].fresh)
      /\ \A t \in DOMAIN scopes' : t \in DOMAIN scopes \/ scopes'[t].fresh
      /\ nScopes' \in Nat /\ nScopes' >= nScopes /\ nScopes \in Nat
    BY MediaFacts DEF Grown
<1>3. ASSUME NEW CONSTANT t, NEW CONSTANT m, Names(t, m)
      PROVE  t \in DOMAIN scopes' /\ Names(t, m)' /\ (Young(t) => Young(t)') /\ Spared(t, m)'
    BY <1>1, <1>2, <1>3 DEF Names, Young, Spared
<1>4. QueueHeld' /\ queue' \in Seq(SUBSET Contents)
  <2>1. CASE queue' = <<>>
    BY <2>1 DEF QueueHeld
  <2>2. CASE queue' = queue
    <3>1. ASSUME NEW CONSTANT x \in DOMAIN queue, NEW CONSTANT q, q = queue[x], q # {}
          PROVE  \E s \in DOMAIN scopes' : Names(s, q)' /\ Young(s)'
      <4>1. PICK s \in DOMAIN scopes : Names(s, q) /\ Young(s)
        BY <3>1, MediaFacts DEF QueueHeld
      <4>2. QED BY <1>3, <4>1
    <3>2. QED BY <2>2, <3>1, MediaFacts DEF QueueHeld
  <2>3. QED BY <2>1, <2>2
<1>5. TranscriptHeld'
  <2>1. ASSUME NEW CONSTANT k \in DOMAIN transcript, NEW CONSTANT q, q = transcript[k], q # {}
        PROVE  \E s \in DOMAIN scopes' : Names(s, q)' /\ Spared(s, q)'
    <3>1. PICK s \in DOMAIN scopes : Names(s, q)
      BY <2>1, MediaFacts DEF TranscriptHeld
    <3>2. QED BY <1>3, <3>1
  <2>2. QED BY <2>1 DEF TranscriptHeld
<1>6. AttachedHeld'
    BY <1>3, MediaFacts DEF AttachedHeld
<1>7. SweepOK'
    BY <1>1 DEF SweepOK
<1>8. rpc' \in Sends /\ SendOK'
  <2>1. CASE rpc' = NoSend
    BY <2>1, NoSendKeeps
  <2>2. CASE rpc' = rpc
    <3>1. SUFFICES ASSUME rpc.pc # "idle" PROVE SendOK'
      BY <2>2, MediaFacts DEF SendOK
    <3>2. \A j \in 1..(rpc.k - 1) : Names(rpc.id, {rpc.parts[j]})'
      <4>1. PICK s, ps, k : s = rpc.id /\ ps = rpc.parts /\ k = rpc.k
        OBVIOUS
      <4>2. \A j \in 1..(k - 1) : Names(s, {ps[j]})
        BY <3>1, <4>1, SendFacts
      <4>3. \A j \in 1..(k - 1) : Names(s, {ps[j]})'
        BY <1>3, <4>2
      <4>4. QED BY <2>2, <4>1, <4>3
    <3>3. rpc.id \in 1..nScopes' /\ rpc.k \in 1..Len(rpc.parts) /\ (rpc.id \in DOMAIN scopes' => scopes'[rpc.id].fresh)
      BY <1>2, <3>1, SendFacts
    <3>4. QED BY <1>1, <2>2, <3>2, <3>3, MediaFacts DEF SendOK
  <2>3. QED BY <2>1, <2>2
<1>9. MediaTyped'
    BY <1>1, <1>4, <1>8, TypedKeeps, MediaFacts DEF MediaTyped
<1>10. QED BY <1>4, <1>5, <1>6, <1>7, <1>8, <1>9 DEF MediaInv

LEMMA MediaCrashKeeps ==
    ASSUME MediaInv, MediaCrash
    PROVE  MediaInv'
<1>1. /\ rpc' = NoSend /\ queue' = <<>> /\ sweep' = NoSweep /\ UNCHANGED <<disk, scopes, nScopes, known, transcript, attached>>
      /\ inbound' = [poll |-> "start", msg |-> NoMessage]
    BY DEF MediaCrash
<1>2. InboundTyped'
    BY <1>1 DEF InboundTyped, NoMessage
<1>3. QED BY <1>1, <1>2, NothingGrows, BackedStays, NoSweepKeeps

-----------------------------------------------------------------------------
(* The sweep. *)

LEMMA SweepMoves ==
    ASSUME MediaInv, UNCHANGED <<disk, scopes, nScopes, rpc, known, queue, transcript, inbound, attached>>, sweep' \in Sweeps, SweepOK',
           \A t \in sweep'.old : t \in sweep.old \/ (t \in DOMAIN scopes /\ ~scopes[t].fresh /\ t \notin {Telegram, Tool}), TranscriptHeld'
    PROVE  MediaInv'
<1>1. ASSUME NEW CONSTANT t \in DOMAIN scopes, Young(t) PROVE Young(t)'
    BY <1>1 DEF Young
<1>2. QueueHeld'
  <2>1. ASSUME NEW CONSTANT x \in DOMAIN queue, NEW CONSTANT q, q = queue[x], q # {}
        PROVE  \E s \in DOMAIN scopes' : Names(s, q)' /\ Young(s)'
    <3>1. PICK s \in DOMAIN scopes : Names(s, q) /\ Young(s)
      BY <2>1, MediaFacts DEF QueueHeld
    <3>2. Names(s, q)'
      BY <3>1 DEF Names
    <3>3. QED BY <1>1, <3>1, <3>2
  <2>2. QED BY <2>1 DEF QueueHeld
<1>3. SendOK'
  <2>1. SUFFICES ASSUME rpc.pc # "idle" PROVE SendOK'
    BY DEF SendOK
  <2>2. rpc.id \notin sweep'.old
    BY <2>1, SendFacts
  <2>3. \A t, m : Names(t, m) => Names(t, m)'
    BY DEF Names
  <2>4. PICK s, ps, k : s = rpc.id /\ ps = rpc.parts /\ k = rpc.k
    OBVIOUS
  <2>5. \A j \in 1..(k - 1) : Names(s, {ps[j]})'
    BY <2>1, <2>3, <2>4, SendFacts
  <2>6. \A j \in 1..(rpc.k - 1) : Names(rpc.id, {rpc.parts[j]})'
    BY <2>4, <2>5
  <2>7. QED BY <2>1, <2>2, <2>6, MediaFacts DEF SendOK
<1>4. AttachedHeld'
  <2>1. \A d : Names(Tool, {d}) => Names(Tool, {d})'
    BY DEF Names
  <2>2. QED BY <2>1, MediaFacts DEF AttachedHeld
<1>5. MediaTyped' /\ Backed'
    BY BackedStays, MediaFacts DEF MediaTyped
<1>6. QED BY <1>2, <1>3, <1>4, <1>5 DEF MediaInv

LEMMA SweepBegins ==
    ASSUME MediaInv, SweepMedia
    PROVE  MediaInv'
<1>1. UNCHANGED <<disk, scopes, nScopes, rpc, known, queue, transcript, inbound, attached>>
    BY DEF SweepMedia
<1>2. PICK o : o = {s \in DOMAIN scopes \cap Web : ~scopes[s].fresh}
    OBVIOUS
<1>3. sweep' = [pc |-> "turns", old |-> o, cursor |-> 0, keep |-> {}, todo |-> {}]
    BY <1>2 DEF SweepMedia, NoSweep
<1>4. /\ o \subseteq Web /\ o \subseteq 1..nScopes /\ \A t \in o : t \in DOMAIN scopes /\ ~scopes[t].fresh /\ t \notin {Telegram, Tool}
      /\ Len(transcript) \in Nat
    BY <1>2, MediaFacts DEF Web, Telegram, Tool
<1>5. /\ sweep'.pc = "turns" /\ sweep'.old = o /\ sweep'.cursor = 0 /\ sweep'.keep = {} /\ sweep'.todo = {} /\ sweep' \in Sweeps
    BY <1>3, <1>4 DEF Sweeps
<1>6. SweepOK'
    BY <1>1, <1>4, <1>5 DEF SweepOK
<1>7. TranscriptHeld'
  <2>1. ASSUME NEW CONSTANT k \in DOMAIN transcript, NEW CONSTANT q, q = transcript[k], q # {}
        PROVE  \E s \in DOMAIN scopes' : Names(s, q)' /\ Spared(s, q)'
    <3>1. PICK s \in DOMAIN scopes : Names(s, q)
      BY <2>1, MediaFacts DEF TranscriptHeld
    <3>2. QED BY <1>1, <1>5, <3>1 DEF Names, Spared
  <2>2. QED BY <1>1, <2>1 DEF TranscriptHeld
<1>8. QED BY <1>1, <1>4, <1>5, <1>6, <1>7, SweepMoves

\* Once the last page is read, every turn is kept.
LEMMA PageKeeps ==
    ASSUME MediaInv, SweepPage
    PROVE  MediaInv'
<1>1. sweep.pc = "turns" /\ UNCHANGED <<disk, scopes, nScopes, rpc, known, queue, transcript, inbound, attached>>
    BY DEF SweepPage
<1>2. /\ sweep \in Sweeps /\ sweep.cursor \in Nat /\ sweep.old \subseteq 1..nScopes /\ sweep.todo = {} /\ transcript \in Seq(SUBSET Contents)
      /\ sweep.cursor <= Len(transcript) /\ (Len(transcript) # 0 => sweep.cursor < Len(transcript)) /\ Len(transcript) \in Nat
      /\ \A k \in 1..sweep.cursor : transcript[k] \subseteq sweep.keep
    BY <1>1, MediaFacts DEF SweepOK, Sweeps
<1>3. /\ sweep' \in Sweeps /\ sweep'.old = sweep.old /\ sweep'.todo = {} /\ sweep'.cursor \in Nat /\ sweep'.pc \in {"turns", "scopes"}
      /\ sweep'.cursor <= Len(transcript) /\ \A k \in 1..sweep'.cursor : transcript[k] \subseteq sweep'.keep
      /\ sweep'.pc = "turns" => sweep'.cursor < Len(transcript)
      /\ sweep'.pc = "scopes" => sweep'.cursor = Len(transcript)
  <2>1. CASE transcript = <<>>
    <3>1. sweep' = [sweep EXCEPT !.pc = "scopes"] /\ Len(transcript) = 0
      BY <2>1 DEF SweepPage
    <3>2. sweep' \in Sweeps /\ sweep'.old = sweep.old /\ sweep'.todo = {} /\ sweep'.cursor = sweep.cursor /\ sweep'.pc = "scopes" /\ sweep'.keep = sweep.keep
      BY <1>2, <3>1 DEF Sweeps
    <3>3. QED BY <1>2, <3>1, <3>2
  <2>2. CASE transcript # <<>>
    <3>1. PICK n : n = sweep.cursor + 1
      OBVIOUS
    <3>2. PICK p : p = IF n < Len(transcript) THEN "turns" ELSE "scopes"
      OBVIOUS
    <3>3. sweep' = [sweep EXCEPT !.cursor = @ + 1, !.keep = @ \cup transcript[n], !.pc = p]
      BY <2>2, <3>1, <3>2 DEF SweepPage
    <3>4. Len(transcript) # 0 /\ n \in 1..Len(transcript) /\ n \in Nat /\ transcript[n] \subseteq Contents
      BY <1>2, <2>2, <3>1
    <3>5. /\ sweep'.old = sweep.old /\ sweep'.todo = {} /\ sweep'.cursor = n /\ sweep'.pc = p /\ sweep'.keep = sweep.keep \cup transcript[n]
          /\ sweep' \in Sweeps
      BY <1>2, <3>1, <3>2, <3>3, <3>4 DEF Sweeps
    <3>6. \A k \in 1..n : transcript[k] \subseteq sweep'.keep
      <4>1. \A k \in 1..n : k \in 1..sweep.cursor \/ k = n
        BY <1>2, <3>1
      <4>2. QED BY <1>2, <3>5, <4>1
    <3>7. /\ n <= Len(transcript) /\ p \in {"turns", "scopes"} /\ (p = "turns" => n < Len(transcript)) /\ (p = "scopes" => n = Len(transcript))
      BY <1>2, <3>2, <3>4
    <3>8. QED BY <3>4, <3>5, <3>6, <3>7
  <2>3. QED BY <2>1, <2>2
<1>4. SweepOK'
    BY <1>1, <1>2, <1>3 DEF SweepOK
<1>5. TranscriptHeld'
  <2>1. ASSUME NEW CONSTANT k \in DOMAIN transcript, NEW CONSTANT q, q = transcript[k], q # {}
        PROVE  \E s \in DOMAIN scopes' : Names(s, q)' /\ Spared(s, q)'
    <3>1. PICK s \in DOMAIN scopes : Names(s, q)
      BY <2>1, MediaFacts DEF TranscriptHeld
    <3>2. sweep'.pc = "turns" \/ q \subseteq sweep'.keep
      BY <1>2, <1>3, <2>1, MediaFacts
    <3>3. QED BY <1>1, <1>3, <3>1, <3>2 DEF Names, Spared
  <2>2. QED BY <1>1, <2>1 DEF TranscriptHeld
<1>6. QED BY <1>1, <1>3, <1>4, <1>5, SweepMoves

LEMMA ScopesKeep ==
    ASSUME MediaInv, SweepScopes
    PROVE  MediaInv'
<1>1. sweep.pc = "scopes" /\ UNCHANGED <<disk, scopes, nScopes, rpc, known, queue, transcript, inbound, attached>>
    BY DEF SweepScopes
<1>2. PICK e : e = expiredWebScopes
    OBVIOUS
<1>3. sweep' = [sweep EXCEPT !.pc = "release", !.todo = e] /\ sweep \in Sweeps /\ sweep.old \subseteq 1..nScopes /\ sweep.old \subseteq Web
    BY <1>2, MediaFacts DEF SweepScopes, SweepOK
<1>4. e \subseteq sweep.old \cap DOMAIN scopes /\ \A s \in e : scopes[s].refs \cap sweep.keep = {}
    BY <1>2 DEF expiredWebScopes
<1>5. sweep' \in Sweeps /\ sweep'.pc = "release" /\ sweep'.old = sweep.old /\ sweep'.todo = e /\ sweep'.keep = sweep.keep
    BY <1>3, <1>4 DEF Sweeps
<1>6. SweepOK'
    BY <1>1, <1>3, <1>4, <1>5 DEF SweepOK
<1>7. TranscriptHeld'
  <2>1. ASSUME NEW CONSTANT k \in DOMAIN transcript, NEW CONSTANT q, q = transcript[k], q # {}
        PROVE  \E s \in DOMAIN scopes' : Names(s, q)' /\ Spared(s, q)'
    <3>1. PICK s \in DOMAIN scopes : Names(s, q) /\ Spared(s, q)
      BY <2>1, MediaFacts DEF TranscriptHeld
    <3>2. s \notin sweep.old \/ q \subseteq sweep.keep
      BY <1>1, <3>1 DEF Spared
    <3>3. s \notin e
      BY <1>4, <2>1, <3>1, <3>2 DEF Names
    <3>4. QED BY <1>1, <1>5, <3>1, <3>2, <3>3 DEF Names, Spared
  <2>2. QED BY <1>1, <2>1 DEF TranscriptHeld
<1>8. QED BY <1>1, <1>5, <1>6, <1>7, SweepMoves

\* What a release removes, no other scope names; the scope it releases holds no turn and no message.
LEMMA ReleaseKeeps ==
    ASSUME MediaInv, NEW CONSTANT s \in sweep.todo, sweep.pc = "release", ReleaseAll(s),
           UNCHANGED <<nScopes, rpc, known, queue, transcript, inbound, attached>>
    PROVE  MediaInv'
<1>1. PICK gone : gone = scopes[s].refs \ loadRemainingRefs(s)
    OBVIOUS
<1>2. scopes' = Others(s) /\ DOMAIN scopes' = DOMAIN scopes \ {s} /\ \A t \in DOMAIN scopes \ {s} : scopes'[t] = scopes[t]
    BY DEF ReleaseAll, Others
<1>3. /\ disk.objects \ gone \subseteq disk'.objects /\ disk.refs \ gone \subseteq disk'.refs
      /\ disk' = [objects |-> disk'.objects, refs |-> disk'.refs, type |-> disk'.type]
      /\ sweep' = NoSweep \/ sweep' = [sweep EXCEPT !.todo = @ \ {s}]
  <2>1. disk = [objects |-> disk.objects, refs |-> disk.refs, type |-> disk.type]
    BY MediaFacts DEF Backed
  <2>2. sweep' = NoSweep \/ sweep' = [sweep EXCEPT !.todo = @ \ {s}]
    BY DEF ReleaseAll
  <2>3. \/ disk' = disk \/ disk' = [disk EXCEPT !.objects = @ \ gone, !.refs = @ \ gone]
        \/ \E c \in gone : disk' = [disk EXCEPT !.objects = @ \ {c}]
    BY <1>1 DEF ReleaseAll
  <2>4. CASE disk' = [disk EXCEPT !.objects = @ \ gone, !.refs = @ \ gone]
    BY <2>1, <2>2, <2>4
  <2>5. ASSUME NEW CONSTANT c \in gone, disk' = [disk EXCEPT !.objects = @ \ {c}]
        PROVE  /\ disk.objects \ gone \subseteq disk'.objects /\ disk.refs \ gone \subseteq disk'.refs
               /\ disk' = [objects |-> disk'.objects, refs |-> disk'.refs, type |-> disk'.type]
    BY <2>1, <2>5
  <2>6. QED BY <2>1, <2>2, <2>3, <2>4, <2>5
<1>4. /\ sweep \in Sweeps /\ sweep.old \subseteq 1..nScopes /\ sweep.todo \subseteq sweep.old \cap DOMAIN scopes /\ s \in 1..nScopes
      /\ s # Telegram /\ s # Tool /\ s \in sweep.old
    BY MediaFacts DEF SweepOK, Telegram, Tool
<1>5. /\ sweep' \in Sweeps /\ sweep'.old \subseteq sweep.old /\ sweep'.todo \subseteq sweep'.old \cap (sweep.todo \ {s})
      /\ sweep'.old # {} => sweep'.keep = sweep.keep /\ sweep'.pc = "release"
      /\ sweep'.pc # "turns" /\ (sweep'.pc # "release" => sweep'.todo = {})
  <2>1. CASE sweep' = NoSweep
    BY <2>1 DEF NoSweep, Sweeps
  <2>2. CASE sweep' = [sweep EXCEPT !.todo = @ \ {s}]
    BY <1>4, <2>2 DEF Sweeps
  <2>3. QED BY <1>3, <2>1, <2>2
<1>6. ASSUME NEW CONSTANT t \in DOMAIN scopes, NEW CONSTANT m, Names(t, m), t # s
      PROVE  t \in DOMAIN scopes' /\ Names(t, m)' /\ (Young(t) => Young(t)') /\ (Spared(t, m) => Spared(t, m)')
    BY <1>2, <1>5, <1>6 DEF Names, Young, Spared
<1>7. QueueHeld'
  <2>1. ASSUME NEW CONSTANT x \in DOMAIN queue, NEW CONSTANT q, q = queue[x], q # {}
        PROVE  \E t \in DOMAIN scopes' : Names(t, q)' /\ Young(t)'
    <3>1. PICK t \in DOMAIN scopes : Names(t, q) /\ Young(t)
      BY <2>1, MediaFacts DEF QueueHeld
    <3>2. t # s
      BY <1>4, <3>1 DEF Young
    <3>3. QED BY <1>6, <3>1, <3>2
  <2>2. QED BY <2>1 DEF QueueHeld
<1>8. TranscriptHeld'
  <2>1. ASSUME NEW CONSTANT k \in DOMAIN transcript, NEW CONSTANT q, q = transcript[k], q # {}
        PROVE  \E t \in DOMAIN scopes' : Names(t, q)' /\ Spared(t, q)'
    <3>1. PICK t \in DOMAIN scopes : Names(t, q) /\ Spared(t, q)
      BY <2>1, MediaFacts DEF TranscriptHeld
    <3>2. t # s
      BY <3>1 DEF Spared
    <3>3. QED BY <1>6, <3>1, <3>2
  <2>2. QED BY <2>1 DEF TranscriptHeld
<1>9. AttachedHeld'
  <2>1. ASSUME NEW CONSTANT d, Names(Tool, {d}) PROVE Names(Tool, {d})'
    <3>1. Tool \in DOMAIN scopes /\ Tool # s
      BY <1>4, <2>1 DEF Names
    <3>2. QED BY <1>6, <2>1, <3>1
  <2>2. QED BY <2>1, MediaFacts DEF AttachedHeld
<1>10. SendOK'
  <2>1. SUFFICES ASSUME rpc.pc # "idle" PROVE SendOK'
    BY DEF SendOK
  <2>2. PICK t, ps, k : t = rpc.id /\ ps = rpc.parts /\ k = rpc.k
    OBVIOUS
  <2>3. t \notin sweep.old /\ t # s /\ \A j \in 1..(k - 1) : Names(t, {ps[j]})
    BY <1>4, <2>1, <2>2, SendFacts
  <2>4. \A j \in 1..(k - 1) : Names(t, {ps[j]})'
    <3>1. ASSUME NEW CONSTANT j \in 1..(k - 1) PROVE Names(t, {ps[j]})'
      <4>1. t \in DOMAIN scopes /\ Names(t, {ps[j]})
        BY <2>3 DEF Names
      <4>2. QED BY <1>6, <2>3, <4>1
    <3>2. QED BY <3>1
  <2>5. \A j \in 1..(rpc.k - 1) : Names(rpc.id, {rpc.parts[j]})'
    BY <2>2, <2>4
  <2>6. rpc.id \notin sweep'.old /\ (rpc.id \in DOMAIN scopes' => scopes'[rpc.id].fresh)
    BY <1>2, <1>5, <2>1, <2>2, <2>3, SendFacts
  <2>7. QED BY <2>1, <2>5, <2>6, MediaFacts DEF SendOK
<1>11. SweepOK'
  <2>1. sweep'.todo \subseteq sweep'.old \cap DOMAIN scopes'
    BY <1>2, <1>4, <1>5
  <2>2. QED BY <1>4, <1>5, <2>1 DEF SweepOK
<1>12. Backed'
  <2>1. SUFFICES ASSUME NEW CONSTANT t \in DOMAIN scopes \ {s}, NEW CONSTANT c \in scopes[t].refs PROVE c \in disk'.refs /\ c \in disk'.objects
    BY <1>2, <1>3 DEF Backed, ScopesAreBacked, Resolves
  <2>2. c \in disk.refs /\ c \in disk.objects
    BY <2>1, MediaFacts DEF Backed, ScopesAreBacked, Resolves
  <2>3. c \notin gone
    BY <1>1, <2>1 DEF loadRemainingRefs, Others
  <2>4. QED BY <1>3, <2>2, <2>3
<1>13. MediaTyped'
  <2>1. scopes' \in [DOMAIN scopes' -> ScopeRecords] /\ DOMAIN scopes' \subseteq {Telegram, Tool} \cup 1..nScopes
    BY <1>2, MediaFacts DEF Others
  <2>2. QED BY <1>5, <2>1, MediaFacts DEF MediaTyped
<1>14. QED BY <1>7, <1>8, <1>9, <1>10, <1>11, <1>12, <1>13 DEF MediaInv

LEMMA SweepKeeps ==
    ASSUME MediaInv, SweepRelease
    PROVE  MediaInv'
<1>1. sweep.pc = "release" /\ UNCHANGED <<nScopes, rpc, known, queue, transcript, inbound, attached>>
    BY DEF SweepRelease
<1>2. CASE \E s \in sweep.todo : ReleaseAll(s)
    BY <1>1, <1>2, ReleaseKeeps
<1>3. CASE sweep' = NoSweep /\ UNCHANGED <<disk, scopes>>
    BY <1>1, <1>3, NothingGrows, BackedStays, NoSweepKeeps
<1>4. QED BY <1>2, <1>3 DEF SweepRelease

\* A day passes while nothing waits: only the sweep's own list says which scopes it looks at.
LEMMA AgeKeeps ==
    ASSUME MediaInv, Age
    PROVE  MediaInv'
<1>1. /\ queue = <<>> /\ rpc.pc = "idle" /\ UNCHANGED <<disk, nScopes, rpc, known, queue, transcript, inbound, sweep, attached>>
      /\ scopes' = [s \in DOMAIN scopes |-> [scopes[s] EXCEPT !.fresh = FALSE]]
    BY DEF Age
<1>2. \A s \in DOMAIN scopes : scopes[s] \in ScopeRecords
    BY MediaFacts
<1>3. DOMAIN scopes' = DOMAIN scopes /\ \A s \in DOMAIN scopes : scopes'[s] \in ScopeRecords /\ scopes'[s].refs = scopes[s].refs
    BY <1>1, <1>2 DEF ScopeRecords
<1>4. ASSUME NEW CONSTANT t, NEW CONSTANT m PROVE (Names(t, m) => Names(t, m)') /\ (Spared(t, m) => Spared(t, m)')
    BY <1>1, <1>3 DEF Names, Spared
<1>5. QueueHeld' /\ SendOK'
    BY <1>1 DEF QueueHeld, SendOK
<1>6. TranscriptHeld'
  <2>1. ASSUME NEW CONSTANT k \in DOMAIN transcript, NEW CONSTANT q, q = transcript[k], q # {}
        PROVE  \E s \in DOMAIN scopes' : Names(s, q)' /\ Spared(s, q)'
    <3>1. PICK s \in DOMAIN scopes : Names(s, q) /\ Spared(s, q)
      BY <2>1, MediaFacts DEF TranscriptHeld
    <3>2. QED BY <1>3, <1>4, <3>1
  <2>2. QED BY <1>1, <2>1 DEF TranscriptHeld
<1>7. AttachedHeld'
    BY <1>1, <1>4, MediaFacts DEF AttachedHeld
<1>8. SweepOK' /\ Backed'
    BY <1>1, <1>3, MediaFacts DEF SweepOK, Backed, ScopesAreBacked, Resolves
<1>9. MediaTyped'
  <2>1. scopes' = [s \in DOMAIN scopes' |-> scopes'[s]]
    BY <1>1, <1>3
  <2>2. scopes' \in [DOMAIN scopes' -> ScopeRecords]
    BY <1>3, <2>1
  <2>3. QED BY <1>1, <1>3, <2>2, MediaFacts DEF MediaTyped
<1>10. QED BY <1>5, <1>6, <1>7, <1>8, <1>9 DEF MediaInv

LEMMA MediaStarts ==
    ASSUME MediaInit
    PROVE  MediaInv
<1>1. /\ DOMAIN scopes = {} /\ nScopes = 0 /\ rpc = NoSend /\ known = {} /\ queue = <<>> /\ transcript = <<>>
      /\ inbound = [poll |-> "session", msg |-> NoMessage] /\ sweep = NoSweep /\ attached = {} /\ scopes = [s \in {} |-> [refs |-> {}, fresh |-> TRUE]]
    BY DEF MediaInit
<1>2. <<>> \in Seq(SUBSET Contents) /\ DOMAIN <<>> = {} /\ 0 \in 0..MaxScopes /\ NoSweep \in Sweeps /\ NoSend \in Sends
    BY MediaAssumption, NoSendIs DEF NoSweep, Sweeps
<1>3. scopes \in [DOMAIN scopes -> ScopeRecords]
    BY <1>1
<1>4. MediaTyped
    BY <1>1, <1>2, <1>3 DEF MediaTyped, NoMessage
<1>5. SweepOK
    BY <1>1 DEF SweepOK, NoSweep
<1>5a. disk = [objects |-> disk.objects, refs |-> disk.refs, type |-> disk.type]
    BY DEF MediaInit
<1>6. SendOK /\ QueueHeld /\ TranscriptHeld /\ AttachedHeld /\ Backed
    BY <1>1, <1>2, <1>5a, NoSendIs DEF SendOK, QueueHeld, TranscriptHeld, AttachedHeld, Backed, ScopesAreBacked
<1>7. QED BY <1>4, <1>5, <1>6 DEF MediaInv

LEMMA MediaStays ==
    ASSUME MediaInv, UNCHANGED msVars
    PROVE  MediaInv'
<1>1. UNCHANGED <<disk, scopes, nScopes, rpc, known, queue, transcript, inbound, sweep, attached>>
    BY DEF msVars
<1>2. Grown /\ Backed' /\ known' \in SUBSET Contents
    BY <1>1, NothingGrows, BackedStays, MediaFacts DEF MediaTyped
<1>3. QED BY <1>1, <1>2, GrownInv

LEMMA MediaStep ==
    ASSUME MediaInv, [MediaNext]_msVars
    PROVE  MediaInv'
<1>1. CASE UNCHANGED msVars
    BY <1>1, MediaStays
<1>2. CASE MediaSystem
    BY <1>2, SendLooks, RetainKeeps, RunKeeps, PollingKeeps, DownloadKeeps, AttachmentKeeps DEF MediaSystem
<1>3. CASE Update \/ PollingEnds
    BY <1>3, PollingKeeps
<1>4. CASE MediaCrash
    BY <1>4, MediaCrashKeeps
<1>5. CASE Age
    BY <1>5, AgeKeeps
<1>6. CASE SweepMedia \/ SweepPage \/ SweepScopes \/ SweepRelease
    BY <1>6, SweepBegins, PageKeeps, ScopesKeep, SweepKeeps
<1>7. ASSUME NEW CONSTANT c \in Contents, PutMedia(c) \/ AttachPath(c) \/ AttachRef(c) PROVE MediaInv'
    BY <1>7, PutKeeps, AttachKeeps, AttachRefKeeps
<1>8. ASSUME NEW CONSTANT c \in Contents, NEW CONSTANT d \in Contents, Send(<<c>>) \/ Send(<<c, d>>) PROVE MediaInv'
  <2>1. <<c>> \in Seq(Contents) /\ Len(<<c>>) >= 1 /\ <<c, d>> \in Seq(Contents) /\ Len(<<c, d>>) >= 1
    OBVIOUS
  <2>2. QED BY <1>8, <2>1, SendKeeps
<1>9. QED BY <1>1, <1>2, <1>3, <1>4, <1>5, <1>6, <1>7, <1>8 DEF MediaNext

LEMMA MediaIsSafe ==
    ASSUME MediaInv
    PROVE  MediaSafe
<1>1. ScopesAreBacked
    BY MediaFacts DEF Backed
<1>2. ASSUME NEW CONSTANT s, NEW CONSTANT m, Names(s, m), NEW CONSTANT c \in m PROVE Resolves(c)
    BY <1>1, <1>2 DEF ScopesAreBacked, Names
<1>3. ASSUME NEW CONSTANT x \in DOMAIN queue, NEW CONSTANT c \in queue[x] PROVE Resolves(c)
  <2>1. PICK s \in DOMAIN scopes : Names(s, queue[x])
    BY <1>3, MediaFacts DEF QueueHeld
  <2>2. QED BY <1>2, <1>3, <2>1
<1>4. ASSUME NEW CONSTANT k \in DOMAIN transcript, NEW CONSTANT c \in transcript[k] PROVE Resolves(c)
  <2>1. PICK s \in DOMAIN scopes : Names(s, transcript[k])
    BY <1>4, MediaFacts DEF TranscriptHeld
  <2>2. QED BY <1>2, <1>4, <2>1
<1>5. ASSUME NEW CONSTANT c \in attached PROVE Resolves(c)
  <2>1. CASE Names(Tool, {c})
    BY <1>2, <2>1
  <2>2. CASE \E k \in DOMAIN transcript : c \in transcript[k]
    BY <1>4, <2>2
  <2>3. QED BY <1>5, <2>1, <2>2, MediaFacts DEF AttachedHeld
<1>6. AcceptedMediaResolves
    BY <1>3, <1>4, <1>5 DEF AcceptedMediaResolves, ToSet
<1>7. QED BY <1>1, <1>6 DEF MediaSafe

-----------------------------------------------------------------------------
(* The Telegram session: its data. *)

LEMMA DraftSteps ==
    \A d \in Drafts :
        /\ Touch(d) \in Drafts /\ Touch(d).on = d.on /\ Touch(d).sent = d.sent /\ Touch(d).armed /\ Touch(d).fired = d.fired
        /\ scheduleDraft(d) \in Drafts /\ scheduleDraft(d).on = d.on /\ scheduleDraft(d).sent = d.sent
        /\ scheduleDraft(d).armed /\ scheduleDraft(d).fired = d.fired /\ scheduleDraft(d).dirty = d.dirty
        /\ disableDraft(d) \in Drafts /\ ~disableDraft(d).on /\ ~disableDraft(d).armed /\ disableDraft(d).sent = d.sent /\ ~disableDraft(d).fired
        /\ Flush(d) \in Drafts /\ Flush(d).on = d.on /\ Flush(d).sent = d.sent /\ ~Flush(d).armed /\ ~Flush(d).fired /\ ~Flush(d).dirty
BY DEF Drafts, Touch, scheduleDraft, disableDraft, Flush

LEMMA DraftShows ==
    \A d \in Drafts :
        /\ [d EXCEPT !.text = FALSE] \in Drafts /\ [d EXCEPT !.text = TRUE] \in Drafts
        /\ [d EXCEPT !.text = FALSE].on = d.on /\ [d EXCEPT !.text = TRUE].on = d.on
        /\ [d EXCEPT !.text = FALSE].sent = d.sent /\ [d EXCEPT !.text = TRUE].sent = d.sent
        /\ [d EXCEPT !.text = FALSE].armed = d.armed /\ [d EXCEPT !.text = FALSE].fired = d.fired
        /\ [d EXCEPT !.text = TRUE].fired = d.fired /\ [d EXCEPT !.text = FALSE].dirty = d.dirty
BY DEF Drafts

LEMMA ChunksAre == Chunks \in Seq(ChunkRecords) /\ Chunks # <<>>
BY DEF Chunks, ChunkRecords

LEMMA LegacyIs ==
    ASSUME NEW c \in ChunkRecords, c.rich, NEW q \in Seq(ChunkRecords)
    PROVE  Legacy(c) \o q \in Seq(ChunkRecords) /\ Legacy(c) \o q # <<>>
<1>1. c.pieces \in Seq(Nat) /\ c.pieces # <<>>
    BY DEF ChunkRecords
<1>2. DOMAIN c.pieces = 1..Len(c.pieces) /\ Len(c.pieces) \in Nat \ {0} /\ \A n \in 1..Len(c.pieces) : c.pieces[n] \in Nat
    BY <1>1
<1>3. \A n \in 1..Len(c.pieces) : [pieces |-> <<c.pieces[n]>>, rich |-> FALSE] \in ChunkRecords
    BY <1>2 DEF ChunkRecords
<1>4. Legacy(c) \in Seq(ChunkRecords) /\ Len(Legacy(c)) = Len(c.pieces)
    BY <1>2, <1>3 DEF Legacy
<1>5. Legacy(c) \o q \in Seq(ChunkRecords) /\ Len(Legacy(c) \o q) = Len(Legacy(c)) + Len(q) /\ Len(q) \in Nat
    BY <1>4
<1>6. QED BY <1>2, <1>4, <1>5

LEMMA ChatPreviews == \A c \in Chats, b \in BOOLEAN : [c EXCEPT !.preview = b] \in Chats
BY DEF Chats

LEMMA ChatAdds == \A c \in Chats : [c EXCEPT !.made = @ + 1, !.statuses = @ \cup {c.made + 1}, !.preview = FALSE] \in Chats
<1>1. ASSUME NEW c \in Chats
      PROVE  [c EXCEPT !.made = @ + 1, !.statuses = @ \cup {c.made + 1}, !.preview = FALSE] \in Chats
  <2>1. c.statuses \cup {c.made + 1} \in SUBSET Nat /\ c.made + 1 \in Nat
    BY DEF Chats
  <2>2. QED BY <2>1 DEF Chats
<1>2. QED BY <1>1

LEMMA HolderSteps ==
    \A t \in TgSessions, o \in Ops :
        /\ [t EXCEPT !.op = o] \in TgSessions /\ [t EXCEPT !.op = o].op = o
        /\ [t EXCEPT !.op = o].finished = t.finished /\ [t EXCEPT !.op = o].cancelled = t.cancelled
BY DEF TgSessions

LEMMA SessionSteps ==
    \A t \in TgSessions :
        /\ [t EXCEPT !.typing = FALSE] \in TgSessions /\ [t EXCEPT !.typing = FALSE].finished = t.finished
        /\ [t EXCEPT !.typing = FALSE].op = t.op /\ [t EXCEPT !.typing = FALSE].cancelled = t.cancelled
        /\ [t EXCEPT !.cancelled = TRUE] \in TgSessions /\ [t EXCEPT !.cancelled = TRUE].finished = t.finished
        /\ [t EXCEPT !.cancelled = TRUE].op = t.op /\ [t EXCEPT !.cancelled = TRUE].cancelled
        /\ [t EXCEPT !.op = "finish", !.finished = TRUE] \in TgSessions
        /\ [t EXCEPT !.op = "finish", !.finished = TRUE].op = "finish" /\ [t EXCEPT !.op = "finish", !.finished = TRUE].finished
        /\ [t EXCEPT !.op = "finish", !.finished = TRUE].cancelled = t.cancelled
BY DEF TgSessions, Ops

LEMMA StatusSteps ==
    /\ \A s \in StatusRecords :
          /\ [s EXCEPT !.stale = TRUE] \in StatusRecords /\ [s EXCEPT !.stale = TRUE].id = s.id
          /\ [s EXCEPT !.stale = FALSE] \in StatusRecords /\ [s EXCEPT !.stale = FALSE].id = s.id
    /\ \A n \in Nat : [id |-> n, stale |-> FALSE] \in StatusRecords
BY DEF StatusRecords

LEMMA TimerSteps ==
    \A t \in [Kinds -> BOOLEAN], k \in Kinds :
        [t EXCEPT ![k] = TRUE] \in [Kinds -> BOOLEAN] /\ [t EXCEPT ![k] = FALSE] \in [Kinds -> BOOLEAN]
OBVIOUS

LEMMA TwoTimers ==
    \A t \in [Kinds -> BOOLEAN], k, l \in Kinds : [t EXCEPT ![k] = TRUE, ![l] = TRUE] \in [Kinds -> BOOLEAN]
OBVIOUS

LEMMA Going ==
    ASSUME cbs \in [Kinds -> CallbackSteps], NEW CONSTANT k \in Kinds, NEW CONSTANT pc \in CallbackSteps, Goes(k, pc)
    PROVE  /\ cbs' \in [Kinds -> CallbackSteps] /\ cbs'[k] = pc
           /\ \A l \in Kinds \ {k} : cbs'[l] = cbs[l]
BY DEF Goes

(* Types. *)
LEMMA KindsAre ==
    /\ "show" \in Kinds /\ "stall" \in Kinds /\ "again" \in Kinds /\ "edit" \in Kinds /\ "draft" \in Kinds
    /\ Senders \subseteq Kinds /\ \A k \in Kinds : k \in Senders \/ k = "edit" \/ k = "draft"
BY DEF Kinds, Senders

LEMMA RunTyped ==
    ASSUME TgTyped, (\E turn \in BOOLEAN : Event(turn)) \/ Delta \/ StopRun \/ Shutdown \/ EndRun
    PROVE  TgTyped'
<1>1. draft \in Drafts /\ timers \in [Kinds -> BOOLEAN] /\ status \in StatusRecords /\ tg \in TgSessions /\ nEvents \in Nat /\ fin \in Endings
    BY DEF TgTyped
<1>2. ASSUME NEW CONSTANT turn \in BOOLEAN, Event(turn) PROVE TgTyped'
  <2>1. draft' \in Drafts
    BY <1>1, <1>2, DraftSteps, DraftShows DEF Event
  <2>2. timers' = [timers EXCEPT !["edit"] = TRUE, !["stall"] = TRUE] \/ timers' = [timers EXCEPT !["stall"] = TRUE]
    BY <1>2 DEF Event
  <2>3. timers' \in [Kinds -> BOOLEAN]
    BY <1>1, <2>2, TimerSteps, TwoTimers, KindsAre
  <2>4. status' = status \/ status' = [status EXCEPT !.stale = TRUE]
    BY <1>2 DEF Event
  <2>5. status' \in StatusRecords
    BY <1>1, <2>4, StatusSteps
  <2>5a. nEvents' \in Nat
    BY <1>1, <1>2 DEF Event
  <2>6. QED BY <1>2, <2>1, <2>3, <2>5, <2>5a DEF Event, TgTyped
<1>3. CASE Delta
  <2>1. draft' \in Drafts
    <3>1. draft' = Touch([draft EXCEPT !.text = TRUE]) \/ draft' = disableDraft(draft)
        BY <1>3 DEF Delta
    <3>2. [draft EXCEPT !.text = TRUE] \in Drafts
        BY <1>1, DraftShows
    <3>3. QED BY <1>1, <3>1, <3>2, DraftSteps
  <2>2. timers' = timers \/ timers' = [timers EXCEPT !["again"] = TRUE]
    BY <1>3 DEF Delta
  <2>2a. timers' \in [Kinds -> BOOLEAN]
    BY <1>1, <2>2, TimerSteps, KindsAre
  <2>3. nEvents' \in Nat
    BY <1>1, <1>3 DEF Delta
  <2>4. QED BY <1>3, <2>1, <2>2a, <2>3 DEF Delta, TgTyped
<1>4. CASE StopRun \/ Shutdown
  <2>1. tg' \in TgSessions
    <3>1. tg' = [tg EXCEPT !.cancelled = TRUE]
        BY <1>4 DEF StopRun, Shutdown
    <3>2. QED BY <1>1, <3>1, SessionSteps
  <2>2. [draft EXCEPT !.stop = FALSE] \in Drafts
    BY <1>1 DEF Drafts
  <2>3. QED BY <1>1, <1>4, <2>1, <2>2 DEF StopRun, Shutdown, TgTyped
<1>5. CASE EndRun
  <2>1. PICK says \in BOOLEAN, media \in 0..2 :
           fin' = [fin EXCEPT !.pc = "lock", !.kind = IF tg.cancelled THEN "abort" ELSE "finish", !.text = says, !.media = media]
    BY <1>5 DEF EndRun
  <2>2. PICK kind \in {"none", "finish", "abort"} : fin' = [fin EXCEPT !.pc = "lock", !.kind = kind, !.text = says, !.media = media]
    BY <2>1
  <2>3. media \in Nat /\ "lock" \in Pcs
    BY DEF Pcs
  <2>4. fin' \in Endings
    BY <1>1, <2>2, <2>3 DEF Endings
  <2>5. QED BY <1>5, <2>4 DEF EndRun, TgTyped
<1>6. QED BY <1>2, <1>3, <1>4, <1>5

LEMMA CallbackTyped ==
    ASSUME TgTyped, Callbacks
    PROVE  TgTyped'
<1>1. draft \in Drafts /\ timers \in [Kinds -> BOOLEAN] /\ status \in StatusRecords /\ tg \in TgSessions
      /\ cbs \in [Kinds -> CallbackSteps] /\ chat \in Chats /\ tfaults \in Nat /\ lost \in Nat /\ "free" \in Ops /\ Kinds \subseteq Ops
      /\ \A pc \in {"idle", "read", "check", "lock", "send", "sent"} : pc \in CallbackSteps
    BY DEF TgTyped, Ops, CallbackSteps
<1>2. ASSUME NEW CONSTANT k \in Kinds, Fire(k) \/ Check(k) PROVE TgTyped'
  <2>1. draft' \in Drafts
    BY <1>1, <1>2, DraftSteps DEF Fire, Check
  <2>2. status' \in StatusRecords /\ timers' \in [Kinds -> BOOLEAN]
    <3>1. status' = status \/ status' = [status EXCEPT !.stale = TRUE]
        BY <1>2 DEF Fire, Check, scheduleStatusEdit
    <3>2. timers' = timers \/ timers' = [timers EXCEPT !["edit"] = TRUE] \/ timers' = [timers EXCEPT ![k] = FALSE]
        BY <1>2 DEF Fire, Check, scheduleStatusEdit
    <3>3. QED BY <1>1, <3>1, <3>2, StatusSteps, TimerSteps, KindsAre
  <2>3. PICK pc \in CallbackSteps : Goes(k, pc)
    BY <1>1, <1>2 DEF Fire, Check, Ends
  <2>4. QED BY <1>1, <1>2, <2>1, <2>2, <2>3, Going DEF Fire, Check, TgTyped
<1>3. ASSUME NEW CONSTANT k \in Kinds, Lock(k) PROVE TgTyped'
  <2>1. PICK pc \in CallbackSteps : Goes(k, pc)
    BY <1>1, <1>3 DEF Lock, Ends
  <2>2. tg' \in TgSessions
    BY <1>1, <1>3, HolderSteps DEF Lock
  <2>3. QED BY <1>1, <1>3, <2>1, <2>2, Going DEF Lock, TgTyped
<1>4. ASSUME NEW CONSTANT k \in Kinds, SendStatus(k) PROVE TgTyped'
  <2>1. NewStatus \in Chats
    BY <1>1, ChatAdds DEF NewStatus
  <2>2. chat' \in Chats
    BY <1>1, <1>4, <2>1 DEF SendStatus, Lossy, Call
  <2>3. tfaults' \in Nat /\ lost' \in Nat
    BY <1>1, <1>4 DEF SendStatus, Lossy, Call, Fine, Fault
  <2>4. tg' \in TgSessions
    BY <1>1, <1>4, HolderSteps DEF SendStatus, Lossy, Call, Free
  <2>5. PICK pc \in CallbackSteps : Goes(k, pc)
    BY <1>1, <1>4 DEF SendStatus, Lossy, Call, Free, Ends
  <2>6. QED BY <1>1, <1>4, <2>2, <2>3, <2>4, <2>5, Going DEF SendStatus, TgTyped
<1>5. ASSUME NEW CONSTANT k \in Kinds, StatusSent(k) PROVE TgTyped'
  <2>1. chat.made \in Nat
    BY <1>1 DEF Chats
  <2>2. status' \in StatusRecords /\ tg' \in TgSessions
    BY <1>1, <1>5, <2>1, StatusSteps, HolderSteps DEF StatusSent, Free
  <2>3. Goes(k, "idle")
    BY <1>5 DEF StatusSent, Free, Ends
  <2>4. QED BY <1>1, <1>5, <2>2, <2>3, Going DEF StatusSent, TgTyped
<1>6. CASE FireDraft
  <2>1. [draft EXCEPT !.fired = TRUE] \in Drafts
    BY <1>1 DEF Drafts
  <2>2. QED BY <1>1, <1>6, <2>1, Going, KindsAre DEF FireDraft, TgTyped
<1>7. CASE EditRead \/ EditLock
  <2>1. PICK pc \in CallbackSteps : Goes("edit", pc)
    BY <1>1, <1>7 DEF EditRead, EditLock, Ends
  <2>2. tg' \in TgSessions /\ status' \in StatusRecords
    <3>1. (tg' = tg \/ tg' = [tg EXCEPT !.op = "edit"]) /\ (status' = status \/ status' = [status EXCEPT !.stale = FALSE])
        BY <1>7 DEF EditRead, EditLock
    <3>2. tg' \in TgSessions
        BY <1>1, <3>1, HolderSteps, KindsAre
    <3>3. status' \in StatusRecords
        BY <1>1, <3>1, StatusSteps
    <3>4. QED BY <3>2, <3>3
  <2>3. QED BY <1>1, <1>7, <2>1, <2>2, Going, KindsAre DEF EditRead, EditLock, TgTyped
<1>8. CASE EditSent
  <2>1. status' \in StatusRecords
    BY <1>1, <1>8, StatusSteps DEF EditSent, Call
  <2>2. tg' \in TgSessions /\ Goes("edit", "idle")
    BY <1>1, <1>8, HolderSteps DEF EditSent, Free, Ends
  <2>3. tfaults' \in Nat /\ lost' \in Nat
    BY <1>1, <1>8 DEF EditSent, Lossy, Call, Fine, Fault
  <2>4. QED BY <1>1, <1>8, <2>1, <2>2, <2>3, Going, KindsAre DEF EditSent, TgTyped
<1>9. CASE FlushLock
  <2>1. PICK pc \in CallbackSteps : Goes("draft", pc)
    BY <1>1, <1>9 DEF FlushLock, Ends
  <2>2. tg' \in TgSessions /\ draft' \in Drafts
    BY <1>1, <1>9, HolderSteps, DraftSteps, KindsAre DEF FlushLock
  <2>3. QED BY <1>1, <1>9, <2>1, <2>2, Going, KindsAre DEF FlushLock, TgTyped
<1>10. CASE FlushSend
  <2>0. disableDraft(draft) \in Drafts
    BY <1>1, DraftSteps
  <2>1. [disableDraft(draft) EXCEPT !.inFlight = FALSE] \in Drafts
    BY <2>0 DEF Drafts
  <2>2. [draft EXCEPT !.inFlight = FALSE, !.sent = TRUE, !.armed = @ \/ draft.on] \in Drafts
    BY <1>1 DEF Drafts
  <2>3. draft' \in Drafts
    BY <1>10, <2>1, <2>2 DEF FlushSend, Lossy, Call, FlushFails
  <2>4. chat' \in Chats
    BY <1>1, <1>10, ChatPreviews DEF FlushSend, Lossy, Call
  <2>5. timers' \in [Kinds -> BOOLEAN]
    <3>1. [timers EXCEPT !["again"] = timers["again"] \/ ~draft.on] \in [Kinds -> BOOLEAN]
        BY <1>1, KindsAre
    <3>2. timers' \in {[timers EXCEPT !["again"] = timers["again"] \/ ~draft.on], [timers EXCEPT !["again"] = TRUE]}
        BY <1>10 DEF FlushSend, Lossy, Call, FlushFails
    <3>3. QED BY <1>1, <3>1, <3>2, TimerSteps, KindsAre
  <2>6. tg' \in TgSessions /\ Goes("draft", "idle")
    BY <1>1, <1>10, HolderSteps DEF FlushSend, Free, Ends
  <2>7. tfaults' \in Nat /\ lost' \in Nat
    BY <1>1, <1>10 DEF FlushSend, Lossy, Call, Fine, Fault
  <2>8. QED BY <1>1, <1>10, <2>3, <2>4, <2>5, <2>6, <2>7, Going, KindsAre DEF FlushSend, TgTyped
<1>11. QED BY <1>2, <1>3, <1>4, <1>5, <1>6, <1>7, <1>8, <1>9, <1>10 DEF Callbacks

LEMMA PcSteps ==
    \A f \in Endings, p \in Pcs :
        LET g == [f EXCEPT !.pc = p] IN
        /\ g \in Endings /\ g.pc = p /\ g.kind = f.kind /\ g.text = f.text /\ g.media = f.media /\ g.edit = f.edit /\ g.todo = f.todo
BY DEF Endings

\* What each action of the session's end does to fin, and with it to the session and its preview.
EndIs(pc, edit, media, todo) ==
    /\ fin' \in Endings /\ fin'.pc = pc /\ fin'.text = fin.text /\ fin'.edit = edit /\ fin'.media = media /\ fin'.todo = todo
    /\ UNCHANGED <<status, cbs, nEvents>>
Kept == UNCHANGED <<draft, timers>> /\ tg' \in TgSessions /\ tg'.finished = tg.finished
HeldOn == tg'.op = tg.op

LEMMA EndFacts ==
    ASSUME TgTyped
    PROVE  /\ fin \in Endings /\ draft \in Drafts /\ timers \in [Kinds -> BOOLEAN] /\ tg \in TgSessions /\ chat \in Chats
           /\ status.id \in Nat /\ fin.edit \in Nat /\ fin.media \in Nat /\ fin.todo \in Seq(ChunkRecords)
           /\ tfaults \in Nat /\ lost \in Nat /\ Pcs = {"run", "lock", "done"} \cup EndSteps
BY DEF TgTyped, StatusRecords, Endings, Pcs

LEMMA CancelledIs ==
    ASSUME TgTyped, FinishCancelled
    PROVE  /\ fin.pc = "lock" /\ EndIs(fin.pc, fin.edit, fin.media, fin.todo) /\ Kept /\ HeldOn
           /\ UNCHANGED <<chat, tfaults, lost>>
<1>1. fin' = [fin EXCEPT !.kind = "abort"]
    BY DEF FinishCancelled
<1>2. fin' \in Endings /\ fin'.pc = fin.pc /\ fin'.text = fin.text /\ fin'.edit = fin.edit /\ fin'.media = fin.media /\ fin'.todo = fin.todo
    BY <1>1, EndFacts DEF Endings
<1>3. QED BY <1>2, EndFacts DEF FinishCancelled, HandOver, At, EndIs, Kept, HeldOn

LEMMA LockIs ==
    ASSUME TgTyped, FinishLock
    PROVE  /\ fin.pc = "lock" /\ EndIs("clean", status.id, fin.media, fin.todo) /\ UNCHANGED <<chat, tfaults, lost>>
           /\ tg.op = "free" /\ tg' \in TgSessions /\ tg'.finished /\ tg'.op = "finish"
           /\ draft' \in Drafts /\ draft'.sent = draft.sent /\ ~draft'.armed /\ ~draft'.fired
           /\ timers' \in [Kinds -> BOOLEAN] /\ timers'["draft"] = timers["draft"]
<1>1. fin' = [fin EXCEPT !.pc = "clean", !.edit = status.id] /\ "clean" \in Pcs
    BY DEF FinishLock, Pcs, EndSteps
<1>2. fin' \in Endings /\ fin'.pc = "clean" /\ fin'.text = fin.text
      /\ fin'.media = fin.media /\ fin'.edit = status.id /\ fin'.todo = fin.todo
    BY <1>1, EndFacts DEF Endings
<1>3. tg' = [tg EXCEPT !.op = "finish", !.finished = TRUE]
    BY DEF FinishLock
<1>4. draft' = [draft EXCEPT !.armed = FALSE, !.fired = FALSE, !.stop = FALSE]
    BY DEF FinishLock
<1>5. draft' \in Drafts /\ draft'.sent = draft.sent /\ ~draft'.armed /\ ~draft'.fired
    BY <1>4, EndFacts DEF Drafts
<1>6. timers' = [timers EXCEPT !["show"] = FALSE, !["stall"] = FALSE, !["edit"] = FALSE]
    BY DEF FinishLock
<1>7. timers' \in [Kinds -> BOOLEAN] /\ timers'["draft"] = timers["draft"]
    BY <1>6, EndFacts, KindsAre
<1>8. tg' \in TgSessions /\ tg'.finished /\ tg'.op = "finish"
    BY <1>3, EndFacts, SessionSteps
<1>9. QED BY <1>2, <1>5, <1>7, <1>8 DEF FinishLock, EndIs, At

(* What the Bot API calls of the end do to the chat. *)
Counts == tfaults' \in Nat /\ lost' \in Nat /\ tfaults' >= tfaults
ChatStays == chat' = chat /\ tfaults' = tfaults /\ lost' = lost
CallFails == chat' = chat /\ tfaults' = tfaults + 1 /\ lost' = lost
Erases(id) == chat' \in Chats /\ chat'.statuses = chat.statuses \ {id} /\ chat'.preview = chat.preview /\ Counts
Shows == chat' \in Chats /\ chat'.statuses = chat.statuses /\ ~chat'.preview /\ Counts

LEMMA Deleting ==
    ASSUME TgTyped, NEW CONSTANT id \in Nat, deleteStatusMessage(id), Fine
    PROVE  Erases(id)
<1>1. chat' = [chat EXCEPT !.statuses = @ \ {id}]
    BY DEF deleteStatusMessage
<1>2. chat' \in Chats /\ chat'.statuses = chat.statuses \ {id} /\ chat'.preview = chat.preview
    BY <1>1, EndFacts DEF Chats
<1>3. QED BY <1>2, EndFacts DEF Erases, Counts, Fine

LEMMA Showing ==
    ASSUME TgTyped, NEW CONSTANT p \in Seq(Nat), chat' = Show(p), Counts
    PROVE  Shows
<1>1. chat.shown \o p \in Seq(Nat)
    BY EndFacts DEF Chats
<1>2. chat' = [chat EXCEPT !.shown = @ \o p, !.preview = FALSE]
    BY DEF Show
<1>3. chat' \in Chats /\ chat'.statuses = chat.statuses /\ ~chat'.preview
    BY <1>1, <1>2, EndFacts DEF Chats
<1>4. QED BY <1>3 DEF Shows

LEMMA CleanIs ==
    ASSUME TgTyped, Clean
    PROVE  /\ fin.pc = "clean" /\ Kept /\ HeldOn
           /\ \E pc \in {"stopped", "answer"} : EndIs(pc, IF draft.sent THEN 0 ELSE fin.edit, fin.media, fin.todo)
           /\ IF draft.sent /\ fin.edit # 0 THEN Erases(fin.edit) \/ CallFails ELSE ChatStays
<1>1. PICK pc \in {"stopped", "answer"} : fin' = [fin EXCEPT !.edit = IF draft.sent THEN 0 ELSE @, !.pc = pc]
    BY DEF Clean
<1>2. PICK e \in Nat : e = (IF draft.sent THEN 0 ELSE fin.edit) /\ fin' = [fin EXCEPT !.edit = e, !.pc = pc]
    BY <1>1, EndFacts
<1>3. fin' \in Endings /\ fin'.pc = pc /\ fin'.text = fin.text /\ fin'.media = fin.media /\ fin'.edit = e /\ fin'.todo = fin.todo
    BY <1>2, EndFacts DEF Endings, EndSteps
<1>4. EndIs(pc, IF draft.sent THEN 0 ELSE fin.edit, fin.media, fin.todo)
    BY <1>2, <1>3 DEF EndIs, Clean
<1>5. tg' = [tg EXCEPT !.typing = FALSE]
    BY DEF Clean
<1>6. Kept /\ HeldOn
    BY <1>5, EndFacts, SessionSteps DEF Kept, HeldOn, Clean
<1>7. ASSUME draft.sent /\ fin.edit # 0 PROVE Erases(fin.edit) \/ CallFails
  <2>1. CASE Fine /\ deleteStatusMessage(fin.edit)
    BY <2>1, EndFacts, Deleting
  <2>2. CASE Fault /\ UNCHANGED lost /\ UNCHANGED chat
    BY <2>2 DEF Fault, CallFails
  <2>3. QED BY <1>7, <2>1, <2>2 DEF Clean, Call
<1>8. ASSUME ~(draft.sent /\ fin.edit # 0) PROVE ChatStays
    BY <1>8 DEF Clean, ChatStays, Fine
<1>9. QED BY <1>4, <1>6, <1>7, <1>8 DEF Clean, At

LEMMA ToIs ==
    ASSUME TgTyped, NEW CONSTANT pc \in Pcs, To(pc), UNCHANGED <<status, cbs, nEvents>>
    PROVE  EndIs(pc, fin.edit, fin.media, fin.todo)
BY EndFacts, PcSteps DEF To, EndIs

LEMMA StoppedIs ==
    ASSUME TgTyped, Stopped
    PROVE  /\ fin.pc = "stopped" /\ Kept /\ HeldOn /\ EndIs("unlock", fin.edit, fin.media, fin.todo)
           /\ \/ fin.edit # 0 /\ (Erases(fin.edit) \/ CallFails)
              \/ fin.edit = 0 /\ draft.sent /\ (Shows \/ CallFails)
              \/ fin.edit = 0 /\ ~draft.sent /\ ChatStays
<1>1. EndIs("unlock", fin.edit, fin.media, fin.todo)
    BY ToIs DEF Stopped, Pcs, EndSteps
<1>2. ASSUME fin.edit # 0 PROVE Erases(fin.edit) \/ CallFails
  <2>1. CASE Fine /\ deleteStatusMessage(fin.edit)
    BY <2>1, EndFacts, Deleting
  <2>2. CASE Fault /\ UNCHANGED lost /\ UNCHANGED chat
    BY <2>2 DEF Fault, CallFails
  <2>3. QED BY <1>2, <2>1, <2>2 DEF Stopped, Call
<1>3. ASSUME fin.edit = 0, draft.sent PROVE Shows \/ CallFails
  <2>1. CASE Fine /\ chat' = [chat EXCEPT !.preview = FALSE]
    <3>1. chat' \in Chats /\ chat'.statuses = chat.statuses /\ ~chat'.preview
      BY <2>1, EndFacts DEF Chats
    <3>2. QED BY <2>1, <3>1, EndFacts DEF Shows, Counts, Fine
  <2>2. CASE Fault /\ UNCHANGED lost /\ UNCHANGED chat
    BY <2>2 DEF Fault, CallFails
  <2>3. QED BY <1>3, <2>1, <2>2 DEF Stopped, Call
<1>4. ASSUME fin.edit = 0, ~draft.sent PROVE ChatStays
    BY <1>4 DEF Stopped, ChatStays, Fine
<1>5. fin.pc = "stopped" /\ Kept /\ HeldOn
    BY EndFacts DEF Stopped, At, Kept, HeldOn
<1>6. QED BY <1>1, <1>2, <1>3, <1>4, <1>5

LEMMA PiecesAre ==
    /\ Media \in Seq(Nat) /\ Media \o <<>> \in Seq(Nat) /\ Media \o <<1, 2, 3>> \in Seq(Nat) /\ <<9>> \in Seq(Nat)
    /\ \A c \in ChunkRecords : c.pieces \in Seq(Nat)
BY DEF Media, ChunkRecords

LEMMA CaptionIs ==
    ASSUME TgTyped, Caption
    PROVE  /\ fin.pc = "answer" /\ Kept /\ HeldOn /\ fin.edit = 0
           /\ \/ Shows /\ EndIs("unlock", fin.edit, fin.media, fin.todo)
              \/ /\ Shows \/ CallFails
                 /\ EndIs("text", fin.edit, 0, Chunks) \/ EndIs("excuse", fin.edit, 0, Chunks)
<1>1. fin.pc = "answer" /\ Kept /\ HeldOn /\ fin.edit = 0
    BY EndFacts DEF Caption, At, Kept, HeldOn
<1>2. PICK p \in Seq(Nat) : p = Media \o (IF fin.text THEN <<1, 2, 3>> ELSE <<>>)
    BY PiecesAre, EndFacts
<1>3. CASE Fine /\ chat' = Show(p) /\ To("unlock")
  <2>0. Counts /\ chat' = Show(p)
    BY <1>3, EndFacts DEF Fine, Counts
  <2>1. Shows
    BY <1>2, <2>0, Showing
  <2>2. EndIs("unlock", fin.edit, fin.media, fin.todo)
    BY <1>3, ToIs DEF Caption, Pcs, EndSteps
  <2>3. QED BY <1>1, <2>1, <2>2
<1>4. ASSUME NEW CONSTANT pc \in {"text", "excuse"}, fin' = [fin EXCEPT !.pc = pc, !.media = 0, !.todo = Chunks]
      PROVE  EndIs(pc, fin.edit, 0, Chunks)
  <2>1. pc \in Pcs /\ Chunks \in Seq(ChunkRecords)
    BY ChunksAre DEF Pcs, EndSteps
  <2>2. fin' \in Endings /\ fin'.pc = pc /\ fin'.text = fin.text /\ fin'.edit = fin.edit /\ fin'.media = 0 /\ fin'.todo = Chunks
    BY <1>4, <2>1, EndFacts DEF Endings
  <2>3. QED BY <2>2 DEF EndIs, Caption
<1>5. ASSUME fin' = [fin EXCEPT !.pc = IF fin.text THEN "text" ELSE "excuse", !.media = 0, !.todo = Chunks]
      PROVE  EndIs("text", fin.edit, 0, Chunks) \/ EndIs("excuse", fin.edit, 0, Chunks)
    BY <1>4, <1>5
<1>6. CASE (Fault /\ UNCHANGED lost) /\ UNCHANGED chat /\ fin' = [fin EXCEPT !.pc = IF fin.text THEN "text" ELSE "excuse", !.media = 0, !.todo = Chunks]
  <2>1. CallFails
    BY <1>6 DEF CallFails, Fault
  <2>2. QED BY <1>1, <1>5, <1>6, <2>1
<1>7. CASE (Fault /\ lost' = lost + 1) /\ chat' = Show(p) /\ fin' = [fin EXCEPT !.pc = IF fin.text THEN "text" ELSE "excuse", !.media = 0, !.todo = Chunks]
  <2>0. Counts /\ chat' = Show(p)
    BY <1>7, EndFacts DEF Fault, Counts
  <2>1. Shows
    BY <1>2, <2>0, Showing
  <2>2. QED BY <1>1, <1>5, <1>7, <2>1
<1>8. QED BY <1>2, <1>3, <1>6, <1>7 DEF Caption, Lossy, Call

LEMMA AnswerIs ==
    ASSUME TgTyped, Answer
    PROVE  /\ fin.pc = "answer" /\ Kept /\ HeldOn
           /\ \/ fin.text /\ EndIs("text", fin.edit, fin.media, Chunks) /\ ChatStays
              \/ /\ ~fin.text /\ EndIs("media", fin.edit, fin.media, fin.todo)
                 /\ IF fin.edit # 0 THEN Erases(fin.edit) \/ CallFails ELSE ChatStays
<1>1. fin.pc = "answer" /\ Kept /\ HeldOn
    BY EndFacts DEF Answer, At, Kept, HeldOn
<1>2. CASE fin.text
  <2>1. fin' = [fin EXCEPT !.pc = "text", !.todo = Chunks] /\ "text" \in Pcs
    BY <1>2 DEF Answer, Pcs, EndSteps
  <2>2. fin' \in Endings /\ fin'.pc = "text" /\ fin'.text = fin.text /\ fin'.edit = fin.edit /\ fin'.media = fin.media /\ fin'.todo = Chunks
    BY <2>1, EndFacts, ChunksAre DEF Endings
  <2>2a. EndIs("text", fin.edit, fin.media, Chunks)
    BY <2>2 DEF EndIs, Answer
  <2>3. ChatStays
    BY <1>2 DEF Answer, ChatStays, Fine
  <2>4. QED BY <1>1, <1>2, <2>2a, <2>3
<1>3. CASE ~fin.text
  <2>1. EndIs("media", fin.edit, fin.media, fin.todo)
    BY <1>3, ToIs DEF Answer, Pcs, EndSteps
  <2>2. ASSUME fin.edit # 0 PROVE Erases(fin.edit) \/ CallFails
    <3>1. CASE Fine /\ deleteStatusMessage(fin.edit)
      BY <3>1, EndFacts, Deleting
    <3>2. CASE Fault /\ UNCHANGED lost /\ UNCHANGED chat
      BY <3>2 DEF Fault, CallFails
    <3>3. QED BY <1>3, <2>2, <3>1, <3>2 DEF Answer, Call
  <2>3. ASSUME fin.edit = 0 PROVE ChatStays
    BY <1>3, <2>3 DEF Answer, ChatStays, Fine
  <2>4. QED BY <1>1, <1>3, <2>1, <2>2, <2>3
<1>4. QED BY <1>2, <1>3

LEMMA TodoIs ==
    ASSUME TgTyped, fin.todo # <<>>
    PROVE  /\ Head(fin.todo) \in ChunkRecords /\ Rest \in Seq(ChunkRecords)
           /\ Head(fin.todo).rich => Legacy(Head(fin.todo)) \o Rest \in Seq(ChunkRecords) /\ Legacy(Head(fin.todo)) \o Rest # <<>>
<1>1. fin.todo \in Seq(ChunkRecords)
    BY EndFacts
<1>2. Head(fin.todo) \in ChunkRecords /\ Rest \in Seq(ChunkRecords)
    BY <1>1 DEF Rest
<1>3. QED BY <1>2, LegacyIs

LEMMA EditingIs ==
    ASSUME TgTyped, EditFirst, fin.todo # <<>>
    PROVE  /\ fin.pc = "text" /\ Kept /\ HeldOn /\ fin.edit # 0
           /\ \E q \in Seq(ChunkRecords) :
                 \/ Erases(fin.edit) /\ EndIs("text", 0, fin.media, q)
                 \/ q # <<>> /\ ChatStays /\ EndIs("text", fin.edit, fin.media, q)
                 \/ q # <<>> /\ CallFails /\ EndIs("text", 0, fin.media, q)
<1>1. fin.pc = "text" /\ Kept /\ HeldOn /\ fin.edit # 0
    BY EndFacts DEF EditFirst, At, Kept, HeldOn
<1>2. ASSUME NEW CONSTANT q \in Seq(ChunkRecords), fin' = [fin EXCEPT !.edit = 0, !.todo = q] PROVE EndIs("text", 0, fin.media, q)
  <2>1. fin' \in Endings /\ fin'.pc = fin.pc /\ fin'.text = fin.text /\ fin'.edit = 0 /\ fin'.media = fin.media /\ fin'.todo = q
    BY <1>2, EndFacts DEF Endings
  <2>2. QED BY <1>1, <2>1 DEF EndIs, EditFirst
<1>3. ASSUME NEW CONSTANT q \in Seq(ChunkRecords), fin' = [fin EXCEPT !.todo = q] PROVE EndIs("text", fin.edit, fin.media, q)
  <2>1. fin' \in Endings /\ fin'.pc = fin.pc /\ fin'.text = fin.text /\ fin'.edit = fin.edit /\ fin'.media = fin.media /\ fin'.todo = q
    BY <1>3, EndFacts DEF Endings
  <2>2. QED BY <1>1, <2>1 DEF EndIs, EditFirst
<1>4. ASSUME chat' = [chat EXCEPT !.shown = @ \o Head(fin.todo).pieces, !.statuses = @ \ {fin.edit}], Counts
      PROVE  Erases(fin.edit)
  <2>1. chat.shown \o Head(fin.todo).pieces \in Seq(Nat) /\ chat.statuses \ {fin.edit} \in SUBSET Nat
    BY EndFacts, TodoIs, PiecesAre DEF Chats
  <2>2. chat' \in Chats /\ chat'.statuses = chat.statuses \ {fin.edit} /\ chat'.preview = chat.preview
    BY <1>4, <2>1, EndFacts DEF Chats
  <2>3. QED BY <1>4, <2>2 DEF Erases
<1>5. CASE Fine /\ chat' = [chat EXCEPT !.shown = @ \o Head(fin.todo).pieces, !.statuses = @ \ {fin.edit}] /\ fin' = [fin EXCEPT !.edit = 0, !.todo = Rest]
  <2>1. Rest \in Seq(ChunkRecords)
    BY TodoIs
  <2>2. EndIs("text", 0, fin.media, Rest)
    BY <1>2, <1>5, <2>1
  <2>3. Counts
    BY <1>5, EndFacts DEF Counts, Fine
  <2>3a. Erases(fin.edit)
    BY <1>4, <1>5, <2>3
  <2>4. QED BY <1>1, <2>1, <2>2, <2>3a
<1>6. CASE Head(fin.todo).rich /\ Fine /\ UNCHANGED chat /\ fin' = [fin EXCEPT !.todo = Legacy(Head(fin.todo)) \o Rest]
  <2>1. ChatStays
    BY <1>6 DEF ChatStays, Fine
  <2>2. QED BY <1>1, <1>3, <1>6, <2>1, TodoIs
<1>7. CASE Fault /\ UNCHANGED <<chat, lost>> /\ fin' = [fin EXCEPT !.edit = 0, !.todo = Chunks]
  <2>1. CallFails
    BY <1>7 DEF CallFails, Fault
  <2>2. QED BY <1>1, <1>2, <1>7, <2>1, ChunksAre
<1>8. CASE Fault /\ lost' = lost + 1 /\ chat' = [chat EXCEPT !.shown = @ \o Head(fin.todo).pieces, !.statuses = @ \ {fin.edit}]
           /\ fin' = [fin EXCEPT !.edit = 0, !.todo = Chunks]
  <2>1. Counts
    BY <1>8, EndFacts DEF Counts, Fault
  <2>2. QED BY <1>1, <1>2, <1>4, <1>8, <2>1, ChunksAre
<1>9. QED BY <1>5, <1>6, <1>7, <1>8 DEF EditFirst

LEMMA ChunkIs ==
    ASSUME TgTyped, SendChunk
    PROVE  /\ fin.pc = "text" /\ Kept /\ HeldOn /\ fin.edit = 0 /\ fin.todo # <<>>
           /\ \E q \in Seq(ChunkRecords) :
                 /\ EndIs("text", 0, fin.media, q)
                 /\ Shows \/ CallFails \/ (q # <<>> /\ ChatStays)
<1>1. fin.pc = "text" /\ Kept /\ HeldOn /\ fin.edit = 0 /\ fin.todo # <<>>
    BY EndFacts DEF SendChunk, At, Kept, HeldOn
<1>2. ASSUME NEW CONSTANT q \in Seq(ChunkRecords), fin' = [fin EXCEPT !.todo = q] PROVE EndIs("text", 0, fin.media, q)
  <2>1. fin' \in Endings /\ fin'.pc = fin.pc /\ fin'.text = fin.text /\ fin'.edit = fin.edit /\ fin'.media = fin.media /\ fin'.todo = q
    BY <1>2, EndFacts DEF Endings
  <2>2. QED BY <1>1, <2>1 DEF EndIs, SendChunk
<1>3. PICK p \in Seq(Nat) : p = Head(fin.todo).pieces
    BY <1>1, TodoIs, PiecesAre
<1>4. CASE Fine /\ chat' = Show(Head(fin.todo).pieces) /\ fin' = [fin EXCEPT !.todo = Rest]
  <2>1. Counts /\ chat' = Show(p)
    BY <1>3, <1>4, EndFacts DEF Fine, Counts
  <2>2. Shows
    BY <1>3, <2>1, Showing
  <2>3. Rest \in Seq(ChunkRecords)
    BY <1>1, TodoIs
  <2>4. QED BY <1>1, <1>2, <1>4, <2>2, <2>3
<1>5. ASSUME Head(fin.todo).rich, fin' = [fin EXCEPT !.todo = Legacy(Head(fin.todo)) \o Rest], Shows \/ ChatStays
      PROVE  \E q \in Seq(ChunkRecords) : EndIs("text", 0, fin.media, q) /\ (Shows \/ CallFails \/ (q # <<>> /\ ChatStays))
  <2>1. Legacy(Head(fin.todo)) \o Rest \in Seq(ChunkRecords) /\ Legacy(Head(fin.todo)) \o Rest # <<>>
    BY <1>1, <1>5, TodoIs
  <2>2. EndIs("text", 0, fin.media, Legacy(Head(fin.todo)) \o Rest)
    BY <1>2, <1>5, <2>1
  <2>3. QED BY <1>5, <2>1, <2>2
<1>5a. CASE Head(fin.todo).rich /\ Fine /\ UNCHANGED chat /\ fin' = [fin EXCEPT !.todo = Legacy(Head(fin.todo)) \o Rest]
  <2>1. ChatStays
    BY <1>5a DEF ChatStays, Fine
  <2>2. QED BY <1>1, <1>5, <1>5a, <2>1
<1>5b. CASE Head(fin.todo).rich /\ Fault /\ lost' = lost + 1 /\ chat' = Show(Head(fin.todo).pieces)
            /\ fin' = [fin EXCEPT !.todo = Legacy(Head(fin.todo)) \o Rest]
  <2>1. Counts /\ chat' = Show(p)
    BY <1>3, <1>5b, EndFacts DEF Fault, Counts
  <2>2. Shows
    BY <1>3, <2>1, Showing
  <2>3. QED BY <1>1, <1>5, <1>5b, <2>2
<1>6. CASE ~Head(fin.todo).rich /\ Fault /\ UNCHANGED <<chat, lost>> /\ fin' = GiveUpText
  <2>1. CallFails
    BY <1>6 DEF CallFails, Fault
  <2>2. fin' = [fin EXCEPT !.todo = <<>>] /\ <<>> \in Seq(ChunkRecords)
    BY <1>6 DEF GiveUpText
  <2>3. EndIs("text", 0, fin.media, <<>>)
    BY <1>2, <2>2
  <2>4. QED BY <1>1, <2>1, <2>2, <2>3
<1>7. \/ Fine /\ chat' = Show(Head(fin.todo).pieces) /\ fin' = [fin EXCEPT !.todo = Rest]
      \/ Head(fin.todo).rich /\ Fine /\ UNCHANGED chat /\ fin' = [fin EXCEPT !.todo = Legacy(Head(fin.todo)) \o Rest]
      \/ Head(fin.todo).rich /\ Fault /\ lost' = lost + 1 /\ chat' = Show(Head(fin.todo).pieces)
         /\ fin' = [fin EXCEPT !.todo = Legacy(Head(fin.todo)) \o Rest]
      \/ ~Head(fin.todo).rich /\ Fault /\ UNCHANGED <<chat, lost>> /\ fin' = GiveUpText
    BY Zenon DEF SendChunk
<1>8. QED BY Zenon, <1>4, <1>5a, <1>5b, <1>6, <1>7

LEMMA MediaSent ==
    ASSUME TgTyped, SendMedia
    PROVE  /\ fin.pc = "media" /\ Kept /\ HeldOn /\ fin.media > 0
           /\ EndIs("media", fin.edit, fin.media - 1, fin.todo) /\ (Shows \/ CallFails)
<1>1. fin.pc = "media" /\ Kept /\ HeldOn /\ fin.media > 0 /\ fin.media - 1 \in Nat /\ fin.sentMedia + 1 \in Nat
    BY EndFacts DEF SendMedia, At, Kept, HeldOn, Endings
<1>2. fin' = [fin EXCEPT !.media = @ - 1] \/ fin' = [fin EXCEPT !.media = @ - 1, !.sentMedia = @ + 1]
    BY DEF SendMedia, Lossy, Call
<1>3. fin' \in Endings /\ fin'.pc = fin.pc /\ fin'.text = fin.text /\ fin'.edit = fin.edit /\ fin'.media = fin.media - 1 /\ fin'.todo = fin.todo
    BY <1>1, <1>2, EndFacts DEF Endings
<1>4. EndIs("media", fin.edit, fin.media - 1, fin.todo)
    BY <1>1, <1>3 DEF EndIs, SendMedia
<1>5. Media \in Seq(Nat)
    BY PiecesAre
<1>6. CASE chat' = Show(Media) /\ Fine
  <2>1. Counts
    BY <1>6, EndFacts DEF Fine, Counts
  <2>2. QED BY <1>5, <1>6, <2>1, Showing, <1>1, <1>4
<1>7. CASE chat' = Show(Media) /\ Fault /\ lost' = lost + 1
  <2>1. Counts
    BY <1>7, EndFacts DEF Fault, Counts
  <2>2. QED BY <1>5, <1>7, <2>1, Showing, <1>1, <1>4
<1>8. CASE UNCHANGED chat /\ Fault /\ UNCHANGED lost
  <2>1. CallFails
    BY <1>8 DEF CallFails, Fault
  <2>2. QED BY <1>1, <1>4, <2>1
<1>9. QED BY <1>6, <1>7, <1>8 DEF SendMedia, Lossy, Call

LEMMA OverIs ==
    ASSUME TgTyped, TextOver \/ MediaOver
    PROVE  /\ Kept /\ HeldOn /\ ChatStays
           /\ \/ /\ fin.pc = "text" /\ fin.todo = <<>>
                 /\ \/ fin.media > 0 /\ EndIs("media", fin.edit, fin.media, fin.todo)
                    \/ EndIs("unlock", fin.edit, fin.media, fin.todo)
              \/ /\ fin.pc = "media" /\ fin.media = 0
                 /\ EndIs("excuse", fin.edit, fin.media, fin.todo) \/ EndIs("unlock", fin.edit, fin.media, fin.todo)
<1>1. "media" \in Pcs /\ "unlock" \in Pcs /\ "excuse" \in Pcs
    BY DEF Pcs, EndSteps
<1>2. Kept /\ HeldOn /\ ChatStays /\ UNCHANGED <<status, cbs, nEvents>>
    BY EndFacts DEF TextOver, MediaOver, Kept, HeldOn, ChatStays
<1>3. CASE TextOver
  <2>1. fin.pc = "text" /\ fin.todo = <<>> /\ ((fin.media > 0 /\ To("media")) \/ To("unlock"))
    BY <1>3 DEF TextOver, At, AfterText
  <2>2. QED BY <1>1, <1>2, <2>1, ToIs
<1>4. CASE MediaOver
  <2>1. fin.pc = "media" /\ fin.media = 0 /\ (To("excuse") \/ To("unlock"))
    BY <1>4 DEF MediaOver, At
  <2>2. QED BY <1>1, <1>2, <2>1, ToIs
<1>5. QED BY <1>3, <1>4

LEMMA LastIs ==
    ASSUME TgTyped, Excuse \/ Unlock
    PROVE  \/ /\ fin.pc = "excuse" /\ Kept /\ HeldOn /\ EndIs("unlock", fin.edit, fin.media, fin.todo)
              /\ Shows \/ CallFails
           \/ /\ fin.pc = "unlock" /\ Kept /\ tg'.op = "free" /\ EndIs("done", fin.edit, fin.media, fin.todo) /\ ChatStays
<1>1. "unlock" \in Pcs /\ "done" \in Pcs
    BY DEF Pcs, EndSteps
<1>2. CASE Excuse
  <2>1. fin.pc = "excuse" /\ Kept /\ HeldOn /\ To("unlock") /\ UNCHANGED <<status, cbs, nEvents>>
    BY <1>2, EndFacts DEF Excuse, At, Kept, HeldOn
  <2>2. Shows \/ CallFails
    <3>1. CASE Fine /\ chat' = Show(<<9>>)
      <4>1. Counts
        BY <3>1, EndFacts DEF Fine, Counts
      <4>2. QED BY <3>1, <4>1, PiecesAre, Showing
    <3>2. CASE Fault /\ UNCHANGED lost /\ UNCHANGED chat
      BY <3>2 DEF Fault, CallFails
    <3>3. QED BY <1>2, <3>1, <3>2 DEF Excuse, Call
  <2>3. QED BY <1>1, <2>1, <2>2, ToIs
<1>3. CASE Unlock
  <2>1. fin.pc = "unlock" /\ To("done") /\ UNCHANGED <<status, cbs, nEvents>> /\ ChatStays /\ UNCHANGED <<draft, timers>>
    BY <1>3 DEF Unlock, At, ChatStays
  <2>2. tg' = [tg EXCEPT !.op = "free"] /\ "free" \in Ops
    BY <1>3 DEF Unlock, Ops
  <2>3. tg' \in TgSessions /\ tg'.op = "free" /\ tg'.finished = tg.finished
    BY <2>2, EndFacts, HolderSteps
  <2>4. QED BY <1>1, <2>1, <2>3, ToIs DEF Kept
<1>4. QED BY <1>2, <1>3

-----------------------------------------------------------------------------
(* The end of the session keeps the invariant. *)

LEMMA EndKeeps ==
    ASSUME TgInv, NEW CONSTANT pc \in EndSteps, NEW CONSTANT e, NEW CONSTANT m, NEW CONSTANT q,
           EndIs(pc, e, m, q), Kept, HeldOn, fin.pc \in EndSteps, chat' \in Chats, tfaults' \in Nat, lost' \in Nat
    PROVE  TgTyped' /\ TgLocked' /\ TgPreviewed' /\ \A k \in Senders : cbs'[k] \in {"send", "sent"} => status'.id = 0
<1>1. TgTyped'
    BY DEF TgInv, TgTyped, EndIs, Kept
<1>2. tg.finished /\ pc # "done" /\ pc # "run" /\ pc # "lock"
    BY DEF TgInv, TgLocked, EndSteps
<1>3. TgLocked'
    BY <1>2 DEF TgInv, TgLocked, EndIs, Kept, HeldOn
<1>4. TgPreviewed'
    BY <1>2 DEF TgInv, TgPreviewed, PreviewIsArmed, EndIs, Kept
<1>5. QED BY <1>1, <1>3, <1>4 DEF TgInv, TgAims, EndIs

LEMMA LeftShrinks ==
    ASSUME TgCounted, chat'.statuses \subseteq chat.statuses, Left' \subseteq Left
    PROVE  /\ IsFiniteSet(chat'.statuses) /\ 0 \notin chat'.statuses
           /\ Cardinality(Left) \in Nat /\ Cardinality(Left') \in Nat /\ Cardinality(Left') <= Cardinality(Left)
<1>1. IsFiniteSet(chat.statuses) /\ Left \subseteq chat.statuses
    BY DEF TgCounted, Left
<1>2. IsFiniteSet(Left) /\ IsFiniteSet(chat'.statuses)
    BY <1>1, FS_Subset
<1>3. IsFiniteSet(Left') /\ Cardinality(Left') <= Cardinality(Left)
    BY <1>2, FS_Subset
<1>4. QED BY <1>2, <1>3, FS_CardinalityType DEF TgCounted

LEMMA LeftGrows ==
    ASSUME TgCounted, chat'.statuses \subseteq chat.statuses, NEW CONSTANT e, Left' \subseteq Left \cup {e}
    PROVE  /\ IsFiniteSet(chat'.statuses) /\ 0 \notin chat'.statuses
           /\ Cardinality(Left) \in Nat /\ Cardinality(Left') \in Nat /\ Cardinality(Left') <= Cardinality(Left) + 1
<1>1. IsFiniteSet(chat.statuses) /\ Left \subseteq chat.statuses
    BY DEF TgCounted, Left
<1>2. IsFiniteSet(Left) /\ IsFiniteSet(chat'.statuses)
    BY <1>1, FS_Subset
<1>3. Cardinality(Left) \in Nat
    BY <1>2, FS_CardinalityType
<1>7. /\ IsFiniteSet(Left \cup {e})
      /\ Cardinality(Left \cup {e}) = (IF e \in Left THEN Cardinality(Left) ELSE Cardinality(Left) + 1)
    BY <1>2, FS_AddElement
<1>8. Cardinality(Left \cup {e}) <= Cardinality(Left) + 1
    BY <1>3, <1>7
<1>4. IsFiniteSet(Left') /\ Cardinality(Left') <= Cardinality(Left \cup {e})
    BY <1>7, FS_Subset
<1>5. Cardinality(Left') \in Nat /\ Cardinality(Left \cup {e}) \in Nat
    BY <1>7, <1>4, FS_CardinalityType
<1>6. QED BY <1>2, <1>3, <1>4, <1>5, <1>8 DEF TgCounted

\* The two ways in which the account is kept: nothing more is owed, or one more and a call has failed.
LEMMA SameOwed ==
    ASSUME TgInv, chat'.statuses \subseteq chat.statuses, Left' \subseteq Left, tfaults' \in Nat, tfaults' >= tfaults,
           chat'.preview /\ GivenUp' => chat.preview /\ GivenUp
    PROVE  TgCounted'
<1>1. Owed' <= Owed /\ Owed \in Nat /\ Owed' \in Nat
    BY DEF Owed
<1>2. Cardinality(Left) + Owed <= tfaults /\ tfaults \in Nat
    BY DEF TgInv, TgCounted, TgTyped
<1>3. /\ IsFiniteSet(chat'.statuses) /\ 0 \notin chat'.statuses
      /\ Cardinality(Left) \in Nat /\ Cardinality(Left') \in Nat /\ Cardinality(Left') <= Cardinality(Left)
    BY LeftShrinks DEF TgInv
<1>4. Cardinality(Left') + Owed' <= tfaults'
    BY <1>1, <1>2, <1>3
<1>5. QED BY <1>3, <1>4 DEF TgCounted

LEMMA OneOwed ==
    ASSUME TgInv, chat'.statuses \subseteq chat.statuses, tfaults' = tfaults + 1,
           \/ Left' \subseteq Left
           \/ (\E e : Left' \subseteq Left \cup {e}) /\ (chat'.preview /\ GivenUp' => chat.preview /\ GivenUp)
    PROVE  TgCounted'
<1>1. Owed \in {0, 1} /\ Owed' \in {0, 1}
    BY DEF Owed
<1>2. Cardinality(Left) + Owed <= tfaults /\ tfaults \in Nat
    BY DEF TgInv, TgCounted, TgTyped
<1>3. CASE Left' \subseteq Left
  <2>1. /\ IsFiniteSet(chat'.statuses) /\ 0 \notin chat'.statuses
        /\ Cardinality(Left) \in Nat /\ Cardinality(Left') \in Nat /\ Cardinality(Left') <= Cardinality(Left)
    BY <1>3, LeftShrinks DEF TgInv
  <2>2. Cardinality(Left') + Owed' <= tfaults'
    BY <1>1, <1>2, <2>1
  <2>3. QED BY <2>1, <2>2 DEF TgCounted
<1>4. ASSUME NEW CONSTANT e, Left' \subseteq Left \cup {e}, chat'.preview /\ GivenUp' => chat.preview /\ GivenUp
      PROVE  TgCounted'
  <2>1. /\ IsFiniteSet(chat'.statuses) /\ 0 \notin chat'.statuses
        /\ Cardinality(Left) \in Nat /\ Cardinality(Left') \in Nat /\ Cardinality(Left') <= Cardinality(Left) + 1
    BY <1>4, LeftGrows DEF TgInv
  <2>2. Owed' <= Owed
    BY <1>4 DEF Owed
  <2>3. Cardinality(Left') + Owed' <= tfaults'
    BY <1>1, <1>2, <2>1, <2>2
  <2>4. QED BY <2>1, <2>3 DEF TgCounted
<1>5. QED BY <1>3, <1>4

LEMMA CallIs ==
    ASSUME TgTyped
    PROVE  /\ ChatStays => chat' \in Chats /\ tfaults' \in Nat /\ lost' \in Nat /\ chat' = chat /\ tfaults' >= tfaults
           /\ CallFails => chat' \in Chats /\ tfaults' \in Nat /\ lost' \in Nat /\ chat' = chat
           /\ Shows => chat' \in Chats /\ tfaults' \in Nat /\ lost' \in Nat /\ tfaults' >= tfaults
           /\ \A e : Erases(e) => chat' \in Chats /\ tfaults' \in Nat /\ lost' \in Nat /\ tfaults' >= tfaults
BY EndFacts DEF ChatStays, CallFails, Shows, Erases, Counts

(* The account after each outcome of a call. *)
LEMMA Erased ==
    ASSUME TgInv, NEW CONSTANT id, Erases(id), Left' \subseteq Left, GivenUp' => GivenUp
    PROVE  TgCounted' /\ chat' \in Chats /\ tfaults' \in Nat /\ lost' \in Nat
<1>1. /\ chat'.statuses \subseteq chat.statuses /\ chat'.preview = chat.preview /\ tfaults' >= tfaults
      /\ chat' \in Chats /\ tfaults' \in Nat /\ lost' \in Nat
    BY DEF Erases, Counts
<1>2. QED BY <1>1, SameOwed

LEMMA Shown ==
    ASSUME TgInv, Shows, Left' \subseteq Left
    PROVE  TgCounted' /\ chat' \in Chats /\ tfaults' \in Nat /\ lost' \in Nat
<1>1. /\ chat'.statuses \subseteq chat.statuses /\ ~chat'.preview /\ tfaults' >= tfaults
      /\ chat' \in Chats /\ tfaults' \in Nat /\ lost' \in Nat
    BY DEF Shows, Counts
<1>2. QED BY <1>1, SameOwed

LEMMA Stayed ==
    ASSUME TgInv, ChatStays, Left' \subseteq Left, GivenUp' => GivenUp
    PROVE  TgCounted' /\ chat' \in Chats /\ tfaults' \in Nat /\ lost' \in Nat
<1>1. TgTyped
    BY DEF TgInv
<1>2. chat' = chat /\ tfaults' >= tfaults /\ chat' \in Chats /\ tfaults' \in Nat /\ lost' \in Nat
    BY <1>1, CallIs
<1>3. chat'.statuses \subseteq chat.statuses /\ (chat'.preview /\ GivenUp' => chat.preview /\ GivenUp)
    BY <1>2
<1>4. QED BY <1>2, <1>3, SameOwed

LEMMA Failed ==
    ASSUME TgInv, CallFails,
           Left' \subseteq Left \/ ((\E e : Left' \subseteq Left \cup {e}) /\ (GivenUp' => GivenUp))
    PROVE  TgCounted' /\ chat' \in Chats /\ tfaults' \in Nat /\ lost' \in Nat
<1>1. TgTyped
    BY DEF TgInv
<1>2. chat' = chat /\ tfaults' = tfaults + 1 /\ chat' \in Chats /\ tfaults' \in Nat /\ lost' \in Nat
    BY <1>1, CallIs DEF CallFails
<1>3. chat'.statuses \subseteq chat.statuses
    BY <1>2
<1>4. \/ Left' \subseteq Left
      \/ (\E e : Left' \subseteq Left \cup {e}) /\ (chat'.preview /\ GivenUp' => chat.preview /\ GivenUp)
    BY <1>2
<1>5. QED BY <1>2, <1>3, <1>4, OneOwed

LEMMA NextLeft ==
    /\ fin'.pc \in {"clean", "stopped", "answer", "text"} => Left' = chat'.statuses \ {fin'.edit}
    /\ fin'.pc \in {"media", "excuse", "unlock", "done"} => Left' = chat'.statuses
BY DEF Left, Known

LEMMA NowLeft ==
    ASSUME TgCounted
    PROVE  /\ fin.pc \in {"clean", "stopped", "answer", "text"} => Left = chat.statuses \ {fin.edit}
           /\ fin.pc \in {"media", "excuse", "unlock", "done"} => Left = chat.statuses
           /\ fin.pc \in {"clean", "stopped", "answer", "text"} /\ fin.edit = 0 => Left = chat.statuses
BY DEF Left, Known, TgCounted

\* A step of the end that keeps the account keeps the invariant.
LEMMA EndStep ==
    ASSUME TgInv, NEW CONSTANT pc \in EndSteps, NEW CONSTANT e, NEW CONSTANT m, NEW CONSTANT q,
           EndIs(pc, e, m, q), Kept, HeldOn, fin.pc \in EndSteps, chat' \in Chats, tfaults' \in Nat, lost' \in Nat,
           TgCounted',
           pc \in {"clean", "answer"} => fin.text \/ m > 0,
           pc = "text" /\ e # 0 => q # <<>>,
           pc \in {"answer", "text", "stopped"} /\ draft.sent => e = 0
    PROVE  TgInv'
<1>1. TgTyped' /\ TgLocked' /\ TgPreviewed' /\ \A k \in Senders : cbs'[k] \in {"send", "sent"} => status'.id = 0
    BY EndKeeps
<1>2. fin'.pc = pc /\ fin'.text = fin.text /\ fin'.edit = e /\ fin'.media = m /\ fin'.todo = q /\ draft' = draft
    BY DEF EndIs, Kept
<1>3. pc # "lock"
    BY DEF EndSteps
<1>4. TgAims'
    BY <1>1, <1>2, <1>3 DEF TgAims
<1>5. QED BY <1>1, <1>4 DEF TgInv

LEMMA CleanKeeps == ASSUME TgInv, Clean PROVE TgInv'
<1>1. TgTyped /\ TgCounted /\ TgAims
    BY DEF TgInv
<1>2. /\ fin.pc = "clean" /\ Kept /\ HeldOn
      /\ \E pc \in {"stopped", "answer"} : EndIs(pc, IF draft.sent THEN 0 ELSE fin.edit, fin.media, fin.todo)
      /\ IF draft.sent /\ fin.edit # 0 THEN Erases(fin.edit) \/ CallFails ELSE ChatStays
    BY <1>1, CleanIs
<1>3. PICK pc \in {"stopped", "answer"} : EndIs(pc, IF draft.sent THEN 0 ELSE fin.edit, fin.media, fin.todo)
    BY <1>2
<1>4. PICK e : e = IF draft.sent THEN 0 ELSE fin.edit
    OBVIOUS
<1>5. PICK m : m = fin.media
    OBVIOUS
<1>6. PICK q : q = fin.todo
    OBVIOUS
<1>7. EndIs(pc, e, m, q)
    BY <1>3, <1>4, <1>5, <1>6
<1>8. fin'.pc = pc /\ fin'.edit = e /\ draft' = draft
    BY <1>2, <1>7 DEF EndIs, Kept
<1>9. Left = chat.statuses \ {fin.edit} /\ Left' = chat'.statuses \ {e}
    BY <1>1, <1>2, <1>3, <1>8, NowLeft, NextLeft
<1>10. GivenUp' => GivenUp
    BY <1>2, <1>3, <1>8 DEF GivenUp
<1>11. 0 \notin chat.statuses /\ fin.edit \in Nat
    BY <1>1, EndFacts DEF TgCounted
<1>12. TgCounted' /\ chat' \in Chats /\ tfaults' \in Nat /\ lost' \in Nat
  <2>1. CASE Erases(fin.edit)
    <3>1. Left' \subseteq Left
      BY <1>9, <2>1 DEF Erases
    <3>2. QED BY <1>10, <1>11, <2>1, <3>1, Erased
  <2>2. CASE CallFails
    <3>1. Left' \subseteq Left \cup {fin.edit}
      BY <1>9, <2>2 DEF CallFails
    <3>2. QED BY <1>10, <2>2, <3>1, Failed
  <2>3. CASE ChatStays /\ ~(draft.sent /\ fin.edit # 0)
    <3>1. Left' \subseteq Left
      BY <1>4, <1>9, <2>3 DEF ChatStays
    <3>2. QED BY <1>10, <2>3, <3>1, Stayed
  <2>4. QED BY <1>2, <2>1, <2>2, <2>3
<1>13. pc \in EndSteps /\ fin.pc \in EndSteps /\ pc # "clean" /\ pc # "text"
    BY <1>2, <1>3 DEF EndSteps
<1>14. fin.text \/ m > 0
    BY <1>1, <1>2, <1>5 DEF TgAims
<1>15. draft.sent => e = 0
    BY <1>4
<1>16. QED BY <1>2, <1>7, <1>12, <1>13, <1>14, <1>15, EndStep

LEMMA StoppedKeeps == ASSUME TgInv, Stopped PROVE TgInv'
<1>1. TgTyped /\ TgCounted /\ TgAims
    BY DEF TgInv
<1>2. /\ fin.pc = "stopped" /\ Kept /\ HeldOn /\ EndIs("unlock", fin.edit, fin.media, fin.todo)
      /\ \/ fin.edit # 0 /\ (Erases(fin.edit) \/ CallFails)
         \/ fin.edit = 0 /\ draft.sent /\ (Shows \/ CallFails)
         \/ fin.edit = 0 /\ ~draft.sent /\ ChatStays
    BY <1>1, StoppedIs
<1>3. fin'.pc = "unlock"
    BY <1>2 DEF EndIs
<1>4. Left = chat.statuses \ {fin.edit} /\ Left' = chat'.statuses /\ (fin.edit = 0 => Left = chat.statuses)
    BY <1>1, <1>2, <1>3, NowLeft, NextLeft
<1>5. ~draft.sent => GivenUp
    BY DEF GivenUp
<1>6. fin.edit # 0 => ~draft.sent
    BY <1>1, <1>2 DEF TgAims
<1>7. TgCounted' /\ chat' \in Chats /\ tfaults' \in Nat /\ lost' \in Nat
  <2>1. CASE fin.edit # 0 /\ Erases(fin.edit)
    <3>1. Left' \subseteq Left
      BY <1>4, <2>1 DEF Erases
    <3>2. QED BY <1>5, <1>6, <2>1, <3>1, Erased
  <2>2. CASE fin.edit # 0 /\ CallFails
    <3>1. Left' \subseteq Left \cup {fin.edit}
      BY <1>4, <2>2 DEF CallFails
    <3>2. QED BY <1>5, <1>6, <2>2, <3>1, Failed
  <2>3. CASE fin.edit = 0 /\ Shows
    <3>1. Left' \subseteq Left
      BY <1>4, <2>3 DEF Shows
    <3>2. QED BY <2>3, <3>1, Shown
  <2>4. CASE fin.edit = 0 /\ CallFails
    <3>1. Left' \subseteq Left
      BY <1>4, <2>4 DEF CallFails
    <3>2. QED BY <2>4, <3>1, Failed
  <2>5. CASE fin.edit = 0 /\ ~draft.sent /\ ChatStays
    <3>1. Left' \subseteq Left
      BY <1>4, <2>5 DEF ChatStays
    <3>2. QED BY <1>5, <2>5, <3>1, Stayed
  <2>6. QED BY <1>2, <2>1, <2>2, <2>3, <2>4, <2>5
<1>8. "unlock" \in EndSteps /\ fin.pc \in EndSteps
    BY <1>2 DEF EndSteps
<1>9. QED BY <1>2, <1>7, <1>8, EndStep

LEMMA CaptionKeeps == ASSUME TgInv, Caption PROVE TgInv'
<1>1. TgTyped /\ TgCounted /\ TgAims
    BY DEF TgInv
<1>2. /\ fin.pc = "answer" /\ Kept /\ HeldOn /\ fin.edit = 0
      /\ \/ Shows /\ EndIs("unlock", fin.edit, fin.media, fin.todo)
         \/ /\ Shows \/ CallFails
            /\ EndIs("text", fin.edit, 0, Chunks) \/ EndIs("excuse", fin.edit, 0, Chunks)
    BY <1>1, CaptionIs
<1>3. Left = chat.statuses /\ fin.pc \in EndSteps
    BY <1>1, <1>2, NowLeft DEF EndSteps
<1>4. ASSUME NEW CONSTANT pc \in {"text", "excuse", "unlock"}, NEW CONSTANT m, NEW CONSTANT q,
             EndIs(pc, fin.edit, m, q), Shows \/ CallFails
      PROVE  TgInv'
  <2>1. fin'.pc = pc /\ fin'.edit = 0
    BY <1>2, <1>4 DEF EndIs
  <2>2. Left' \subseteq chat'.statuses
    BY <2>1, NextLeft
  <2>3. TgCounted' /\ chat' \in Chats /\ tfaults' \in Nat /\ lost' \in Nat
    <3>1. CASE Shows
      BY <1>3, <2>2, <3>1, Shown DEF Shows
    <3>2. CASE CallFails
      BY <1>3, <2>2, <3>2, Failed DEF CallFails
    <3>3. QED BY <1>4, <3>1, <3>2
  <2>4. pc \in EndSteps /\ pc # "clean" /\ pc # "answer"
    BY <1>4 DEF EndSteps
  <2>5. QED BY <1>2, <1>3, <1>4, <2>3, <2>4, EndStep
<1>5. QED BY <1>2, <1>4

LEMMA AnswerKeeps == ASSUME TgInv, Answer PROVE TgInv'
<1>1. TgTyped /\ TgCounted /\ TgAims
    BY DEF TgInv
<1>2. /\ fin.pc = "answer" /\ Kept /\ HeldOn
      /\ \/ fin.text /\ EndIs("text", fin.edit, fin.media, Chunks) /\ ChatStays
         \/ /\ ~fin.text /\ EndIs("media", fin.edit, fin.media, fin.todo)
            /\ IF fin.edit # 0 THEN Erases(fin.edit) \/ CallFails ELSE ChatStays
    BY <1>1, AnswerIs
<1>3. /\ Left = chat.statuses \ {fin.edit} /\ (fin.edit = 0 => Left = chat.statuses)
      /\ fin.pc \in EndSteps /\ "text" \in EndSteps /\ "media" \in EndSteps
    BY <1>1, <1>2, NowLeft DEF EndSteps
<1>4. (draft.sent => fin.edit = 0) /\ (~fin.text => fin.media > 0) /\ (~draft.sent => GivenUp)
    BY <1>1, <1>2 DEF TgAims, GivenUp
<1>5. CASE fin.text /\ EndIs("text", fin.edit, fin.media, Chunks) /\ ChatStays
  <2>1. fin'.pc = "text" /\ fin'.edit = fin.edit /\ fin'.todo = Chunks /\ draft' = draft
    BY <1>2, <1>5 DEF EndIs, Kept
  <2>2. GivenUp' => ~draft.sent
    BY <2>1, ChunksAre DEF GivenUp
  <2>3. Left' = chat'.statuses \ {fin.edit}
    BY <2>1, NextLeft
  <2>4. Left' \subseteq Left
    BY <1>3, <1>5, <2>3 DEF ChatStays
  <2>5. TgCounted' /\ chat' \in Chats /\ tfaults' \in Nat /\ lost' \in Nat
    BY <1>4, <1>5, <2>2, <2>4, Stayed
  <2>6. PICK q : q = Chunks
    OBVIOUS
  <2>7. EndIs("text", fin.edit, fin.media, q) /\ q # <<>>
    BY <1>5, <2>6, ChunksAre
  <2>8. QED BY <1>2, <1>3, <1>4, <2>5, <2>7, EndStep
<1>6. CASE ~fin.text /\ EndIs("media", fin.edit, fin.media, fin.todo)
           /\ (IF fin.edit # 0 THEN Erases(fin.edit) \/ CallFails ELSE ChatStays)
  <2>1. fin'.pc = "media" /\ fin'.text = fin.text /\ fin'.media = fin.media /\ draft' = draft
    BY <1>2, <1>6 DEF EndIs, Kept
  <2>2. GivenUp' => GivenUp
    BY <1>1, <1>4, <1>6, <2>1, EndFacts DEF GivenUp
  <2>3. Left' = chat'.statuses
    BY <2>1, NextLeft
  <2>4. TgCounted' /\ chat' \in Chats /\ tfaults' \in Nat /\ lost' \in Nat
    <3>1. CASE fin.edit # 0 /\ Erases(fin.edit)
      <4>1. Left' \subseteq Left
        BY <1>3, <2>3, <3>1 DEF Erases
      <4>2. QED BY <2>2, <3>1, <4>1, Erased
    <3>2. CASE CallFails
      <4>1. Left' \subseteq Left \cup {fin.edit}
        BY <1>3, <2>3, <3>2 DEF CallFails
      <4>2. QED BY <2>2, <3>2, <4>1, Failed
    <3>3. CASE fin.edit = 0 /\ ChatStays
      <4>1. Left' \subseteq Left
        BY <1>3, <2>3, <3>3 DEF ChatStays
      <4>2. QED BY <2>2, <3>3, <4>1, Stayed
    <3>4. QED BY <1>6, <3>1, <3>2, <3>3
  <2>5. QED BY <1>2, <1>3, <1>6, <2>4, EndStep
<1>7. QED BY <1>2, <1>5, <1>6

LEMMA EditKeeps == ASSUME TgInv, EditFirst PROVE TgInv'
<1>1. TgTyped /\ TgCounted /\ TgAims
    BY DEF TgInv
<1>2. fin.pc = "text" /\ fin.edit # 0
    BY DEF EditFirst, At
<1>3. fin.todo # <<>> /\ ~draft.sent
    BY <1>1, <1>2 DEF TgAims
<1>4. /\ Kept /\ HeldOn
      /\ \E q \in Seq(ChunkRecords) :
            \/ Erases(fin.edit) /\ EndIs("text", 0, fin.media, q)
            \/ q # <<>> /\ ChatStays /\ EndIs("text", fin.edit, fin.media, q)
            \/ q # <<>> /\ CallFails /\ EndIs("text", 0, fin.media, q)
    BY <1>1, <1>3, EditingIs
<1>5. PICK q \in Seq(ChunkRecords) :
            \/ Erases(fin.edit) /\ EndIs("text", 0, fin.media, q)
            \/ q # <<>> /\ ChatStays /\ EndIs("text", fin.edit, fin.media, q)
            \/ q # <<>> /\ CallFails /\ EndIs("text", 0, fin.media, q)
    BY <1>4
<1>6. Left = chat.statuses \ {fin.edit} /\ GivenUp /\ fin.pc \in EndSteps /\ "text" \in EndSteps
    BY <1>1, <1>2, <1>3, NowLeft DEF GivenUp, EndSteps
<1>7. CASE Erases(fin.edit) /\ EndIs("text", 0, fin.media, q)
  <2>1. Left' = chat'.statuses \ {0}
    BY <1>7, NextLeft DEF EndIs
  <2>2. Left' \subseteq Left
    BY <1>6, <1>7, <2>1 DEF Erases
  <2>3. TgCounted' /\ chat' \in Chats /\ tfaults' \in Nat /\ lost' \in Nat
    BY <1>6, <1>7, <2>2, Erased
  <2>4. QED BY <1>3, <1>4, <1>6, <1>7, <2>3, EndStep
<1>8. CASE q # <<>> /\ ChatStays /\ EndIs("text", fin.edit, fin.media, q)
  <2>1. Left' = chat'.statuses \ {fin.edit}
    BY <1>8, NextLeft DEF EndIs
  <2>2. Left' \subseteq Left
    BY <1>6, <1>8, <2>1 DEF ChatStays
  <2>3. TgCounted' /\ chat' \in Chats /\ tfaults' \in Nat /\ lost' \in Nat
    BY <1>6, <1>8, <2>2, Stayed
  <2>4. QED BY <1>3, <1>4, <1>6, <1>8, <2>3, EndStep
<1>9. CASE q # <<>> /\ CallFails /\ EndIs("text", 0, fin.media, q)
  <2>1. Left' = chat'.statuses \ {0}
    BY <1>9, NextLeft DEF EndIs
  <2>2. Left' \subseteq Left \cup {fin.edit}
    BY <1>6, <1>9, <2>1 DEF CallFails
  <2>3. TgCounted' /\ chat' \in Chats /\ tfaults' \in Nat /\ lost' \in Nat
    BY <1>6, <1>9, <2>2, Failed
  <2>4. QED BY <1>3, <1>4, <1>6, <1>9, <2>3, EndStep
<1>10. QED BY <1>5, <1>7, <1>8, <1>9

LEMMA ChunkKeeps == ASSUME TgInv, SendChunk PROVE TgInv'
<1>1. TgTyped /\ TgCounted /\ TgAims
    BY DEF TgInv
<1>2. /\ fin.pc = "text" /\ Kept /\ HeldOn /\ fin.edit = 0 /\ fin.todo # <<>>
      /\ \E q \in Seq(ChunkRecords) :
            /\ EndIs("text", 0, fin.media, q)
            /\ Shows \/ CallFails \/ (q # <<>> /\ ChatStays)
    BY <1>1, ChunkIs
<1>3. PICK q \in Seq(ChunkRecords) :
            /\ EndIs("text", 0, fin.media, q)
            /\ Shows \/ CallFails \/ (q # <<>> /\ ChatStays)
    BY <1>2
<1>4. Left = chat.statuses /\ fin.pc \in EndSteps /\ "text" \in EndSteps
    BY <1>1, <1>2, NowLeft DEF EndSteps
<1>5. fin'.pc = "text" /\ fin'.edit = 0 /\ fin'.todo = q /\ draft' = draft
    BY <1>2, <1>3 DEF EndIs, Kept
<1>6. Left' \subseteq chat'.statuses
    BY <1>5, NextLeft
<1>7. TgCounted' /\ chat' \in Chats /\ tfaults' \in Nat /\ lost' \in Nat
  <2>1. CASE Shows
    BY <1>4, <1>6, <2>1, Shown DEF Shows
  <2>2. CASE CallFails
    BY <1>4, <1>6, <2>2, Failed DEF CallFails
  <2>3. CASE q # <<>> /\ ChatStays
    <3>1. GivenUp' => GivenUp
      BY <1>5, <2>3 DEF GivenUp
    <3>2. Left' \subseteq Left
      BY <1>4, <1>6, <2>3 DEF ChatStays
    <3>3. QED BY <2>3, <3>1, <3>2, Stayed
  <2>4. QED BY <1>3, <2>1, <2>2, <2>3
<1>8. QED BY <1>2, <1>3, <1>4, <1>7, EndStep

LEMMA OverKeeps == ASSUME TgInv, TextOver \/ MediaOver PROVE TgInv'
<1>1. TgTyped /\ TgCounted /\ TgAims
    BY DEF TgInv
<1>2. /\ Kept /\ HeldOn /\ ChatStays
      /\ \/ /\ fin.pc = "text" /\ fin.todo = <<>>
            /\ \/ fin.media > 0 /\ EndIs("media", fin.edit, fin.media, fin.todo)
               \/ EndIs("unlock", fin.edit, fin.media, fin.todo)
         \/ /\ fin.pc = "media" /\ fin.media = 0
            /\ EndIs("excuse", fin.edit, fin.media, fin.todo) \/ EndIs("unlock", fin.edit, fin.media, fin.todo)
    BY <1>1, OverIs
<1>3. GivenUp /\ (fin.pc = "text" => fin.edit = 0)
    BY <1>1, <1>2 DEF GivenUp, TgAims
<1>4. Left = chat.statuses /\ fin.pc \in EndSteps
    BY <1>1, <1>2, <1>3, NowLeft DEF EndSteps
<1>5. ASSUME NEW CONSTANT pc \in {"media", "excuse", "unlock"}, EndIs(pc, fin.edit, fin.media, fin.todo)
      PROVE  TgInv'
  <2>1. Left' = chat'.statuses
    BY <1>5, NextLeft DEF EndIs
  <2>2. Left' \subseteq Left
    BY <1>2, <1>4, <2>1 DEF ChatStays
  <2>3. TgCounted' /\ chat' \in Chats /\ tfaults' \in Nat /\ lost' \in Nat
    BY <1>2, <1>3, <2>2, Stayed
  <2>4. pc \in EndSteps /\ pc # "clean" /\ pc # "answer" /\ pc # "text" /\ pc # "stopped"
    BY <1>5 DEF EndSteps
  <2>5. QED BY <1>2, <1>4, <1>5, <2>3, <2>4, EndStep
<1>6. QED BY <1>2, <1>5

LEMMA MediaKeeps == ASSUME TgInv, SendMedia PROVE TgInv'
<1>1. TgTyped /\ TgCounted
    BY DEF TgInv
<1>2. /\ fin.pc = "media" /\ Kept /\ HeldOn /\ fin.media > 0
      /\ EndIs("media", fin.edit, fin.media - 1, fin.todo) /\ (Shows \/ CallFails)
    BY <1>1, MediaSent
<1>3. Left = chat.statuses /\ fin.pc \in EndSteps /\ "media" \in EndSteps
    BY <1>1, <1>2, NowLeft DEF EndSteps
<1>4. Left' = chat'.statuses
    BY <1>2, NextLeft DEF EndIs
<1>5. TgCounted' /\ chat' \in Chats /\ tfaults' \in Nat /\ lost' \in Nat
  <2>1. CASE Shows
    BY <1>3, <1>4, <2>1, Shown DEF Shows
  <2>2. CASE CallFails
    BY <1>3, <1>4, <2>2, Failed DEF CallFails
  <2>3. QED BY <1>2, <2>1, <2>2
<1>6. QED BY <1>2, <1>3, <1>5, EndStep

LEMMA LastKeeps == ASSUME TgInv, Excuse \/ Unlock PROVE TgInv'
<1>1. TgTyped /\ TgCounted /\ TgLocked /\ TgPreviewed /\ TgAims
    BY DEF TgInv
<1>2. \/ /\ fin.pc = "excuse" /\ Kept /\ HeldOn /\ EndIs("unlock", fin.edit, fin.media, fin.todo)
         /\ Shows \/ CallFails
      \/ /\ fin.pc = "unlock" /\ Kept /\ tg'.op = "free" /\ EndIs("done", fin.edit, fin.media, fin.todo) /\ ChatStays
    BY <1>1, LastIs
<1>3. CASE /\ fin.pc = "excuse" /\ Kept /\ HeldOn /\ EndIs("unlock", fin.edit, fin.media, fin.todo)
           /\ Shows \/ CallFails
  <2>1. Left = chat.statuses /\ fin.pc \in EndSteps /\ "unlock" \in EndSteps
    BY <1>1, <1>3, NowLeft DEF EndSteps
  <2>2. Left' = chat'.statuses
    BY <1>3, NextLeft DEF EndIs
  <2>3. TgCounted' /\ chat' \in Chats /\ tfaults' \in Nat /\ lost' \in Nat
    <3>1. CASE Shows
      BY <2>1, <2>2, <3>1, Shown DEF Shows
    <3>2. CASE CallFails
      BY <2>1, <2>2, <3>2, Failed DEF CallFails
    <3>3. QED BY <1>3, <3>1, <3>2
  <2>4. QED BY <1>3, <2>1, <2>3, EndStep
<1>4. CASE fin.pc = "unlock" /\ Kept /\ tg'.op = "free" /\ EndIs("done", fin.edit, fin.media, fin.todo) /\ ChatStays
  <2>1. fin'.pc = "done" /\ status' = status /\ cbs' = cbs /\ draft' = draft /\ timers' = timers /\ tg.finished /\ tg'.finished
    BY <1>1, <1>4 DEF EndIs, Kept, TgLocked
  <2>2. Left = chat.statuses /\ Left' = chat'.statuses /\ GivenUp
    BY <1>1, <1>4, <2>1, NowLeft, NextLeft DEF GivenUp
  <2>3. TgCounted' /\ chat' \in Chats /\ tfaults' \in Nat /\ lost' \in Nat
    BY <1>4, <2>2, Stayed DEF ChatStays
  <2>4. TgTyped'
    BY <1>1, <1>4, <2>3 DEF TgTyped, EndIs, Kept
  <2>5. tg.op = "finish" /\ "finish" \notin Kinds
    BY <1>1, <1>4 DEF TgLocked, EndSteps, Kinds
  <2>6. \A k \in Kinds : cbs[k] \notin {"send", "sent"}
    BY <1>1, <2>5 DEF TgLocked
  <2>7. TgLocked'
    BY <1>1, <2>1, <2>6 DEF TgLocked, EndSteps
  <2>8. TgPreviewed'
    BY <1>1, <2>1 DEF TgPreviewed, PreviewIsArmed
  <2>9. TgAims'
    BY <1>1, <2>1 DEF TgAims
  <2>10. QED BY <2>3, <2>4, <2>7, <2>8, <2>9 DEF TgInv
<1>5. QED BY <1>2, <1>3, <1>4

LEMMA FinishLockKeeps == ASSUME TgInv, FinishLock PROVE TgInv'
<1>1. TgTyped /\ TgCounted /\ TgLocked /\ TgPreviewed /\ TgAims
    BY DEF TgInv
<1>2. /\ fin.pc = "lock" /\ EndIs("clean", status.id, fin.media, fin.todo) /\ UNCHANGED <<chat, tfaults, lost>>
      /\ tg.op = "free" /\ tg' \in TgSessions /\ tg'.finished /\ tg'.op = "finish"
      /\ draft' \in Drafts /\ draft'.sent = draft.sent /\ ~draft'.armed /\ ~draft'.fired
      /\ timers' \in [Kinds -> BOOLEAN] /\ timers'["draft"] = timers["draft"]
    BY <1>1, LockIs
<1>3. "free" \notin Kinds /\ "draft" \in Kinds
    BY DEF Kinds
<1>4. \A k \in Kinds : cbs[k] \notin {"send", "sent"}
    BY <1>1, <1>2, <1>3 DEF TgLocked
<1>5. fin'.pc = "clean" /\ fin'.edit = status.id /\ fin'.text = fin.text /\ fin'.media = fin.media /\ status' = status /\ cbs' = cbs
    BY <1>2 DEF EndIs
<1>6. TgTyped'
    BY <1>1, <1>2, <1>5 DEF TgTyped, EndIs
<1>7. TgLocked'
    BY <1>1, <1>2, <1>3, <1>4, <1>5 DEF TgLocked, EndSteps
<1>8. TgPreviewed'
    BY <1>2, <1>3, <1>4, <1>5 DEF TgPreviewed, PreviewIsArmed
<1>9. TgCounted'
  <2>1. Senders \subseteq Kinds
    BY KindsAre
  <2>2. Known = {status.id}
    BY <1>2, <1>4, <2>1 DEF Known
  <2>3. Left = chat.statuses \ {status.id} /\ Left' = chat'.statuses \ {status.id}
    BY <1>5, <2>2, NextLeft DEF Left
  <2>4. GivenUp' => GivenUp
    BY <1>2, <1>5 DEF GivenUp
  <2>5. ChatStays
    BY <1>2 DEF ChatStays
  <2>6. Left' \subseteq Left
    BY <1>2, <2>3
  <2>7. QED BY <2>4, <2>5, <2>6, Stayed
<1>10. TgAims'
  <2>1. Senders \subseteq Kinds
    BY KindsAre
  <2>2. QED BY <1>1, <1>2, <1>4, <1>5, <2>1 DEF TgAims
<1>11. QED BY <1>6, <1>7, <1>8, <1>9, <1>10 DEF TgInv

LEMMA CancelledKeeps == ASSUME TgInv, FinishCancelled PROVE TgInv'
<1>1. TgTyped /\ TgCounted /\ TgLocked /\ TgPreviewed /\ TgAims
    BY DEF TgInv
<1>2. /\ fin.pc = "lock" /\ EndIs(fin.pc, fin.edit, fin.media, fin.todo) /\ Kept
      /\ UNCHANGED <<chat, tfaults, lost>>
    BY <1>1, CancelledIs
<1>3. /\ fin'.pc = fin.pc /\ fin'.text = fin.text /\ fin'.edit = fin.edit /\ fin'.media = fin.media /\ fin'.todo = fin.todo
      /\ tg' = tg /\ draft' = draft /\ status' = status /\ cbs' = cbs /\ timers' = timers
      /\ chat' = chat /\ tfaults' = tfaults /\ lost' = lost
    BY <1>2 DEF EndIs, Kept, FinishCancelled, HandOver
<1>4. TgTyped'
    BY <1>1, <1>3, <1>2 DEF TgTyped, EndIs
<1>5. TgLocked'
    BY <1>1, <1>3 DEF TgLocked
<1>6. TgPreviewed'
    BY <1>1, <1>3 DEF TgPreviewed, PreviewIsArmed
<1>7. TgAims'
    BY <1>1, <1>3 DEF TgAims
<1>8. Known' = Known /\ (GivenUp' => GivenUp)
    BY <1>3 DEF Known, GivenUp
<1>9. Left' \subseteq Left /\ ChatStays
    BY <1>3, <1>8 DEF Left, ChatStays
<1>10. TgCounted'
    BY <1>8, <1>9, Stayed
<1>11. QED BY <1>4, <1>5, <1>6, <1>7, <1>10 DEF TgInv

LEMMA EndingKeeps == ASSUME TgInv, Finishes PROVE TgInv'
<1>1. \/ FinishCancelled \/ FinishLock \/ Clean \/ Stopped \/ Caption \/ Answer \/ EditFirst \/ SendChunk
      \/ (TextOver \/ MediaOver) \/ SendMedia \/ (Excuse \/ Unlock)
    BY Zenon DEF Finishes
<1>2. QED BY Zenon, <1>1, CancelledKeeps, FinishLockKeeps, CleanKeeps, StoppedKeeps, CaptionKeeps, AnswerKeeps, EditKeeps,
                ChunkKeeps, OverKeeps, MediaKeeps, LastKeeps

-----------------------------------------------------------------------------
(* The events of the run keep the invariant. *)

LEMMA RunStep ==
    ASSUME TgInv, TgTyped', TgPreviewed', fin.pc \in {"run", "lock"}, fin'.pc \in {"run", "lock"},
           status'.id = status.id, cbs' = cbs, tg'.op = tg.op, tg'.finished = tg.finished,
           timers'["draft"] = timers["draft"], draft'.sent = draft.sent, ChatStays,
           fin'.pc = "lock" => fin'.text \/ fin'.media > 0
    PROVE  TgInv'
<1>1. TgTyped /\ TgCounted /\ TgLocked /\ TgPreviewed /\ TgAims
    BY DEF TgInv
<1>2. TgLocked'
    BY <1>1 DEF TgLocked, EndSteps
<1>3. TgAims'
    BY <1>1 DEF TgAims
<1>4. chat' = chat
    BY DEF ChatStays
<1>5. Known' = Known /\ (GivenUp' => GivenUp)
    BY <1>4 DEF Known, GivenUp
<1>6. Left' \subseteq Left
    BY <1>4, <1>5 DEF Left
<1>7. TgCounted'
    BY <1>5, <1>6, Stayed
<1>8. QED BY <1>2, <1>3, <1>7 DEF TgInv

LEMMA EventKeeps == ASSUME TgInv, NEW CONSTANT turn \in BOOLEAN, Event(turn) PROVE TgInv'
<1>1. TgTyped /\ TgLocked /\ TgPreviewed
    BY DEF TgInv
<1>2. TgTyped'
    BY <1>1, RunTyped
<1>3. draft \in Drafts /\ timers \in [Kinds -> BOOLEAN] /\ status \in StatusRecords
    BY <1>1 DEF TgTyped
<1>4. /\ fin.pc = "run" /\ tg' = tg /\ cbs' = cbs /\ fin' = fin /\ ChatStays
      /\ timers' = [timers EXCEPT !["edit"] = TRUE, !["stall"] = TRUE] \/ timers' = [timers EXCEPT !["stall"] = TRUE]
      /\ status' = status \/ status' = [status EXCEPT !.stale = TRUE]
    BY DEF Event, ChatStays
<1>5. timers'["draft"] = timers["draft"] /\ status'.id = status.id
    BY <1>3, <1>4, KindsAre, StatusSteps
<1>6. PICK r : r = IF draft.on /\ turn THEN [draft EXCEPT !.text = FALSE] ELSE draft
    OBVIOUS
<1>7. r \in Drafts /\ r.on = draft.on /\ r.sent = draft.sent /\ r.armed = draft.armed /\ r.fired = draft.fired /\ r.dirty = draft.dirty
    BY <1>3, <1>6, DraftShows
<1>8. draft' = r \/ (draft.on /\ draft' = Touch(r))
    BY <1>6 DEF Event
<1>9. draft'.sent = draft.sent /\ TgPreviewed'
  <2>1. CASE draft' = r
    BY <1>1, <1>4, <1>7, <2>1 DEF TgPreviewed, PreviewIsArmed
  <2>2. CASE draft.on /\ draft' = Touch(r)
    <3>1. draft'.on = draft.on /\ draft'.sent = draft.sent /\ draft'.armed /\ draft'.fired = draft.fired
      BY <1>7, <2>2, DraftSteps
    <3>2. QED BY <1>1, <1>4, <2>2, <3>1 DEF TgPreviewed, PreviewIsArmed
  <2>3. QED BY <1>8, <2>1, <2>2
<1>10. QED BY <1>2, <1>4, <1>5, <1>9, RunStep

LEMMA DeltaKeeps == ASSUME TgInv, Delta PROVE TgInv'
<1>1. TgTyped /\ TgLocked /\ TgPreviewed
    BY DEF TgInv
<1>2. TgTyped'
    BY <1>1, RunTyped
<1>3. draft \in Drafts /\ timers \in [Kinds -> BOOLEAN]
    BY <1>1 DEF TgTyped
<1>4. /\ fin.pc = "run" /\ tg' = tg /\ cbs' = cbs /\ fin' = fin /\ status' = status /\ ChatStays /\ draft.on
      /\ timers' = timers \/ timers' = [timers EXCEPT !["again"] = TRUE]
      /\ draft' = Touch([draft EXCEPT !.text = TRUE]) \/ draft' = disableDraft(draft)
    BY DEF Delta, ChatStays
<1>5. timers'["draft"] = timers["draft"]
    BY <1>3, <1>4, KindsAre
<1>6. draft'.sent = draft.sent /\ TgPreviewed'
  <2>1. CASE draft' = Touch([draft EXCEPT !.text = TRUE])
    <3>1. PICK d \in Drafts : d = [draft EXCEPT !.text = TRUE] /\ d.on = draft.on /\ d.sent = draft.sent /\ d.fired = draft.fired
      BY <1>3, DraftShows
    <3>2. draft'.on = draft.on /\ draft'.sent = draft.sent /\ draft'.armed /\ draft'.fired = draft.fired
      BY <2>1, <3>1, DraftSteps
    <3>3. QED BY <1>1, <1>4, <3>2 DEF TgPreviewed, PreviewIsArmed
  <2>2. CASE draft' = disableDraft(draft)
    <3>1. ~draft'.on /\ ~draft'.armed /\ ~draft'.fired /\ draft'.sent = draft.sent
      BY <1>3, <2>2, DraftSteps
    <3>2. QED BY <3>1 DEF TgPreviewed, PreviewIsArmed
  <2>3. QED BY <1>4, <2>1, <2>2
<1>7. QED BY <1>2, <1>4, <1>5, <1>6, RunStep

LEMMA CancelKeeps == ASSUME TgInv, StopRun \/ Shutdown PROVE TgInv'
<1>1. TgTyped /\ TgLocked /\ TgPreviewed /\ TgAims
    BY DEF TgInv
<1>2. TgTyped'
    BY <1>1, RunTyped
<1>3. draft \in Drafts /\ tg \in TgSessions
    BY <1>1 DEF TgTyped
<1>4. /\ fin.pc \in {"run", "lock"} /\ tg' = [tg EXCEPT !.cancelled = TRUE] /\ cbs' = cbs /\ fin' = fin /\ status' = status
      /\ timers' = timers /\ ChatStays
      /\ draft' = draft \/ draft' = [draft EXCEPT !.stop = FALSE]
    BY DEF StopRun, Shutdown, ChatStays
<1>5. tg'.op = tg.op /\ tg'.finished = tg.finished /\ tg'.cancelled
    BY <1>3, <1>4, SessionSteps
<1>6. draft'.on = draft.on /\ draft'.sent = draft.sent /\ draft'.armed = draft.armed /\ draft'.fired = draft.fired
    BY <1>3, <1>4 DEF Drafts
<1>7. TgPreviewed'
    BY <1>1, <1>4, <1>5, <1>6 DEF TgPreviewed, PreviewIsArmed
<1>8. fin'.pc = "lock" => fin'.text \/ fin'.media > 0
    BY <1>1, <1>4 DEF TgAims
<1>9. QED BY <1>2, <1>4, <1>5, <1>6, <1>7, <1>8, RunStep

LEMMA EndRunKeeps == ASSUME TgInv, EndRun PROVE TgInv'
<1>1. TgTyped /\ TgLocked /\ TgPreviewed
    BY DEF TgInv
<1>2. TgTyped'
    BY <1>1, RunTyped
<1>3. PICK says \in BOOLEAN, media \in 0..2 :
           /\ says \/ media > 0
           /\ fin' = [fin EXCEPT !.pc = "lock", !.kind = IF tg.cancelled THEN "abort" ELSE "finish", !.text = says, !.media = media]
    BY DEF EndRun
<1>4. PICK kind \in {"none", "finish", "abort"} : fin' = [fin EXCEPT !.pc = "lock", !.kind = kind, !.text = says, !.media = media]
    BY <1>3
<1>5. fin'.pc = "lock" /\ fin'.text = says /\ fin'.media = media
    BY <1>1, <1>4 DEF TgTyped, Endings
<1>6. /\ fin.pc = "run" /\ tg' = tg /\ cbs' = cbs /\ status' = status /\ draft' = draft /\ timers' = timers /\ ChatStays
    BY DEF EndRun, ChatStays, At
<1>7. TgPreviewed'
    BY <1>1, <1>6 DEF TgPreviewed, PreviewIsArmed
<1>8. fin'.text \/ fin'.media > 0
    BY <1>3, <1>5
<1>9. QED BY <1>2, <1>5, <1>6, <1>7, <1>8, RunStep

-----------------------------------------------------------------------------
(* The callbacks keep the invariant. *)

\* Where the callbacks are after one of them has moved.
LEMMA Moved ==
    ASSUME TgTyped, NEW CONSTANT k \in Kinds, NEW CONSTANT pc \in {"idle", "read", "check", "lock", "send", "sent"}, Goes(k, pc)
    PROVE  cbs'[k] = pc /\ \A l \in Kinds : l # k => cbs'[l] = cbs[l]
BY Going DEF TgTyped, CallbackSteps

\* A callback that sends no status message keeps the account.
LEMMA LateStep ==
    ASSUME TgInv, TgTyped', TgLocked', TgPreviewed', UNCHANGED <<fin, chat>>, tfaults' >= tfaults,
           status'.id = status.id, draft'.sent = draft.sent,
           \A k \in Senders : /\ cbs'[k] = "sent" <=> cbs[k] = "sent"
                              /\ cbs'[k] = "send" => cbs[k] = "send" \/ status.id = 0
    PROVE  TgInv'
<1>1. TgTyped /\ TgCounted /\ TgAims
    BY DEF TgInv
<1>2. TgAims'
    BY <1>1 DEF TgAims
<1>3. Known' = Known /\ (GivenUp' => GivenUp)
    BY DEF Known, GivenUp
<1>4. Left' \subseteq Left /\ chat'.statuses \subseteq chat.statuses /\ tfaults' \in Nat
    BY <1>3 DEF Left, TgTyped
<1>5. chat'.preview /\ GivenUp' => chat.preview /\ GivenUp
    BY <1>3
<1>6. TgCounted'
    BY <1>4, <1>5, SameOwed
<1>7. QED BY <1>2, <1>6 DEF TgInv

\* Who is alone with the Bot API.
LEMMA NobodyCalls ==
    ASSUME TgLocked, tg.op = "free"
    PROVE  \A k \in Kinds : cbs[k] \notin {"send", "sent"}
BY DEF TgLocked, Kinds

LEMMA OnlyCaller ==
    ASSUME TgInv, NEW CONSTANT k \in Kinds, cbs[k] \in {"send", "sent"}
    PROVE  /\ tg.op = k /\ fin.pc \in {"run", "lock"} /\ ~tg.finished
           /\ \A l \in Kinds : l # k => cbs[l] \notin {"send", "sent"}
<1>1. TgTyped /\ TgLocked
    BY DEF TgInv
<1>2. tg.op = k /\ k # "finish" /\ k # "free"
    BY <1>1 DEF TgLocked, Kinds
<1>3. fin.pc \in Pcs
    BY <1>1 DEF TgTyped, Endings
<1>4. fin.pc \notin EndSteps /\ fin.pc # "done"
    BY <1>1, <1>2 DEF TgLocked
<1>5. QED BY <1>1, <1>2, <1>3, <1>4 DEF TgLocked, Pcs

LEMMA FireKeeps == ASSUME TgInv, NEW CONSTANT k \in Kinds, Fire(k) PROVE TgInv'
<1>1. TgTyped /\ TgLocked /\ TgPreviewed
    BY DEF TgInv
<1>2. TgTyped'
    BY <1>1, CallbackTyped DEF Callbacks
<1>3. /\ timers[k] /\ timers' = [timers EXCEPT ![k] = FALSE] /\ UNCHANGED <<tg, draft, status, fin, chat, tfaults>>
      /\ timers \in [Kinds -> BOOLEAN] /\ tfaults \in Nat
    BY <1>1 DEF Fire, TgTyped
<1>4. k # "draft" /\ ~timers'["draft"]
    BY <1>1, <1>3, KindsAre DEF TgLocked
<1>5. PICK pc \in {"read", "check"} : Goes(k, pc) /\ (k = "edit" => pc = "read")
    BY DEF Fire
<1>6. cbs[k] = "idle"
    BY DEF Fire
<1>7. cbs'[k] = pc /\ \A l \in Kinds : l # k => cbs'[l] = cbs[l]
    BY <1>1, <1>5, Moved
<1>8. TgLocked'
    BY <1>1, <1>3, <1>4, <1>5, <1>7, KindsAre DEF TgLocked
<1>9. TgPreviewed'
    BY <1>1, <1>3, <1>4, <1>7, KindsAre DEF TgPreviewed, PreviewIsArmed
<1>10. \A l \in Senders : (cbs'[l] = "sent" <=> cbs[l] = "sent") /\ (cbs'[l] = "send" => cbs[l] = "send")
    BY <1>5, <1>6, <1>7, KindsAre
<1>11. QED BY <1>2, <1>3, <1>8, <1>9, <1>10, LateStep

LEMMA FireDraftKeeps == ASSUME TgInv, FireDraft PROVE TgInv'
<1>1. TgTyped /\ TgLocked /\ TgPreviewed
    BY DEF TgInv
<1>2. TgTyped'
    BY <1>1, CallbackTyped DEF Callbacks
<1>3. /\ draft.armed /\ Goes("draft", "lock") /\ draft' = [draft EXCEPT !.fired = TRUE]
      /\ UNCHANGED <<tg, status, timers, fin, chat, tfaults>> /\ draft \in Drafts /\ tfaults \in Nat
    BY <1>1 DEF FireDraft, TgTyped
<1>4. draft'.on = draft.on /\ draft'.sent = draft.sent /\ draft'.armed /\ draft'.dirty = draft.dirty
    BY <1>3 DEF Drafts
<1>5. cbs'["draft"] = "lock" /\ \A l \in Kinds : l # "draft" => cbs'[l] = cbs[l]
    BY <1>1, <1>3, Moved, KindsAre
<1>6. TgLocked'
    BY <1>1, <1>3, <1>5, KindsAre DEF TgLocked
<1>7. TgPreviewed'
    BY <1>1, <1>3, <1>4, <1>5 DEF TgPreviewed, PreviewIsArmed
<1>8. \A l \in Senders : cbs'[l] = cbs[l]
    BY <1>5, KindsAre DEF Senders
<1>9. QED BY <1>2, <1>3, <1>4, <1>6, <1>7, <1>8, LateStep

LEMMA CheckKeeps == ASSUME TgInv, NEW CONSTANT k \in Kinds, Check(k) PROVE TgInv'
<1>1. TgTyped /\ TgLocked /\ TgPreviewed
    BY DEF TgInv
<1>2. TgTyped'
    BY <1>1, CallbackTyped DEF Callbacks
<1>3. draft \in Drafts /\ timers \in [Kinds -> BOOLEAN] /\ status \in StatusRecords /\ tfaults \in Nat
    BY <1>1 DEF TgTyped
<1>4. k \in Senders /\ cbs[k] = "check" /\ UNCHANGED <<tg, fin, chat, tfaults>>
    BY <1>1, KindsAre DEF Check, TgLocked
<1>5. PICK pc \in {"idle", "lock"} : Goes(k, pc)
    BY DEF Check, Ends
<1>6. cbs'[k] = pc /\ \A l \in Kinds : l # k => cbs'[l] = cbs[l]
    BY <1>1, <1>5, Moved
<1>7. /\ status' = status \/ status' = [status EXCEPT !.stale = TRUE]
      /\ timers' = timers \/ timers' = [timers EXCEPT !["edit"] = TRUE]
      /\ draft' = draft \/ (draft.on /\ draft' = scheduleDraft(draft))
    BY DEF Check, scheduleStatusEdit
<1>8. status'.id = status.id /\ timers'["draft"] = timers["draft"]
    BY <1>3, <1>7, StatusSteps, KindsAre
<1>9. /\ draft'.on = draft.on /\ draft'.sent = draft.sent /\ draft'.fired = draft.fired /\ draft'.dirty = draft.dirty
      /\ draft.armed => draft'.armed
      /\ draft'.armed => draft.armed \/ draft.on
    BY <1>3, <1>7, DraftSteps
<1>10. cbs'["draft"] = cbs["draft"] /\ cbs'["edit"] = cbs["edit"]
    BY <1>4, <1>6, KindsAre DEF Senders
<1>11. TgLocked'
    BY <1>1, <1>4, <1>5, <1>6, <1>8, <1>10 DEF TgLocked
<1>12. TgPreviewed'
    BY <1>1, <1>4, <1>9, <1>10 DEF TgPreviewed, PreviewIsArmed
<1>13. \A l \in Senders : (cbs'[l] = "sent" <=> cbs[l] = "sent") /\ (cbs'[l] = "send" => cbs[l] = "send")
    BY <1>4, <1>5, <1>6, KindsAre
<1>14. QED BY <1>2, <1>3, <1>4, <1>8, <1>9, <1>11, <1>12, <1>13, LateStep

LEMMA LockKeeps == ASSUME TgInv, NEW CONSTANT k \in Kinds, Lock(k) PROVE TgInv'
<1>1. TgTyped /\ TgLocked /\ TgPreviewed
    BY DEF TgInv
<1>2. TgTyped'
    BY <1>1, CallbackTyped DEF Callbacks
<1>3. k \in Senders /\ cbs[k] = "lock" /\ tg.op = "free" /\ UNCHANGED <<draft, status, timers, fin, chat, tfaults>>
      /\ tg \in TgSessions /\ tfaults \in Nat
    BY <1>1 DEF Lock, Senders, TgTyped
<1>4. \A l \in Kinds : cbs[l] \notin {"send", "sent"}
    BY <1>1, <1>3, NobodyCalls
<1>5. fin.pc \notin EndSteps
    BY <1>1, <1>3 DEF TgLocked
<1>6. \/ ~tg.finished /\ status.id = 0 /\ tg' = [tg EXCEPT !.op = k] /\ Goes(k, "send")
      \/ tg' = tg /\ Goes(k, "idle")
    BY DEF Lock, StillMayShow, MayShow, Ends
<1>7. CASE ~tg.finished /\ status.id = 0 /\ tg' = [tg EXCEPT !.op = k] /\ Goes(k, "send")
  <2>1. cbs'[k] = "send" /\ \A l \in Kinds : l # k => cbs'[l] = cbs[l]
    BY <1>1, <1>7, Moved
  <2>2. tg'.op = k /\ tg'.finished = tg.finished /\ tg'.cancelled = tg.cancelled
    BY <1>3, <1>7, HolderSteps DEF Ops
  <2>3. cbs'["draft"] = cbs["draft"] /\ cbs'["edit"] = cbs["edit"]
    BY <1>3, <2>1, KindsAre DEF Senders
  <2>4. TgLocked'
    BY <1>1, <1>3, <1>4, <1>5, <1>7, <2>1, <2>2, <2>3 DEF TgLocked
  <2>5. TgPreviewed'
    BY <1>1, <1>3, <2>2, <2>3 DEF TgPreviewed, PreviewIsArmed
  <2>6. \A l \in Senders : (cbs'[l] = "sent" <=> cbs[l] = "sent")
    BY <1>3, <2>1, KindsAre
  <2>7. QED BY <1>2, <1>3, <1>7, <2>4, <2>5, <2>6, LateStep
<1>8. CASE tg' = tg /\ Goes(k, "idle")
  <2>1. cbs'[k] = "idle" /\ \A l \in Kinds : l # k => cbs'[l] = cbs[l]
    BY <1>1, <1>8, Moved
  <2>2. cbs'["draft"] = cbs["draft"] /\ cbs'["edit"] = cbs["edit"]
    BY <1>3, <2>1, KindsAre DEF Senders
  <2>3. TgLocked'
    BY <1>1, <1>3, <1>8, <2>1, <2>2 DEF TgLocked
  <2>4. TgPreviewed'
    BY <1>1, <1>3, <1>8, <2>2 DEF TgPreviewed, PreviewIsArmed
  <2>5. \A l \in Senders : (cbs'[l] = "sent" <=> cbs[l] = "sent") /\ (cbs'[l] = "send" => cbs[l] = "send")
    BY <1>3, <2>1, KindsAre
  <2>6. QED BY <1>2, <1>3, <2>3, <2>4, <2>5, LateStep
<1>9. QED BY <1>6, <1>7, <1>8

LEMMA EditLockKeeps == ASSUME TgInv, EditRead \/ EditLock PROVE TgInv'
<1>1. TgTyped /\ TgLocked /\ TgPreviewed
    BY DEF TgInv
<1>2. TgTyped'
    BY <1>1, CallbackTyped DEF Callbacks
<1>3. UNCHANGED <<draft, timers, fin, chat, tfaults>> /\ tg \in TgSessions /\ status \in StatusRecords /\ tfaults \in Nat
    BY <1>1 DEF EditRead, EditLock, TgTyped
<1>4. ASSUME NEW CONSTANT pc \in {"idle", "lock", "send"}, Goes("edit", pc)
      PROVE  /\ cbs'["edit"] = pc /\ cbs'["draft"] = cbs["draft"]
             /\ \A l \in Kinds : l # "edit" => cbs'[l] = cbs[l]
             /\ \A l \in Senders : cbs'[l] = cbs[l]
  <2>1. cbs'["edit"] = pc /\ \A l \in Kinds : l # "edit" => cbs'[l] = cbs[l]
    BY <1>1, <1>4, Moved, KindsAre
  <2>2. QED BY <2>1, KindsAre DEF Senders
<1>5. \/ \E pc \in {"idle", "lock"} : Goes("edit", pc) /\ UNCHANGED <<tg, status>>
      \/ /\ tg.op = "free" /\ ~tg.finished /\ Goes("edit", "send")
         /\ tg' = [tg EXCEPT !.op = "edit"] /\ status' = [status EXCEPT !.stale = FALSE]
    BY DEF EditRead, EditLock, Ends, MayEdit
<1>6. ASSUME NEW CONSTANT pc \in {"idle", "lock"}, Goes("edit", pc), UNCHANGED <<tg, status>> PROVE TgInv'
  <2>1. /\ cbs'["edit"] = pc /\ cbs'["draft"] = cbs["draft"]
        /\ \A l \in Kinds : l # "edit" => cbs'[l] = cbs[l]
        /\ \A l \in Senders : cbs'[l] = cbs[l]
    BY <1>4, <1>6
  <2>2. TgLocked'
    BY <1>1, <1>3, <1>6, <2>1 DEF TgLocked
  <2>3. TgPreviewed'
    BY <1>1, <1>3, <1>6, <2>1 DEF TgPreviewed, PreviewIsArmed
  <2>4. QED BY <1>2, <1>3, <1>6, <2>1, <2>2, <2>3, LateStep
<1>7. CASE /\ tg.op = "free" /\ ~tg.finished /\ Goes("edit", "send")
           /\ tg' = [tg EXCEPT !.op = "edit"] /\ status' = [status EXCEPT !.stale = FALSE]
  <2>1. /\ cbs'["edit"] = "send" /\ cbs'["draft"] = cbs["draft"]
        /\ \A l \in Kinds : l # "edit" => cbs'[l] = cbs[l]
        /\ \A l \in Senders : cbs'[l] = cbs[l]
    BY <1>4, <1>7
  <2>2. tg'.op = "edit" /\ tg'.finished = tg.finished /\ tg'.cancelled = tg.cancelled /\ status'.id = status.id
    BY <1>3, <1>7, HolderSteps, StatusSteps, KindsAre DEF Ops
  <2>3. \A l \in Kinds : cbs[l] \notin {"send", "sent"}
    BY <1>1, <1>7, NobodyCalls
  <2>4. TgLocked'
    BY <1>1, <1>3, <1>7, <2>1, <2>2, <2>3 DEF TgLocked
  <2>5. TgPreviewed'
    BY <1>1, <1>3, <2>1, <2>2 DEF TgPreviewed, PreviewIsArmed
  <2>6. QED BY <1>2, <1>3, <2>1, <2>2, <2>4, <2>5, LateStep
<1>8. QED BY <1>5, <1>6, <1>7

LEMMA EditSentKeeps == ASSUME TgInv, EditSent PROVE TgInv'
<1>1. TgTyped /\ TgLocked /\ TgPreviewed
    BY DEF TgInv
<1>2. TgTyped'
    BY <1>1, CallbackTyped DEF Callbacks
<1>3. /\ cbs["edit"] = "send" /\ UNCHANGED <<draft, timers, fin, chat>> /\ tfaults' >= tfaults
      /\ tg' = [tg EXCEPT !.op = "free"] /\ Goes("edit", "idle") /\ tg \in TgSessions /\ status \in StatusRecords
      /\ status' = status \/ status' = [status EXCEPT !.stale = TRUE]
    BY <1>1 DEF EditSent, Call, Fine, Fault, Free, Ends, TgTyped
<1>4. /\ fin.pc \in {"run", "lock"} /\ \A l \in Kinds : l # "edit" => cbs[l] \notin {"send", "sent"}
    BY <1>3, OnlyCaller, KindsAre
<1>5. cbs'["edit"] = "idle" /\ \A l \in Kinds : l # "edit" => cbs'[l] = cbs[l]
    BY <1>1, <1>3, Moved, KindsAre
<1>6. cbs'["draft"] = cbs["draft"] /\ \A l \in Senders : cbs'[l] = cbs[l]
    BY <1>5, KindsAre DEF Senders
<1>7. tg'.finished = tg.finished /\ tg'.cancelled = tg.cancelled /\ status'.id = status.id
    BY <1>3, HolderSteps, StatusSteps DEF Ops
<1>8. TgLocked'
    BY <1>1, <1>3, <1>4, <1>5, <1>6, <1>7 DEF TgLocked, EndSteps
<1>9. TgPreviewed'
    BY <1>1, <1>3, <1>6, <1>7 DEF TgPreviewed, PreviewIsArmed
<1>10. QED BY <1>2, <1>3, <1>6, <1>7, <1>8, <1>9, LateStep

LEMMA FlushLockKeeps == ASSUME TgInv, FlushLock PROVE TgInv'
<1>1. TgTyped /\ TgLocked /\ TgPreviewed
    BY DEF TgInv
<1>2. TgTyped'
    BY <1>1, CallbackTyped DEF Callbacks
<1>3. /\ cbs["draft"] = "lock" /\ tg.op = "free" /\ UNCHANGED <<status, timers, fin, chat, tfaults>>
      /\ tg \in TgSessions /\ draft \in Drafts /\ tfaults \in Nat
    BY <1>1 DEF FlushLock, TgTyped
<1>4. \/ ~tg.finished /\ tg' = [tg EXCEPT !.op = "draft"] /\ Goes("draft", "send") /\ draft' = Flush(draft)
      \/ ~(~tg.finished /\ draft.on /\ ~tg.cancelled) /\ Goes("draft", "idle") /\ UNCHANGED <<tg, draft>>
    BY DEF FlushLock, MayFlush, Ends
<1>5. ASSUME NEW CONSTANT pc \in {"idle", "send"}, Goes("draft", pc)
      PROVE  /\ cbs'["draft"] = pc /\ cbs'["edit"] = cbs["edit"]
             /\ \A l \in Kinds : l # "draft" => cbs'[l] = cbs[l]
             /\ \A l \in Senders : cbs'[l] = cbs[l]
  <2>1. cbs'["draft"] = pc /\ \A l \in Kinds : l # "draft" => cbs'[l] = cbs[l]
    BY <1>1, <1>5, Moved, KindsAre
  <2>2. QED BY <2>1, KindsAre DEF Senders
<1>6. CASE ~tg.finished /\ tg' = [tg EXCEPT !.op = "draft"] /\ Goes("draft", "send") /\ draft' = Flush(draft)
  <2>1. /\ cbs'["draft"] = "send" /\ cbs'["edit"] = cbs["edit"]
        /\ \A l \in Kinds : l # "draft" => cbs'[l] = cbs[l]
        /\ \A l \in Senders : cbs'[l] = cbs[l]
    BY <1>5, <1>6
  <2>2. tg'.op = "draft" /\ tg'.finished = tg.finished
    BY <1>3, <1>6, HolderSteps, KindsAre DEF Ops
  <2>3. draft'.sent = draft.sent /\ ~draft'.armed /\ ~draft'.fired /\ ~draft'.dirty
    BY <1>3, <1>6, DraftSteps
  <2>4. \A l \in Kinds : cbs[l] \notin {"send", "sent"}
    BY <1>1, <1>3, NobodyCalls
  <2>5. fin.pc # "done" /\ fin.pc \notin EndSteps
    BY <1>1, <1>3, <1>6 DEF TgLocked
  <2>6. TgLocked'
    BY <1>1, <1>3, <2>1, <2>2, <2>4, <2>5 DEF TgLocked
  <2>7. TgPreviewed'
    BY <2>3 DEF TgPreviewed, PreviewIsArmed
  <2>8. QED BY <1>2, <1>3, <2>1, <2>3, <2>6, <2>7, LateStep
<1>7. CASE ~(~tg.finished /\ draft.on /\ ~tg.cancelled) /\ Goes("draft", "idle") /\ UNCHANGED <<tg, draft>>
  <2>1. /\ cbs'["draft"] = "idle" /\ cbs'["edit"] = cbs["edit"]
        /\ \A l \in Kinds : l # "draft" => cbs'[l] = cbs[l]
        /\ \A l \in Senders : cbs'[l] = cbs[l]
    BY <1>5, <1>7
  <2>2. TgLocked'
    BY <1>1, <1>3, <1>7, <2>1 DEF TgLocked
  <2>3. TgPreviewed'
    BY <1>1, <1>7, <2>1 DEF TgPreviewed, PreviewIsArmed
  <2>4. QED BY <1>2, <1>3, <1>7, <2>1, <2>2, <2>3, LateStep
<1>8. QED BY <1>4, <1>6, <1>7

LEMMA FlushStatusKeeps == ASSUME TgInv, FlushSend PROVE TgInv'
<1>1. TgTyped /\ TgLocked /\ TgPreviewed /\ TgAims
    BY DEF TgInv
<1>2. TgTyped'
    BY <1>1, CallbackTyped DEF Callbacks
<1>3. /\ cbs["draft"] = "send" /\ UNCHANGED <<status, fin>> /\ tg' = [tg EXCEPT !.op = "free"] /\ Goes("draft", "idle")
      /\ tg \in TgSessions /\ draft \in Drafts /\ timers \in [Kinds -> BOOLEAN] /\ chat \in Chats /\ tfaults \in Nat
    BY <1>1 DEF FlushSend, Free, Ends, TgTyped
<1>4. fin.pc \in {"run", "lock"} /\ \A l \in Kinds : l # "draft" => cbs[l] \notin {"send", "sent"}
    BY <1>3, OnlyCaller, KindsAre
<1>5. cbs'["draft"] = "idle" /\ \A l \in Kinds : l # "draft" => cbs'[l] = cbs[l]
    BY <1>1, <1>3, Moved, KindsAre
<1>6. cbs'["edit"] = cbs["edit"] /\ \A l \in Senders : cbs'[l] = cbs[l]
    BY <1>5, KindsAre DEF Senders
<1>7. tg'.finished = tg.finished
    BY <1>3, HolderSteps DEF Ops
<1>8. timers' \in {[timers EXCEPT !["again"] = timers["again"] \/ ~draft.on], [timers EXCEPT !["again"] = TRUE]}
    BY DEF FlushSend, Lossy, Call, FlushFails
<1>9. timers'["draft"] = timers["draft"]
    BY <1>3, <1>8, KindsAre
<1>10. TgLocked'
    BY <1>1, <1>3, <1>4, <1>5, <1>6, <1>7, <1>9 DEF TgLocked, EndSteps
<1>11. TgAims'
    BY <1>1, <1>3, <1>4, <1>6 DEF TgAims
<1>12. ~draft.fired
    BY <1>1, <1>3 DEF TgPreviewed
<1>13. Known' = Known
    BY <1>3, <1>4, <1>6, KindsAre DEF Known
<1>14. chat' = chat \/ chat' = [chat EXCEPT !.preview = TRUE]
    BY DEF FlushSend, Lossy, Call
<1>15. chat'.statuses = chat.statuses /\ Left' \subseteq Left
  <2>1. chat'.statuses = chat.statuses
    BY <1>3, <1>14 DEF Chats
  <2>2. QED BY <1>13, <2>1 DEF Left
<1>16. \/ Fine /\ draft' = [draft EXCEPT !.inFlight = FALSE, !.sent = TRUE, !.armed = @ \/ draft.on]
       \/ Fault /\ FlushFails
    BY DEF FlushSend, Lossy, Call
<1>17. CASE Fine /\ draft' = [draft EXCEPT !.inFlight = FALSE, !.sent = TRUE, !.armed = @ \/ draft.on]
  <2>1. draft'.on = draft.on /\ draft'.sent /\ draft'.armed = (draft.armed \/ draft.on) /\ ~draft'.fired
    BY <1>3, <1>12, <1>17 DEF Drafts
  <2>2. TgPreviewed'
    BY <1>1, <2>1 DEF TgPreviewed, PreviewIsArmed
  <2>3. ~GivenUp'
    BY <1>3, <1>4, <2>1 DEF GivenUp
  <2>4. tfaults' \in Nat /\ tfaults' >= tfaults
    BY <1>3, <1>17 DEF Fine
  <2>5. TgCounted'
    BY <1>15, <2>3, <2>4, SameOwed
  <2>6. QED BY <1>2, <1>10, <1>11, <2>2, <2>5 DEF TgInv
<1>18. CASE Fault /\ FlushFails
  <2>1. draft' = [disableDraft(draft) EXCEPT !.inFlight = FALSE]
    BY <1>18 DEF FlushFails
  <2>2. disableDraft(draft) \in Drafts /\ ~disableDraft(draft).on /\ ~disableDraft(draft).armed /\ ~disableDraft(draft).fired
    BY <1>3, DraftSteps
  <2>3. ~draft'.on /\ ~draft'.armed /\ ~draft'.fired
    BY <2>1, <2>2 DEF Drafts
  <2>4. TgPreviewed'
    BY <2>3 DEF TgPreviewed, PreviewIsArmed
  <2>5. tfaults' = tfaults + 1
    BY <1>18 DEF Fault
  <2>6. TgCounted'
    BY <1>15, <2>5, OneOwed
  <2>7. QED BY <1>2, <1>10, <1>11, <2>4, <2>6 DEF TgInv
<1>19. QED BY <1>16, <1>17, <1>18

\* A status message that is shown takes the preview's place.
LEMMA AddedCounted ==
    ASSUME TgInv, chat' = NewStatus, tfaults' \in Nat,
           \/ Left' \subseteq Left /\ tfaults' >= tfaults
           \/ Left' \subseteq Left \cup {chat.made + 1} /\ tfaults' = tfaults + 1
    PROVE  TgCounted'
<1>1. TgTyped /\ TgCounted
    BY DEF TgInv
<1>2. chat \in Chats /\ tfaults \in Nat
    BY <1>1 DEF TgTyped
<1>3. PICK n : n = chat.made + 1
    OBVIOUS
<1>4. n # 0 /\ chat' = [chat EXCEPT !.made = n, !.statuses = @ \cup {n}, !.preview = FALSE]
    BY <1>2, <1>3 DEF NewStatus, Chats
<1>5. chat'.statuses = chat.statuses \cup {n} /\ ~chat'.preview
    BY <1>2, <1>4 DEF Chats
<1>6. IsFiniteSet(chat.statuses) /\ 0 \notin chat.statuses
    BY <1>1 DEF TgCounted
<1>7. IsFiniteSet(chat'.statuses) /\ 0 \notin chat'.statuses
    BY <1>4, <1>5, <1>6, FS_AddElement
<1>8. IsFiniteSet(Left)
    BY <1>6, FS_Subset DEF Left
<1>9. Cardinality(Left) \in Nat
    BY <1>8, FS_CardinalityType
<1>10. Cardinality(Left) <= tfaults
    BY <1>1, <1>2, <1>9 DEF TgCounted, Owed
<1>11. Owed' = 0
    BY <1>5 DEF Owed
<1>12. CASE Left' \subseteq Left /\ tfaults' >= tfaults
  <2>1. IsFiniteSet(Left') /\ Cardinality(Left') <= Cardinality(Left)
    BY <1>8, <1>12, FS_Subset
  <2>2. Cardinality(Left') \in Nat
    BY <2>1, FS_CardinalityType
  <2>3. Cardinality(Left') + Owed' <= tfaults'
    BY <1>2, <1>9, <1>10, <1>11, <1>12, <2>1, <2>2
  <2>4. QED BY <1>7, <2>3 DEF TgCounted
<1>13. CASE Left' \subseteq Left \cup {chat.made + 1} /\ tfaults' = tfaults + 1
  <2>1. /\ IsFiniteSet(Left \cup {n})
        /\ Cardinality(Left \cup {n}) = (IF n \in Left THEN Cardinality(Left) ELSE Cardinality(Left) + 1)
    BY <1>8, FS_AddElement
  <2>2. Left' \subseteq Left \cup {n}
    BY <1>3, <1>13
  <2>3. IsFiniteSet(Left') /\ Cardinality(Left') <= Cardinality(Left \cup {n})
    BY <2>1, <2>2, FS_Subset
  <2>4. Cardinality(Left') \in Nat /\ Cardinality(Left \cup {n}) \in Nat
    BY <2>1, <2>3, FS_CardinalityType
  <2>5. Cardinality(Left \cup {n}) <= Cardinality(Left) + 1
    BY <1>9, <2>1
  <2>6. Cardinality(Left') + Owed' <= tfaults'
    BY <1>2, <1>9, <1>10, <1>11, <1>13, <2>3, <2>4, <2>5
  <2>7. QED BY <1>7, <2>6 DEF TgCounted
<1>14. QED BY <1>12, <1>13

LEMMA StatusKeeps == ASSUME TgInv, NEW CONSTANT k \in Kinds, SendStatus(k) PROVE TgInv'
<1>1. TgTyped /\ TgLocked /\ TgPreviewed /\ TgAims /\ TgCounted
    BY DEF TgInv
<1>2. TgTyped'
    BY <1>1, CallbackTyped DEF Callbacks
<1>3. /\ k \in Senders /\ cbs[k] = "send" /\ UNCHANGED <<draft, status, timers, fin>>
      /\ tg \in TgSessions /\ chat \in Chats /\ tfaults \in Nat
    BY <1>1, KindsAre DEF SendStatus, TgTyped
<1>4. /\ tg.op = k /\ fin.pc \in {"run", "lock"} /\ ~tg.finished
      /\ \A l \in Kinds : l # k => cbs[l] \notin {"send", "sent"}
    BY <1>3, OnlyCaller
<1>5. status.id = 0
    BY <1>1, <1>3 DEF TgAims
<1>6. Known = {0}
    BY <1>3, <1>4, <1>5, KindsAre DEF Known
<1>7. Left = chat.statuses
    BY <1>1, <1>6 DEF Left, TgCounted
<1>8. \/ chat' = NewStatus /\ Goes(k, "sent") /\ UNCHANGED tg /\ tfaults' = tfaults
      \/ CallFails /\ Goes(k, "idle") /\ tg' = [tg EXCEPT !.op = "free"]
      \/ chat' = NewStatus /\ tfaults' = tfaults + 1 /\ Goes(k, "idle") /\ tg' = [tg EXCEPT !.op = "free"]
    BY DEF SendStatus, Lossy, Call, Fine, Fault, Free, Ends, CallFails
<1>9. ASSUME NEW CONSTANT pc \in {"idle", "sent"}, Goes(k, pc)
      PROVE  /\ cbs'[k] = pc /\ cbs'["draft"] = cbs["draft"] /\ cbs'["edit"] = cbs["edit"]
             /\ \A l \in Kinds : l # k => cbs'[l] = cbs[l]
  <2>1. cbs'[k] = pc /\ \A l \in Kinds : l # k => cbs'[l] = cbs[l]
    BY <1>1, <1>9, Moved
  <2>2. QED BY <1>3, <2>1, KindsAre DEF Senders
<1>10. ASSUME chat' = NewStatus
       PROVE  chat'.statuses = chat.statuses \cup {chat.made + 1} /\ chat'.made = chat.made + 1
    BY <1>3, <1>10 DEF NewStatus, Chats
<1>11. TgAims'
    BY <1>1, <1>3, <1>4, <1>5 DEF TgAims
<1>12. ASSUME Goes(k, "idle"), tg' = [tg EXCEPT !.op = "free"]
       PROVE  TgLocked' /\ TgPreviewed' /\ Known' = {0}
  <2>1. /\ cbs'[k] = "idle" /\ cbs'["draft"] = cbs["draft"] /\ cbs'["edit"] = cbs["edit"]
        /\ \A l \in Kinds : l # k => cbs'[l] = cbs[l]
    BY <1>9, <1>12
  <2>2. tg'.finished = tg.finished /\ tg'.cancelled = tg.cancelled
    BY <1>3, <1>12, HolderSteps DEF Ops
  <2>3. TgLocked'
    BY <1>1, <1>3, <1>4, <2>1, <2>2 DEF TgLocked, EndSteps
  <2>4. TgPreviewed'
    BY <1>1, <1>3, <2>1, <2>2 DEF TgPreviewed, PreviewIsArmed
  <2>5. \A l \in Senders : cbs'[l] # "sent"
    BY <1>4, <2>1, KindsAre
  <2>6. Known' = {0}
    BY <1>3, <1>4, <1>5, <2>5 DEF Known
  <2>7. QED BY <2>3, <2>4, <2>6
<1>13. CASE chat' = NewStatus /\ Goes(k, "sent") /\ UNCHANGED tg /\ tfaults' = tfaults
  <2>1. /\ cbs'[k] = "sent" /\ cbs'["draft"] = cbs["draft"] /\ cbs'["edit"] = cbs["edit"]
        /\ \A l \in Kinds : l # k => cbs'[l] = cbs[l]
    BY <1>9, <1>13
  <2>2. TgLocked'
    BY <1>1, <1>3, <1>4, <1>13, <2>1 DEF TgLocked, EndSteps
  <2>3. TgPreviewed'
    BY <1>1, <1>3, <1>13, <2>1 DEF TgPreviewed, PreviewIsArmed
  <2>4. Known' = {0, chat.made + 1}
    BY <1>3, <1>4, <1>5, <1>10, <1>13, <2>1 DEF Known
  <2>5. Left' \subseteq Left
    BY <1>7, <1>10, <1>13, <2>4 DEF Left
  <2>6. TgCounted'
    BY <1>3, <1>13, <2>5, AddedCounted
  <2>7. QED BY <1>2, <1>11, <2>2, <2>3, <2>6 DEF TgInv
<1>14. CASE CallFails /\ Goes(k, "idle") /\ tg' = [tg EXCEPT !.op = "free"]
  <2>1. Known' = {0} /\ TgLocked' /\ TgPreviewed'
    BY <1>12, <1>14
  <2>2. Left' \subseteq Left
    BY <1>7, <1>14, <2>1 DEF Left, CallFails
  <2>3. TgCounted'
    BY <1>14, <2>2, Failed
  <2>4. QED BY <1>2, <1>11, <2>1, <2>3 DEF TgInv
<1>15. CASE chat' = NewStatus /\ tfaults' = tfaults + 1 /\ Goes(k, "idle") /\ tg' = [tg EXCEPT !.op = "free"]
  <2>1. Known' = {0} /\ TgLocked' /\ TgPreviewed'
    BY <1>12, <1>15
  <2>2. Left' \subseteq Left \cup {chat.made + 1}
    BY <1>7, <1>10, <1>15, <2>1 DEF Left
  <2>3. TgCounted'
    BY <1>3, <1>15, <2>2, AddedCounted
  <2>4. QED BY <1>2, <1>11, <2>1, <2>3 DEF TgInv
<1>16. QED BY <1>8, <1>13, <1>14, <1>15

LEMMA SentKeeps == ASSUME TgInv, NEW CONSTANT k \in Kinds, StatusSent(k) PROVE TgInv'
<1>1. TgTyped /\ TgLocked /\ TgPreviewed /\ TgAims /\ TgCounted
    BY DEF TgInv
<1>2. TgTyped'
    BY <1>1, CallbackTyped DEF Callbacks
<1>3. /\ k \in Senders /\ cbs[k] = "sent" /\ UNCHANGED <<draft, timers, fin, chat, tfaults, lost>>
      /\ status' = [id |-> chat.made, stale |-> FALSE] /\ tg' = [tg EXCEPT !.op = "free"] /\ Goes(k, "idle")
      /\ tg \in TgSessions /\ tfaults \in Nat
    BY <1>1, KindsAre DEF StatusSent, Free, Ends, TgTyped, TgLocked
<1>4. /\ tg.op = k /\ fin.pc \in {"run", "lock"} /\ ~tg.finished
      /\ \A l \in Kinds : l # k => cbs[l] \notin {"send", "sent"}
    BY <1>3, OnlyCaller
<1>5. status.id = 0 /\ status'.id = chat.made
    BY <1>1, <1>3 DEF TgAims
<1>6. cbs'[k] = "idle" /\ \A l \in Kinds : l # k => cbs'[l] = cbs[l]
    BY <1>1, <1>3, Moved
<1>7. cbs'["draft"] = cbs["draft"] /\ cbs'["edit"] = cbs["edit"] /\ \A l \in Senders : cbs'[l] \notin {"send", "sent"}
    BY <1>3, <1>4, <1>6, KindsAre DEF Senders
<1>8. tg'.finished = tg.finished /\ tg'.cancelled = tg.cancelled
    BY <1>3, HolderSteps DEF Ops
<1>9. TgLocked'
    BY <1>1, <1>3, <1>4, <1>6, <1>7, <1>8 DEF TgLocked, EndSteps
<1>10. TgPreviewed'
    BY <1>1, <1>3, <1>7, <1>8 DEF TgPreviewed, PreviewIsArmed
<1>11. TgAims'
    BY <1>1, <1>3, <1>4, <1>7 DEF TgAims
<1>12. Known = {0, chat.made} /\ Known' = {chat.made}
    BY <1>3, <1>4, <1>5, <1>7 DEF Known
<1>13. Left' \subseteq Left
    BY <1>1, <1>3, <1>12 DEF Left, TgCounted
<1>14. ChatStays /\ (GivenUp' => GivenUp)
    BY <1>3 DEF ChatStays, GivenUp
<1>15. TgCounted'
    BY <1>13, <1>14, Stayed
<1>16. QED BY <1>2, <1>9, <1>10, <1>11, <1>15 DEF TgInv

LEMMA CallbackKeeps == ASSUME TgInv, Callbacks PROVE TgInv'
<1>1. ASSUME NEW CONSTANT k \in Kinds, Fire(k) \/ Check(k) \/ Lock(k) \/ SendStatus(k) \/ StatusSent(k) PROVE TgInv'
    BY <1>1, FireKeeps, CheckKeeps, LockKeeps, StatusKeeps, SentKeeps
<1>2. \/ FireDraft \/ (EditRead \/ EditLock) \/ EditSent \/ FlushLock \/ FlushSend
      \/ \E k \in Kinds : Fire(k) \/ Check(k) \/ Lock(k) \/ SendStatus(k) \/ StatusSent(k)
    BY Zenon DEF Callbacks
<1>3. QED BY Zenon, <1>1, <1>2, FireDraftKeeps, EditLockKeeps, EditSentKeeps, FlushLockKeeps, FlushStatusKeeps

LEMMA TgStays == ASSUME TgInv, UNCHANGED tgVars PROVE TgInv'
<1>1. UNCHANGED <<tg, draft, status, timers, cbs, fin, chat, tfaults, lost, nEvents>>
    BY DEF tgVars
<1>2. TgTyped /\ TgLocked /\ TgPreviewed /\ TgAims
    BY DEF TgInv
<1>3. TgTyped'
    BY <1>1, <1>2 DEF TgTyped
<1>4. TgLocked'
    BY <1>1, <1>2 DEF TgLocked
<1>5. TgPreviewed'
    BY <1>1, <1>2 DEF TgPreviewed, PreviewIsArmed
<1>6. TgAims'
    BY <1>1, <1>2 DEF TgAims
<1>7. Left' \subseteq Left /\ ChatStays /\ (GivenUp' => GivenUp)
    BY <1>1 DEF Left, Known, ChatStays, GivenUp
<1>8. TgCounted'
    BY <1>7, Stayed
<1>9. QED BY <1>3, <1>4, <1>5, <1>6, <1>8 DEF TgInv

LEMMA TgStep == ASSUME TgInv, [TgNext]_tgVars PROVE TgInv'
<1>1. ASSUME NEW CONSTANT turn \in BOOLEAN, Event(turn) PROVE TgInv'
    BY <1>1, EventKeeps
<1>2. \/ UNCHANGED tgVars
      \/ (\E turn \in BOOLEAN : Event(turn)) \/ Delta \/ (StopRun \/ Shutdown) \/ EndRun \/ Callbacks \/ Finishes
    BY Zenon DEF TgNext
<1>3. QED BY Zenon, <1>1, <1>2, TgStays, DeltaKeeps, CancelKeeps, EndRunKeeps, CallbackKeeps, EndingKeeps

LEMMA TgStarts == ASSUME TgInit PROVE TgInv
<1>1. PICK quiet \in BOOLEAN, private \in BOOLEAN :
         /\ tg = [quiet |-> quiet, finished |-> FALSE, op |-> "free", typing |-> TRUE, cancelled |-> FALSE]
         /\ draft = [on |-> ~quiet /\ private, sent |-> FALSE, inFlight |-> FALSE, text |-> FALSE, dirty |-> FALSE,
                     armed |-> FALSE, fired |-> FALSE, stop |-> ~quiet /\ private]
         /\ timers = [k \in Kinds |-> k = "stall" \/ (k = "show" /\ ~quiet)]
    BY DEF TgInit
<1>2. /\ status = [id |-> 0, stale |-> FALSE] /\ cbs = [k \in Kinds |-> "idle"]
      /\ fin = [pc |-> "run", kind |-> "none", text |-> FALSE, media |-> 0, sentMedia |-> 0, edit |-> 0, todo |-> <<>>]
      /\ chat = [statuses |-> {}, made |-> 0, preview |-> FALSE, shown |-> <<>>] /\ tfaults = 0 /\ lost = 0 /\ nEvents = 0
    BY DEF TgInit
<1>3. tg \in TgSessions /\ tg.op = "free" /\ ~tg.finished
    BY <1>1 DEF TgSessions, Ops
<1>4. draft \in Drafts /\ ~draft.armed /\ ~draft.fired /\ ~draft.dirty
    BY <1>1 DEF Drafts
<1>5. timers \in [Kinds -> BOOLEAN] /\ ~timers["draft"]
    BY <1>1, KindsAre
<1>6. \A k \in Kinds : cbs[k] = "idle"
    BY <1>2
<1>7. cbs \in [Kinds -> CallbackSteps]
    BY <1>2 DEF CallbackSteps
<1>8. fin \in Endings /\ fin.pc = "run"
    BY <1>2 DEF Endings, Pcs
<1>9. chat \in Chats /\ chat.statuses = {} /\ ~chat.preview /\ status \in StatusRecords
    BY <1>2 DEF Chats, StatusRecords
<1>10. TgTyped
    BY <1>2, <1>3, <1>4, <1>5, <1>7, <1>8, <1>9 DEF TgTyped
<1>11. TgLocked
    BY <1>3, <1>5, <1>6, <1>8, KindsAre DEF TgLocked, EndSteps
<1>12. TgPreviewed
    BY <1>4 DEF TgPreviewed, PreviewIsArmed
<1>13. TgCounted
  <2>1. Left = {} /\ Owed = 0
    BY <1>9 DEF Left, Owed
  <2>2. IsFiniteSet({}) /\ Cardinality({}) = 0
    BY FS_EmptySet
  <2>3. QED BY <1>2, <1>9, <2>1, <2>2 DEF TgCounted
<1>14. TgAims
    BY <1>6, <1>8, KindsAre DEF TgAims
<1>15. QED BY <1>10, <1>11, <1>12, <1>13, <1>14 DEF TgInv

LEMMA TgIsClean == ASSUME TgInv PROVE ChatIsClean /\ PreviewIsArmed
<1>1. TgCounted /\ TgPreviewed
    BY DEF TgInv
<1>2. ASSUME fin.pc = "done" PROVE Cardinality(chat.statuses) + (IF chat.preview THEN 1 ELSE 0) <= tfaults
  <2>1. Left = chat.statuses /\ GivenUp
    BY <1>1, <1>2, NowLeft DEF GivenUp
  <2>2. Owed = IF chat.preview THEN 1 ELSE 0
    BY <2>1 DEF Owed
  <2>3. QED BY <1>1, <2>1, <2>2 DEF TgCounted
<1>3. QED BY <1>1, <1>2 DEF ChatIsClean, TgPreviewed

\* At the end every callback that is left ends without a call.
LEMMA TgIsQuiet == ASSUME TgInv, [TgNext]_tgVars, fin.pc = "done" PROVE chat' = chat /\ status' = status
<1>1. /\ tg.finished /\ \A k \in Kinds : cbs[k] \notin {"send", "sent"}
    BY DEF TgInv, TgLocked
<1>2. ~((\E turn \in BOOLEAN : Event(turn)) \/ Delta \/ (StopRun \/ Shutdown) \/ EndRun)
    BY DEF Event, Delta, StopRun, Shutdown, EndRun, At
<1>3. ~Finishes
    BY DEF Finishes, FinishCancelled, FinishLock, Clean, Stopped, Caption, Answer, EditFirst, SendChunk, TextOver, SendMedia,
           MediaOver, Excuse, Unlock, At
<1>4. CASE UNCHANGED tgVars
    BY <1>4 DEF tgVars
<1>5. ASSUME NEW CONSTANT k \in Kinds, Fire(k) \/ Check(k) \/ Lock(k) \/ SendStatus(k) \/ StatusSent(k)
      PROVE  chat' = chat /\ status' = status
  <2>1. CASE Fire(k) \/ Lock(k)
    BY <2>1 DEF Fire, Lock
  <2>2. CASE Check(k)
    BY <1>1, <2>2 DEF Check, scheduleStatusEdit, EditWanted
  <2>3. ~SendStatus(k) /\ ~StatusSent(k)
    BY <1>1 DEF SendStatus, StatusSent
  <2>4. QED BY <1>5, <2>1, <2>2, <2>3
<1>6. CASE FireDraft \/ EditRead \/ EditLock \/ FlushLock
    BY <1>1, <1>6 DEF FireDraft, EditRead, EditLock, MayEdit, FlushLock
<1>7. ~EditSent /\ ~FlushSend
    BY <1>1, KindsAre DEF EditSent, FlushSend
<1>8. \/ UNCHANGED tgVars
      \/ (\E turn \in BOOLEAN : Event(turn)) \/ Delta \/ (StopRun \/ Shutdown) \/ EndRun \/ Finishes
      \/ (FireDraft \/ EditRead \/ EditLock \/ FlushLock) \/ EditSent \/ FlushSend
      \/ \E k \in Kinds : Fire(k) \/ Check(k) \/ Lock(k) \/ SendStatus(k) \/ StatusSent(k)
    BY Zenon DEF TgNext, Callbacks
<1>9. QED BY Zenon, <1>2, <1>3, <1>4, <1>5, <1>6, <1>7, <1>8

-----------------------------------------------------------------------------
(* The components together. *)

LEMMA ChannelsStep ==
    ASSUME [ChannelsNext]_channelVars
    PROVE  [OutboundNext]_obVars /\ [TgNext]_tgVars /\ [MediaNext]_msVars
BY DEF ChannelsNext, channelVars, OnlyOutbound, OnlyLog, OnlyTelegram, OnlyText, OnlyMedia

\* In every reachable state a Deliver stream had a gapless stretch of what the worker fanned out and the answers of the
\* publishers agree with what the streams had (deliver, Acknowledge), the runtime knows the errors of the workers it
\* joined (joinRuntimeWorkerError), and some scope that the sweep spares names the media of every message accepted and
\* every turn stored (retainMedia, SweepMedia).
THEOREM ChannelsInvariant == ChannelsSpec => [](OutInv /\ MediaInv)
<1>1. ChannelsInit => OutInv /\ MediaInv
    BY StreamsStart, JoinStart, MediaStarts DEF ChannelsInit, OutInv
<1>2. OutInv /\ MediaInv /\ [ChannelsNext]_channelVars => (OutInv /\ MediaInv)'
  <2>1. SUFFICES ASSUME OutInv, MediaInv, [ChannelsNext]_channelVars PROVE OutInv' /\ MediaInv'
    OBVIOUS
  <2>2. [OutboundNext]_obVars /\ [MediaNext]_msVars
    BY <2>1, ChannelsStep
  <2>3. QED BY <2>1, <2>2, StreamsStep, JoinStep, MediaStep DEF OutInv
<1>3. QED BY <1>1, <1>2, PTL DEF ChannelsSpec

\* A publisher that is told of a failure knows that nobody got its message, a subscribed stream had every message fanned
\* out since it began and each once, in order, and a runtime that ended joining its workers returns the error of the
\* one that failed (the bridge's deliver and Subscribe, bus Acknowledge, joinRuntimeWorkerError).
THEOREM OutboundSafeCorrect == ChannelsSpec => []OutboundSafe
<1>1. OutInv => OutboundSafe
    BY OutboundIsSafe DEF OutInv
<1>2. QED BY <1>1, ChannelsInvariant, PTL

\* Every reference in a message that was accepted, in a turn stored and in what attach_media accepted resolves, and what
\* a scope names is stored, through sweeps that run beside uploads and sends, failed writes and crashes (FileStore.Store,
\* ReleaseAll, the media sweep).
THEOREM MediaSafeCorrect == ChannelsSpec => []MediaSafe
<1>1. MediaInv => MediaSafe
    BY MediaIsSafe
<1>2. QED BY <1>1, ChannelsInvariant, PTL

\* A Telegram session whose calls fail, whose timers fire late and which may be stopped at any step holds opMu over each
\* call, has a timer for each change of its preview, and accounts for every status message and preview that stays in
\* the chat by a call that failed (agent_endpoint.go, draft.go).
THEOREM TelegramInvariant == ChannelsSpec => []TgInv
<1>1. ChannelsInit => TgInv
    BY TgStarts DEF ChannelsInit
<1>2. TgInv /\ [ChannelsNext]_channelVars => TgInv'
    BY ChannelsStep, TgStep
<1>3. QED BY <1>1, <1>2, PTL DEF ChannelsSpec

\* When a run is over the chat holds at most as many status messages and previews as calls of the Bot API failed
\* (Finish, Abort, deleteStatusMessage, disableDraft).
THEOREM ChatIsCleanCorrect == ChannelsSpec => []ChatIsClean
<1>1. TgInv => ChatIsClean
    BY TgIsClean
<1>2. QED BY <1>1, TelegramInvariant, PTL

\* A change of a preview that can be seen has a timer that will take it out, also when it comes while the preview is
\* being sent or when its callback waits for opMu (scheduleDraft, flushDraft).
THEOREM PreviewIsArmedCorrect == ChannelsSpec => []PreviewIsArmed
<1>1. TgInv => PreviewIsArmed
    BY TgIsClean
<1>2. QED BY <1>1, TelegramInvariant, PTL

\* Nothing late changes the chat: the callbacks that a finished session leaves behind end without a call (showStatus,
\* flushStatusEdit, flushDraft under opMu).
THEOREM QuietAfterEndCorrect == ChannelsSpec => QuietAfterEnd
<1>1. TgInv /\ [ChannelsNext]_channelVars => [fin.pc = "done" => chat' = chat /\ status' = status]_tgVars
    BY ChannelsStep, TgIsQuiet
<1>2. QED BY <1>1, TelegramInvariant, PTL DEF ChannelsSpec, QuietAfterEnd
=============================================================================
