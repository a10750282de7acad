------------------------------ MODULE MediaStore ------------------------------
(***************************************************************************)
(* The media store (media/store.go, sweep.go) with everyone who uses it:   *)
(* uploads and sends of the web interface and the hourly sweep             *)
(* (channel/bridge/media.go), attachments that arrive from Telegram        *)
(* (channel/telegram/channel.go) and the attach_media tool. A content      *)
(* stands for its hash, its reference and its object. mu makes every       *)
(* operation on the files one step, which can fail after any of its writes.*)
(***************************************************************************)
EXTENDS Integers, Sequences, FiniteSets, SequencesExt

CONSTANTS Contents, Detected, KindOf, \* file contents, what http.DetectContentType says, the kind of the message
          MaxScopes,      \* bound: scopes of the web interface
          MaxUpdates,     \* bound: messages from Telegram
          MaxTurns,       \* bound: turns in the transcript
          MaxMediaFaults  \* bound: failures and crashes
ASSUME MediaAssumption == {MaxScopes, MaxUpdates, MaxTurns, MaxMediaFaults} \subseteq Nat

VARIABLES disk,       \* object files, reference records, the content type in each record
          scopes,     \* scope records: their references, whether younger than a day
          nScopes,    \* scopes of the web interface so far: their names are never used again
          rpc,        \* the send of a browser that is being worked on
          known,      \* references browsers were given
          queue, transcript, \* references of the sends accepted, and of the turns stored
          inbound,    \* the Telegram handler, and the session it runs in
          updates,    \* messages Telegram holds
          sweep, attached, \* sweepMedia; the contents attach_media accepted
          mfaults
msVars == <<disk, scopes, nScopes, rpc, known, queue, transcript, inbound, updates, sweep, attached, mfaults>>

NoSend == [pc |-> "idle", parts |-> <<>>, k |-> 0, id |-> 0]
NoMessage == [pc |-> "idle", content |-> 0]
NoSweep == [pc |-> "idle", old |-> {}, cursor |-> 0, keep |-> {}, todo |-> {}]
Telegram == 0
Tool == -1
Web == 1..MaxScopes
MediaInit ==
    /\ disk = [objects |-> {}, refs |-> {}, type |-> [c \in Contents |-> "none"]]
    /\ nScopes = 0 /\ scopes = [s \in {} |-> [refs |-> {}, fresh |-> TRUE]] /\ rpc = NoSend /\ known = {} /\ queue = <<>> /\ transcript = <<>>
    /\ inbound = [poll |-> "session", msg |-> NoMessage] /\ updates = 0 /\ sweep = NoSweep /\ attached = {} /\ mfaults = 0

MediaFault == mfaults < MaxMediaFaults /\ mfaults' = mfaults + 1
NextScope == nScopes + 1
Resolves(c) == c \in disk.refs /\ c \in disk.objects

\* The first record of a content decides its type.
mergeMeta(c, type) == [disk.type EXCEPT ![c] = IF c \in disk.refs /\ @ # "none" THEN @ ELSE type]
\* Store: the object, the reference record, then the scope; upto says how far it gets.
Written(c, type, s, upto) ==
    /\ disk' = [objects |-> disk.objects \cup (IF upto = "nothing" THEN {} ELSE {c}),
                refs |-> disk.refs \cup (IF upto \in {"ref", "scope"} THEN {c} ELSE {}),
                type |-> IF upto \in {"ref", "scope"} THEN mergeMeta(c, type) ELSE disk.type]
    /\ scopes' = IF upto # "scope" THEN scopes
                 ELSE [t \in DOMAIN scopes \cup {s} |-> [refs |-> (IF t \in DOMAIN scopes THEN scopes[t].refs ELSE {}) \cup (IF t = s THEN {c} ELSE {}),
                                                         fresh |-> t = s \/ scopes[t].fresh]]
Stored(c, type, s) == Written(c, type, s, "scope") /\ UNCHANGED mfaults
StoreFails(c, type, s) == MediaFault /\ \E upto \in {"nothing", "object", "ref"} : Written(c, type, s, upto)

-----------------------------------------------------------------------------
(* The web interface *)

sniffMedia(type) == IF type = "application/ogg" THEN "audio/ogg" ELSE type
PutMedia(c) ==
    /\ rpc.pc = "idle" /\ NextScope \in Web
    /\ \/ Stored(c, sniffMedia(Detected[c]), NextScope) /\ known' = known \cup {c}
       \/ StoreFails(c, sniffMedia(Detected[c]), NextScope) /\ UNCHANGED known
    /\ nScopes' = NextScope /\ UNCHANGED <<rpc, queue, transcript, inbound, updates, sweep, attached>>
Send(parts) ==
    /\ rpc.pc = "idle" /\ NextScope \in Web /\ ToSet(parts) \subseteq known
    /\ Len(queue) + Len(transcript) < MaxTurns
    /\ rpc' = [pc |-> "resolve", parts |-> parts, k |-> 1, id |-> NextScope] /\ nScopes' = NextScope
    /\ UNCHANGED <<disk, scopes, known, queue, transcript, inbound, updates, sweep, attached, mfaults>>
Part == rpc.parts[rpc.k]
Refused == rpc' = NoSend /\ UNCHANGED queue
SendResolve ==
    /\ rpc.pc = "resolve" /\ UNCHANGED queue
    /\ rpc' = IF Resolves(Part) THEN [rpc EXCEPT !.pc = "hash"] ELSE NoSend
    /\ UNCHANGED <<disk, scopes, nScopes, known, transcript, inbound, updates, sweep, attached, mfaults>>
\* Store reads the object it is given before it takes mu.
SendHash ==
    /\ rpc.pc = "hash" /\ UNCHANGED queue
    /\ rpc' = IF Part \in disk.objects THEN [rpc EXCEPT !.pc = "retain"] ELSE NoSend
    /\ UNCHANGED <<disk, scopes, nScopes, known, transcript, inbound, updates, sweep, attached, mfaults>>

Retain == Stored(Part, disk.type[Part], rpc.id)
\* The source is the object itself: it is copied again only if it is still there. The send may also be
\* cancelled before it is published.
SendRetain ==
    /\ rpc.pc = "retain"
    /\ \/ Part \notin disk.objects /\ Refused /\ UNCHANGED <<disk, scopes, mfaults>>
       \/ /\ Part \in disk.objects /\ Retain
          /\ IF rpc.k < Len(rpc.parts) THEN rpc' = [rpc EXCEPT !.pc = "resolve", !.k = @ + 1] /\ UNCHANGED queue
             ELSE Refused \/ (rpc' = NoSend /\ queue' = Append(queue, ToSet(rpc.parts)))
       \/ Part \in disk.objects /\ StoreFails(Part, disk.type[Part], rpc.id) /\ Refused
    /\ UNCHANGED <<nScopes, known, transcript, inbound, updates, sweep, attached>>
\* A run takes the oldest message; its turn is stored, or the run fails.
RunMessage ==
    /\ queue # <<>> /\ queue' = Tail(queue)
    /\ transcript' \in {transcript, Append(transcript, Head(queue))}
    /\ UNCHANGED <<disk, scopes, nScopes, rpc, known, inbound, updates, sweep, attached, mfaults>>

-----------------------------------------------------------------------------
(* The sweep *)

\* Scopes at least a day old when it starts; then the transcript, a page (here: a turn) at a time.
SweepMedia ==
    /\ sweep.pc = "idle"
    /\ sweep' = [NoSweep EXCEPT !.pc = "turns", !.old = {s \in DOMAIN scopes \cap Web : ~scopes[s].fresh}]
    /\ UNCHANGED <<disk, scopes, nScopes, rpc, known, queue, transcript, inbound, updates, attached, mfaults>>
SweepPage ==
    /\ sweep.pc = "turns"
    /\ sweep' = IF transcript = <<>> THEN [sweep EXCEPT !.pc = "scopes"]
                ELSE [sweep EXCEPT !.cursor = @ + 1, !.keep = @ \cup transcript[sweep.cursor + 1],
                                   !.pc = IF sweep.cursor + 1 < Len(transcript) THEN "turns" ELSE "scopes"]
    /\ UNCHANGED <<disk, scopes, nScopes, rpc, known, queue, transcript, inbound, updates, attached, mfaults>>

\* fault: the transcript is not asked.
expiredAll == sweep.old \cap DOMAIN scopes

expiredWebScopes == {s \in sweep.old \cap DOMAIN scopes : scopes[s].refs \cap sweep.keep = {}}
SweepScopes ==
    /\ sweep.pc = "scopes" /\ sweep' = [sweep EXCEPT !.pc = "release", !.todo = expiredWebScopes]
    /\ UNCHANGED <<disk, scopes, nScopes, rpc, known, queue, transcript, inbound, updates, attached, mfaults>>

Others(s) == [t \in DOMAIN scopes \ {s} |-> scopes[t]]
\* fault: the references of other scopes are not looked at.
RemainingNone(s) == {}

loadRemainingRefs(s) == UNION {scopes[t].refs : t \in DOMAIN Others(s)}
\* The scope record goes first; after a failure the rest stays, and the sweep is over.
ReleaseAll(s) ==
    LET gone == scopes[s].refs \ loadRemainingRefs(s)
    IN /\ scopes' = Others(s)
       /\ \/ /\ disk' = [disk EXCEPT !.objects = @ \ gone, !.refs = @ \ gone]
             /\ sweep' = [sweep EXCEPT !.todo = @ \ {s}] /\ UNCHANGED mfaults
          \/ /\ MediaFault /\ sweep' = NoSweep
             /\ disk' \in {disk} \cup {[disk EXCEPT !.objects = @ \ {c}] : c \in gone}
SweepRelease ==
    /\ sweep.pc = "release"
    /\ \/ \E s \in sweep.todo : ReleaseAll(s)
       \/ sweep.todo = {} /\ sweep' = NoSweep /\ UNCHANGED <<disk, scopes, mfaults>>
    /\ UNCHANGED <<nScopes, rpc, known, queue, transcript, inbound, updates, attached>>
\* A day passes. No send waits that long for its run.
Age ==
    /\ queue = <<>> /\ rpc.pc = "idle" /\ inbound.msg.pc = "idle" /\ \E s \in DOMAIN scopes : scopes[s].fresh
    /\ scopes' = [s \in DOMAIN scopes |-> [scopes[s] EXCEPT !.fresh = FALSE]]
    /\ UNCHANGED <<disk, nScopes, rpc, known, queue, transcript, inbound, updates, sweep, attached, mfaults>>

-----------------------------------------------------------------------------
(* Telegram *)

Update ==
    /\ updates + (IF inbound.msg.pc = "idle" THEN 0 ELSE 1) + Len(queue) + Len(transcript) < MaxUpdates /\ updates' = updates + 1
    /\ UNCHANGED <<disk, scopes, nScopes, rpc, known, queue, transcript, inbound, sweep, attached, mfaults>>
\* The session ends on its own, or cannot be started again; superviseLongPolling waits and retries.
PollingEnds ==
    /\ inbound.poll \in {"session", "start"} /\ inbound.msg.pc = "idle" /\ MediaFault /\ inbound' = [inbound EXCEPT !.poll = "sleep"]
    /\ UNCHANGED <<disk, scopes, nScopes, rpc, known, queue, transcript, updates, sweep, attached>>

\* fault: a session that could not be started is the last one.
sleepOnce == inbound' = [inbound EXCEPT !.poll = IF mfaults < MaxMediaFaults THEN "start" ELSE "ended"]

sleepContext == inbound' = [inbound EXCEPT !.poll = "start"]
superviseLongPolling ==
    /\ \/ inbound.poll = "sleep" /\ sleepContext
       \/ inbound.poll = "start" /\ inbound' = [inbound EXCEPT !.poll = "session"]
    /\ UNCHANGED <<disk, scopes, nScopes, rpc, known, queue, transcript, updates, sweep, attached, mfaults>>
\* A message of a user who is not on the allowlist is ignored.
handleMessage ==
    /\ inbound.poll = "session" /\ inbound.msg.pc = "idle" /\ updates > 0 /\ updates' = updates - 1
    /\ \/ \E c \in Contents : inbound' = [inbound EXCEPT !.msg = [pc |-> "download", content |-> c]]
       \/ UNCHANGED inbound
    /\ UNCHANGED <<disk, scopes, nScopes, rpc, known, queue, transcript, sweep, attached, mfaults>>
\* The message goes on with its media, or with a note that there was some.
HandOn(refs) == queue' = Append(queue, refs) /\ inbound' = [inbound EXCEPT !.msg = NoMessage]
downloadTelegramFile ==
    /\ inbound.msg.pc = "download"
    /\ \/ inbound' = [inbound EXCEPT !.msg.pc = "store"] /\ UNCHANGED <<queue, mfaults>>
       \/ MediaFault /\ HandOn({})
    /\ UNCHANGED <<disk, scopes, nScopes, rpc, known, transcript, updates, sweep, attached>>

IngestFails(c) == HandOn({})
storeAttachment ==
    LET c == inbound.msg.content
    IN /\ inbound.msg.pc = "store"
       /\ \/ Stored(c, Detected[c], Telegram) /\ HandOn({c})
          \/ StoreFails(c, Detected[c], Telegram) /\ IngestFails(c)
       /\ UNCHANGED <<nScopes, rpc, known, transcript, updates, sweep, attached>>

-----------------------------------------------------------------------------
(* attach_media, and what the Telegram channel accepts *)

normalizeAudioContentType(kind, type) == IF kind = "audio" /\ type = "application/ogg" THEN "audio/ogg" ELSE type
TypesOf(kind) == IF kind = "audio" THEN {"audio/ogg", "audio/mpeg"} ELSE {"image/png"}
Accepted(kind, type) == normalizeAudioContentType(kind, type) \in TypesOf(kind)
AttachPath(c) ==
    LET kind == KindOf[c]
        type == normalizeAudioContentType(kind, Detected[c])
    IN /\ Accepted(kind, Detected[c])
       /\ \/ Stored(c, type, Tool) /\ attached' = attached \cup {c}
          \/ StoreFails(c, type, Tool) /\ UNCHANGED attached
       /\ UNCHANGED <<nScopes, rpc, known, queue, transcript, inbound, updates, sweep>>
AttachRef(c) ==
    /\ \E k \in DOMAIN transcript : c \in transcript[k]
    /\ Resolves(c) /\ Accepted(KindOf[c], disk.type[c]) /\ attached' = attached \cup {c}
    /\ UNCHANGED <<disk, scopes, nScopes, rpc, known, queue, transcript, inbound, updates, sweep, mfaults>>

MediaCrash ==
    /\ MediaFault /\ rpc' = NoSend /\ queue' = <<>> /\ sweep' = NoSweep /\ inbound' = [poll |-> "start", msg |-> NoMessage]
    /\ UNCHANGED <<disk, scopes, nScopes, known, transcript, updates, attached>>

MediaSystem == SendResolve \/ SendHash \/ SendRetain \/ RunMessage \/ superviseLongPolling \/ handleMessage
               \/ downloadTelegramFile \/ storeAttachment
MediaNext ==
    \/ MediaSystem \/ Update \/ PollingEnds \/ MediaCrash \/ Age \/ SweepMedia \/ SweepPage \/ SweepScopes \/ SweepRelease
    \/ \E c \in Contents : PutMedia(c) \/ AttachPath(c) \/ AttachRef(c)
    \/ \E c, d \in Contents : Send(<<c>>) \/ Send(<<c, d>>)
MediaSpec == MediaInit /\ [][MediaNext]_msVars
\* Threads run on. A session is retried as often as it ends.
MediaFairness == WF_msVars(MediaSystem)

-----------------------------------------------------------------------------
\* A reference in a message that was accepted can be resolved, from then on and for as long as its turn is in
\* the transcript, and so can one that attach_media accepted: against the sweep (which lists scopes, then releases them one by one), against an upload
\* that shares its content, and across failed writes and crashes.
AcceptedMediaResolves ==
    \A c \in attached \cup UNION (ToSet(queue) \cup ToSet(transcript)) : Resolves(c)

\* What scopes name is stored, whatever write failed.
ScopesAreBacked == \A s \in DOMAIN scopes : \A c \in scopes[s].refs : Resolves(c)

\* What must end: messages that wait at Telegram, however often the polling session breaks.
UpdatesWait == updates > 0 /\ Len(queue) + Len(transcript) < MaxUpdates
=============================================================================
