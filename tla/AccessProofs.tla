---------------------------- MODULE AccessProofs ----------------------------
(***************************************************************************)
(* Proofs about what stands between the agent and a model: the live roster *)
(* of models (ModelRoster), the OAuth tokens (OAuthTokens) and the secrets *)
(* the containers read (SecretStore), for every configuration, roster,     *)
(* number of callers, token pairs, names, values and faults.  RosterInv,   *)
(* AuthInv and SecretInv are inductive.                                    *)
(***************************************************************************)
EXTENDS MCModelAccess, WellFoundedInduction, TLAPS

(* The OAuth tokens. *)
Creds == [access : 0..MaxPairs, refresh : 0..MaxPairs]
CallerPcs == {"rest", "waiting", "refresh", "save", "clear", "cleared", "served", "failed"}
Holding == {"refresh", "save", "clear", "cleared"}
CallStates == [pc : CallerPcs, cred : Creds, seen : {"none", "fresh", "stale", "expired"}]

AuthTyped ==
    /\ auth \in Creds /\ caller \in [Callers -> CallStates] /\ credMu \in Callers \cup {Nobody}
    /\ login \in [pc : {"none", "poll", "save"}, cred : Creds]
    /\ issued \in 1..MaxPairs /\ valid \in SUBSET (1..issued)
    /\ age \in [Pairs -> {"fresh", "stale", "expired"}]
    /\ presented \in [Pairs -> Nat] /\ excused \in [Pairs -> Nat]
    /\ overtaken \in BOOLEAN /\ lapses \in Nat /\ logins \in Nat

\* The credential of a call, and what its position says of the token it holds.
CallOK(c) ==
    /\ caller[c].pc \in Holding <=> credMu = c
    /\ caller[c].cred.access <= issued /\ caller[c].cred.refresh <= issued
    /\ caller[c].pc \in {"rest", "waiting"} => caller[c].cred = NoCred
    /\ login.pc = "save" => caller[c].cred.refresh # login.cred.refresh
    /\ caller[c].pc = "refresh" =>
          /\ caller[c].cred.refresh # 0
          /\ presented[caller[c].cred.refresh] <= excused[caller[c].cred.refresh]
          /\ overtaken \/ auth.refresh = caller[c].cred.refresh
    /\ caller[c].pc = "save" => caller[c].cred.refresh # 0 /\ presented[caller[c].cred.refresh] = 0
    /\ caller[c].pc \in {"save", "served"} =>
          caller[c].cred.access # 0 /\ caller[c].seen = "fresh" /\ age[caller[c].cred.access] # "expired"
    /\ caller[c].pc = "clear" => overtaken \/ auth.refresh \notin valid
    /\ caller[c].pc = "cleared" =>
          caller[c].cred.refresh = 0 /\ (overtaken \/ auth.refresh \notin valid)

\* A token that was handed out is in one place until it is sent.
FileOK ==
    /\ auth.access <= issued /\ auth.refresh <= issued
    /\ \A i \in Pairs : i > issued => presented[i] = 0 /\ age[i] = "fresh"
    /\ login.pc = "save" =>
          /\ login.cred.refresh \in 1..issued /\ presented[login.cred.refresh] = 0
          /\ login.cred.refresh # auth.refresh /\ login.cred.access <= issued

\* What is in the file has not been sent more often than excused, but for the
\* token of the call that has sent it and not yet replaced it.
SendableOK ==
    auth.refresh # 0 /\ (\A c \in Callers : caller[c].pc \notin {"save", "clear", "cleared"})
      => presented[auth.refresh] <= excused[auth.refresh]

AuthInv ==
    /\ AuthTyped /\ (\A c \in Callers : CallOK(c)) /\ FileOK /\ SendableOK /\ RefreshedOnce

(* The secrets. *)
Kinds == {"none"} \cup SealKinds
SecretSteps == {"none", "read", "delete", "store", "record", "stored", "failed"}
SlotRecords == [kind : Kinds, key : Nat, name : 0..MaxSecrets, value : 0..MaxSecrets]
PodmanRecords == [id : 0..MaxSecrets, kind : Kinds]
Commands == [verb : {"none", "set", "provision"}, step : SecretSteps, name : SecretNames \cup {"none"},
             kind : Kinds, value : 0..MaxSecrets, todo : SUBSET SecretNames, ok : BOOLEAN]

SecretTyped ==
    /\ host \in [seals : BOOLEAN, hands : BOOLEAN] /\ machine \in Nat
    /\ slots \in [PodmanSlots -> SlotRecords] /\ records \in [SecretNames -> PodmanRecords]
    /\ cmd \in Commands /\ made \in 0..MaxSecrets
    /\ current \in [SecretNames -> 0..MaxSecrets] /\ shaken \in SUBSET SecretNames

\* A slot that holds the payload of a record of kind k under identifier id.
Backs(id, k) == slots[id].kind = k /\ slots[id].name = id /\ slots[id].value = id

\* What podman knows of a name is sealed in its slot, with this machine's key unless the name is shaken.
NameOK(n) ==
    /\ records[n].id # 0 =>
          /\ records[n].kind \in SealKinds /\ runCrypto(records[n].kind, TRUE)
          /\ records[n].id \in 1..made /\ Backs(records[n].id, records[n].kind)
          /\ current[n] = records[n].id
          /\ n \notin shaken /\ records[n].kind = "systemd-creds" => slots[records[n].id].key = machine
    /\ records[n].id = 0 /\ n \notin shaken => current[n] = 0

Distinct == \A m, n \in SecretNames : records[m].id = records[n].id /\ records[m].id # 0 => m = n

\* Where the command is, and what it has done so far.
CommandOK ==
    /\ cmd.step \in {"read", "delete", "store", "record"} => cmd.kind \in SealKinds
    /\ cmd.step \in {"delete", "store", "record"} =>
          /\ cmd.name \in SecretNames /\ cmd.value \in 1..made
          /\ \A n \in SecretNames : records[n].id # cmd.value
    /\ cmd.step = "record" =>
          /\ runCrypto(cmd.kind, TRUE) /\ Backs(cmd.value, cmd.kind)
          /\ slots[cmd.value].key = machine
    /\ cmd.step = "failed" /\ host.hands => cmd.ok
    /\ cmd.step = "stored" => cmd.todo = {}

\* Whatever provision is past can be read.
Provisioned ==
    cmd.verb = "provision" /\ cmd.step \in {"read", "delete", "store", "record", "stored"} =>
        \A n \in SecretNames : records[n].id # 0 /\ n \notin cmd.todo /\ ~(cmd.step = "delete" /\ n = cmd.name)
            => driverLookup(n) # 0

SecretInv == /\ SecretTyped /\ (\A n \in SecretNames : NameOK(n)) /\ Distinct /\ CommandOK /\ Provisioned

-----------------------------------------------------------------------------
(* The OAuth tokens: what a step of one call leaves alone. *)

LEMMA NoCredIs == NoCred \in Creds /\ NoCred.access = 0 /\ NoCred.refresh = 0
<1>1. 0 \in 0..MaxPairs
    BY AuthAssumption
<1>2. QED BY <1>1 DEF NoCred, Creds

LEMMA CallFacts ==
    ASSUME AuthInv, NEW CONSTANT c \in Callers
    PROVE  /\ caller[c] \in CallStates /\ caller[c].cred \in Creds /\ caller[c].cred.access \in Nat
           /\ caller[c].cred.refresh \in Nat /\ CallOK(c)
           /\ auth \in Creds /\ auth.access \in Nat /\ auth.refresh \in Nat
           /\ issued \in Nat /\ issued \in 1..MaxPairs /\ MaxPairs \in Nat
           /\ presented \in [Pairs -> Nat] /\ excused \in [Pairs -> Nat]
           /\ c # Nobody
<1>1. caller[c] \in CallStates /\ auth \in Creds /\ issued \in 1..MaxPairs /\ MaxPairs \in Nat
    BY AuthAssumption DEF AuthInv, AuthTyped
<1>2. caller[c].cred \in Creds
    BY <1>1 DEF CallStates
<1>3. auth.access \in Nat /\ auth.refresh \in Nat /\ caller[c].cred.access \in Nat /\ caller[c].cred.refresh \in Nat
    BY <1>1, <1>2 DEF Creds
<1>4. QED BY <1>1, <1>2, <1>3, AuthAssumption DEF AuthInv, AuthTyped

LEMMA GotoIs ==
    ASSUME AuthInv, NEW CONSTANT c \in Callers, NEW CONSTANT pc \in CallerPcs, NEW CONSTANT cred \in Creds,
           Goto(c, pc, cred)
    PROVE  /\ caller' \in [Callers -> CallStates] /\ caller'[c].pc = pc /\ caller'[c].cred = cred
           /\ (\A d \in Callers : d # c => caller'[d] = caller[d])
           /\ (cred = caller[c].cred => caller'[c].seen = caller[c].seen)
           /\ (cred # caller[c].cred /\ cred.access # 0 => caller'[c].seen = age[cred.access])
<1>1. PICK s : s = IF cred = caller[c].cred THEN caller[c].seen
                   ELSE IF cred.access = 0 THEN "none" ELSE age[cred.access]
    OBVIOUS
<1>2. caller' = [caller EXCEPT ![c] = [pc |-> pc, cred |-> cred, seen |-> s]]
    BY <1>1 DEF Goto
<1>3. caller \in [Callers -> CallStates] /\ caller[c] \in CallStates /\ age \in [Pairs -> {"fresh", "stale", "expired"}]
    BY DEF AuthInv, AuthTyped
<1>4. s \in {"none", "fresh", "stale", "expired"}
  <2>1. CASE cred = caller[c].cred
    BY <1>1, <1>3, <2>1 DEF CallStates
  <2>2. CASE cred # caller[c].cred /\ cred.access = 0
    BY <1>1, <2>2
  <2>3. CASE cred # caller[c].cred /\ cred.access # 0
    <3>1. cred.access \in Pairs
      BY <2>3, AuthAssumption DEF Creds, Pairs
    <3>2. QED BY <1>1, <1>3, <2>3, <3>1
  <2>4. QED BY <2>1, <2>2, <2>3
<1>5. PICK r : r = [pc |-> pc, cred |-> cred, seen |-> s]
    OBVIOUS
<1>6. r \in CallStates /\ r.pc = pc /\ r.cred = cred /\ r.seen = s
    BY <1>4, <1>5 DEF CallStates
<1>7. caller' = [caller EXCEPT ![c] = r]
    BY <1>2, <1>5
<1>8. caller' \in [Callers -> CallStates] /\ caller'[c] = r /\ \A d \in Callers : d # c => caller'[d] = caller[d]
    BY <1>3, <1>6, <1>7
<1>9. QED BY <1>1, <1>6, <1>8

\* The mutex: while a call holds it, the others are where they do not touch the file.
LEMMA OthersWait ==
    ASSUME AuthInv, NEW CONSTANT c \in Callers, credMu \in {c, Nobody}
    PROVE  \A d \in Callers : d # c => caller[d].pc \notin Holding
BY AuthAssumption DEF AuthInv, CallOK

LEMMA CallerStep ==
    ASSUME AuthInv, NEW CONSTANT c \in Callers, credMu \in {c, Nobody}, credMu' \in {c, Nobody},
           \A d \in Callers : d # c => caller'[d] = caller[d],
           UNCHANGED <<login, age>>, issued <= issued', issued' \in Nat,
           AuthTyped', CallOK(c)', FileOK', SendableOK', RefreshedOnce'
    PROVE  AuthInv'
<1>1. ASSUME NEW CONSTANT d \in Callers, d # c PROVE CallOK(d)'
  <2>1. /\ CallOK(d) /\ caller[d].pc \notin Holding /\ caller'[d] = caller[d] /\ issued \in Nat
        /\ caller[d].cred.access \in Nat /\ caller[d].cred.refresh \in Nat
    BY <1>1, OthersWait, CallFacts
  <2>2. credMu' # d
    BY <1>1, AuthAssumption
  <2>3. caller[d].pc \notin {"refresh", "save", "clear", "cleared"}
    BY <2>1 DEF Holding
  <2>4. caller[d].cred.access <= issued' /\ caller[d].cred.refresh <= issued'
    BY <2>1 DEF CallOK
  <2>5. QED BY <2>1, <2>2, <2>3, <2>4 DEF CallOK
<1>2. QED BY <1>1 DEF AuthInv

\* SendableOK when nothing of the tokens changes and no call leaves the sent state.
LEMMA SendableKept ==
    ASSUME AuthInv, UNCHANGED <<auth, presented, excused>>,
           \A d \in Callers : caller[d].pc \in {"save", "clear", "cleared"} => caller'[d].pc \in {"save", "clear", "cleared"}
    PROVE  SendableOK'
BY DEF AuthInv, SendableOK

LEMMA LapseIs ==
    ASSUME AuthInv, NEW CONSTANT t \in Pairs, Lapse(t)
    PROVE  /\ lapses' \in Nat /\ excused' \in [Pairs -> Nat] /\ excused'[t] = excused[t] + 1
           /\ \A u \in Pairs : u # t => excused'[u] = excused[u]
<1>1. lapses \in Nat /\ excused \in [Pairs -> Nat]
    BY DEF AuthInv, AuthTyped
<1>2. excused[t] + 1 \in Nat
    BY <1>1
<1>3. QED BY <1>1, <1>2 DEF Lapse

LEMMA PresentIs ==
    ASSUME AuthInv, NEW CONSTANT t \in Pairs, Present(t)
    PROVE  /\ presented' \in [Pairs -> Nat] /\ presented'[t] = presented[t] + 1
           /\ \A u \in Pairs : u # t => presented'[u] = presented[u]
<1>1. presented \in [Pairs -> Nat]
    BY DEF AuthInv, AuthTyped
<1>2. presented[t] + 1 \in Nat
    BY <1>1
<1>3. QED BY <1>1, <1>2 DEF Present

LEMMA LoadKeeps ==
    ASSUME AuthInv, NEW CONSTANT c \in Callers, LoadOpenAIToken(c)
    PROVE  AuthInv'
<1>1. /\ caller[c].pc = "rest" /\ Goto(c, "waiting", NoCred)
      /\ UNCHANGED <<auth, credMu, login, issued, valid, age, presented, excused, overtaken, lapses, logins>>
    BY DEF LoadOpenAIToken
<1>2. "waiting" \in CallerPcs /\ NoCred \in Creds
    BY NoCredIs DEF CallerPcs
<1>3. /\ caller' \in [Callers -> CallStates] /\ caller'[c].pc = "waiting" /\ caller'[c].cred = NoCred
      /\ \A d \in Callers : d # c => caller'[d] = caller[d]
    BY <1>1, <1>2, GotoIs
<1>4. caller[c].cred = NoCred /\ CallOK(c) /\ credMu # c
    BY <1>1 DEF AuthInv, CallOK, Holding
<1>5. AuthTyped'
    BY <1>1, <1>3 DEF AuthInv, AuthTyped
<1>6. ASSUME NEW CONSTANT d \in Callers PROVE CallOK(d)'
  <2>1. CallOK(d)
    BY DEF AuthInv
  <2>2. CASE d = c
    BY <1>1, <1>3, <1>4, <2>2 DEF CallOK, Holding
  <2>3. CASE d # c
    BY <1>1, <1>3, <2>1, <2>3 DEF CallOK
  <2>4. QED BY <2>2, <2>3
<1>7. SendableOK'
    BY <1>1, <1>3, SendableKept
<1>8. FileOK' /\ RefreshedOnce'
    BY <1>1 DEF AuthInv, FileOK, RefreshedOnce
<1>9. QED BY <1>5, <1>6, <1>7, <1>8 DEF AuthInv

LEMMA CallEndsKeeps ==
    ASSUME AuthInv, NEW CONSTANT c \in Callers, CallEnds(c)
    PROVE  AuthInv'
<1>1. /\ caller[c].pc \in {"served", "failed"} /\ caller' = [caller EXCEPT ![c] = Resting]
      /\ UNCHANGED <<auth, credMu, login, issued, valid, age, presented, excused, overtaken, lapses, logins>>
    BY DEF CallEnds
<1>2. Resting \in CallStates /\ Resting.pc = "rest" /\ Resting.cred = NoCred
    BY NoCredIs DEF Resting, CallStates, CallerPcs
<1>3. /\ caller' \in [Callers -> CallStates] /\ caller'[c] = Resting
      /\ \A d \in Callers : d # c => caller'[d] = caller[d]
    BY <1>1, <1>2 DEF AuthInv, AuthTyped
<1>4. credMu # c
    BY <1>1 DEF AuthInv, CallOK, Holding
<1>5. AuthTyped'
    BY <1>1, <1>3 DEF AuthInv, AuthTyped
<1>6. ASSUME NEW CONSTANT d \in Callers PROVE CallOK(d)'
  <2>1. CallOK(d)
    BY DEF AuthInv
  <2>2. CASE d = c
    <3>1. 0 <= issued
      BY CallFacts
    <3>2. login.pc = "save" => login.cred.refresh # 0
      BY CallFacts DEF AuthInv, FileOK
    <3>3. QED BY <1>1, <1>2, <1>3, <1>4, <2>2, <3>1, <3>2, NoCredIs DEF CallOK, Holding
  <2>3. CASE d # c
    BY <1>1, <1>3, <2>1, <2>3 DEF CallOK
  <2>4. QED BY <2>2, <2>3
<1>7. SendableOK'
    BY <1>1, <1>3, SendableKept
<1>8. FileOK' /\ RefreshedOnce'
    BY <1>1 DEF AuthInv, FileOK, RefreshedOnce
<1>9. QED BY <1>5, <1>6, <1>7, <1>8 DEF AuthInv

\* resolveOpenAICredential, under the lock.
LEMMA ResolveKeeps ==
    ASSUME AuthInv, NEW CONSTANT c \in Callers, resolve(c)
    PROVE  AuthInv'
<1>1. /\ caller[c].pc = "waiting" /\ credMu = Nobody
      /\ UNCHANGED <<auth, login, issued, valid, age, presented, excused, overtaken, lapses, logins>>
      /\ \/ Goto(c, "failed", NoCred) /\ credMu' = credMu
         \/ auth.access # 0 /\ age[auth.access] = "fresh" /\ Goto(c, "served", auth) /\ credMu' = credMu
         \/ auth.refresh # 0 /\ Goto(c, "refresh", auth) /\ credMu' = c
  <2>1. /\ caller[c].pc = "waiting" /\ credMu = Nobody
        /\ UNCHANGED <<auth, login, issued, valid, age, presented, excused, overtaken, lapses, logins>>
        /\ CASE auth.access = 0      -> Goto(c, "failed", NoCred) /\ UNCHANGED credMu
             [] auth.access # 0 /\ ~NeedsRefresh(auth) -> Goto(c, "served", auth) /\ UNCHANGED credMu
             [] NeedsRefresh(auth) /\ auth.refresh = 0 -> Goto(c, "failed", NoCred) /\ UNCHANGED credMu
             [] OTHER                 -> Goto(c, "refresh", auth) /\ credMu' = c
    BY DEF resolve, Locked
  <2>2. CASE auth.access = 0
    <3>1. ~NeedsRefresh(auth)
      BY <2>2 DEF NeedsRefresh
    <3>2. QED BY <2>1, <2>2, <3>1
  <2>3. CASE auth.access # 0 /\ ~NeedsRefresh(auth)
    BY <2>1, <2>3 DEF NeedsRefresh
  <2>4. CASE auth.access # 0 /\ NeedsRefresh(auth) /\ auth.refresh = 0
    BY <2>1, <2>4
  <2>5. CASE auth.access # 0 /\ NeedsRefresh(auth) /\ auth.refresh # 0
    BY <2>1, <2>5
  <2>6. QED BY <2>2, <2>3, <2>4, <2>5
<1>2. /\ CallOK(c) /\ caller[c].cred = NoCred /\ NoCred \in Creds /\ auth \in Creds
      /\ NoCred.access = 0 /\ NoCred.refresh = 0
      /\ issued \in Nat /\ 0 <= issued /\ c # Nobody /\ auth.access \in Nat /\ auth.refresh \in Nat
    BY <1>1, CallFacts, NoCredIs DEF CallOK
<1>3. /\ FileOK /\ auth.access <= issued /\ auth.refresh <= issued
      /\ login.pc = "save" => login.cred.refresh # auth.refresh /\ login.cred.refresh # 0
    BY CallFacts DEF AuthInv, FileOK
<1>4. auth.refresh # 0 => presented[auth.refresh] <= excused[auth.refresh]
  <2>1. \A d \in Callers : caller[d].pc \notin Holding
    BY <1>1, OthersWait DEF Holding
  <2>2. QED BY <2>1 DEF AuthInv, SendableOK, Holding
<1>5. CASE Goto(c, "failed", NoCred) /\ credMu' = credMu
  <2>1. /\ caller' \in [Callers -> CallStates] /\ caller'[c].pc = "failed" /\ caller'[c].cred = NoCred
        /\ \A d \in Callers : d # c => caller'[d] = caller[d]
    <3>1. "failed" \in CallerPcs
      BY DEF CallerPcs
    <3>2. QED BY <1>2, <1>5, <3>1, GotoIs
  <2>2. AuthTyped'
    BY <1>1, <1>5, <2>1 DEF AuthInv, AuthTyped
  <2>3. CallOK(c)'
    BY <1>1, <1>2, <1>3, <1>5, <2>1 DEF CallOK, Holding
  <2>4. SendableOK' /\ FileOK' /\ RefreshedOnce'
    <3>1. SendableOK'
      BY <1>1, <2>1, SendableKept
    <3>2. QED BY <1>1, <3>1 DEF AuthInv, FileOK, RefreshedOnce
  <2>5. QED BY <1>1, <1>2, <1>5, <2>1, <2>2, <2>3, <2>4, CallerStep
<1>6. CASE auth.access # 0 /\ age[auth.access] = "fresh" /\ Goto(c, "served", auth) /\ credMu' = credMu
  <2>1. /\ caller' \in [Callers -> CallStates] /\ caller'[c].pc = "served" /\ caller'[c].cred = auth
        /\ caller'[c].seen = "fresh" /\ \A d \in Callers : d # c => caller'[d] = caller[d]
    <3>1. "served" \in CallerPcs /\ auth # NoCred
      BY <1>2, <1>6 DEF CallerPcs
    <3>2. QED BY <1>2, <1>6, <3>1, GotoIs
  <2>2. AuthTyped'
    BY <1>1, <1>6, <2>1 DEF AuthInv, AuthTyped
  <2>3. CallOK(c)'
    BY <1>1, <1>2, <1>3, <1>6, <2>1 DEF CallOK, Holding
  <2>4. SendableOK' /\ FileOK' /\ RefreshedOnce'
    <3>1. SendableOK'
      BY <1>1, <2>1, SendableKept
    <3>2. QED BY <1>1, <3>1 DEF AuthInv, FileOK, RefreshedOnce
  <2>5. QED BY <1>1, <1>2, <1>6, <2>1, <2>2, <2>3, <2>4, CallerStep
<1>7. CASE auth.refresh # 0 /\ Goto(c, "refresh", auth) /\ credMu' = c
  <2>1. /\ caller' \in [Callers -> CallStates] /\ caller'[c].pc = "refresh" /\ caller'[c].cred = auth
        /\ \A d \in Callers : d # c => caller'[d] = caller[d]
    <3>1. "refresh" \in CallerPcs
      BY DEF CallerPcs
    <3>2. QED BY <1>2, <1>7, <3>1, GotoIs
  <2>2. AuthTyped'
    BY <1>1, <1>7, <2>1 DEF AuthInv, AuthTyped
  <2>3. CallOK(c)'
    BY <1>1, <1>2, <1>3, <1>4, <1>7, <2>1 DEF CallOK, Holding
  <2>4. SendableOK' /\ FileOK' /\ RefreshedOnce'
    <3>1. SendableOK'
      BY <1>1, <2>1, SendableKept
    <3>2. QED BY <1>1, <3>1 DEF AuthInv, FileOK, RefreshedOnce
  <2>5. QED BY <1>1, <1>2, <1>7, <2>1, <2>2, <2>3, <2>4, CallerStep
<1>8. QED BY <1>1, <1>5, <1>6, <1>7

\* What the call that holds the lock to refresh knows.
LEMMA RefreshFacts ==
    ASSUME AuthInv, NEW CONSTANT c \in Callers, caller[c].pc = "refresh"
    PROVE  /\ credMu = c /\ caller[c].cred.refresh \in Pairs /\ caller[c].cred.refresh <= issued
           /\ presented[caller[c].cred.refresh] <= excused[caller[c].cred.refresh]
           /\ (overtaken \/ auth.refresh = caller[c].cred.refresh)
           /\ (auth.refresh # 0 => presented[auth.refresh] <= excused[auth.refresh])
           /\ (auth.refresh # 0 => auth.refresh \in Pairs)
           /\ (login.pc = "save" => caller[c].cred.refresh # login.cred.refresh)
           /\ FileOK /\ RefreshedOnce
<1>1. CallOK(c) /\ caller[c].cred.refresh \in Nat /\ issued \in 1..MaxPairs /\ MaxPairs \in Nat
      /\ auth.refresh \in Nat
    BY CallFacts
<1>2. credMu = c
    BY <1>1 DEF CallOK, Holding
<1>3. auth.refresh # 0 => presented[auth.refresh] <= excused[auth.refresh]
  <2>1. \A d \in Callers : caller[d].pc \notin {"save", "clear", "cleared"}
    BY <1>2, OthersWait DEF Holding
  <2>2. QED BY <2>1 DEF AuthInv, SendableOK
<1>4. FileOK /\ RefreshedOnce
    BY DEF AuthInv
<1>5. caller[c].cred.refresh \in Pairs /\ (auth.refresh # 0 => auth.refresh \in Pairs)
    BY <1>1, <1>4 DEF CallOK, FileOK, Pairs
<1>6. QED BY <1>1, <1>2, <1>3, <1>4, <1>5 DEF CallOK

\* The issuer rotates the token and the answer arrives.
LEMMA RefreshKeeps ==
    ASSUME AuthInv, NEW CONSTANT c \in Callers, refreshOpenAIToken(c)
    PROVE  AuthInv'
<1>1. PICK t : t = caller[c].cred.refresh
    OBVIOUS
<1>2. PICK p : p = [access |-> issued + 1, refresh |-> issued + 1]
    OBVIOUS
<1>3. /\ caller[c].pc = "refresh" /\ t \in valid /\ issued < MaxPairs
      /\ Present(t) /\ issued' = issued + 1 /\ valid' = (valid \ {t}) \cup {issued + 1}
      /\ Goto(c, "save", p)
      /\ UNCHANGED <<auth, credMu, login, age, excused, overtaken, lapses, logins>>
    BY <1>1, <1>2 DEF refreshOpenAIToken
<1>4. /\ credMu = c /\ t \in Pairs /\ t <= issued /\ presented[t] <= excused[t]
      /\ (auth.refresh # 0 => presented[auth.refresh] <= excused[auth.refresh])
      /\ (auth.refresh # 0 => auth.refresh \in Pairs)
      /\ (login.pc = "save" => t # login.cred.refresh)
      /\ FileOK /\ RefreshedOnce
    BY <1>1, <1>3, RefreshFacts
<1>5. /\ issued \in 1..MaxPairs /\ issued \in Nat /\ MaxPairs \in Nat /\ issued' \in 1..MaxPairs /\ issued' \in Pairs
      /\ issued <= issued' /\ issued' \in Nat /\ issued' # 0 /\ issued + 1 = issued'
      /\ presented \in [Pairs -> Nat] /\ excused \in [Pairs -> Nat] /\ valid \in SUBSET (1..issued)
      /\ caller[c].cred.access <= issued /\ caller[c].cred.access \in Nat
  <2>1. issued \in 1..MaxPairs /\ MaxPairs \in Nat /\ CallOK(c) /\ caller[c].cred.access \in Nat
    BY CallFacts
  <2>2. presented \in [Pairs -> Nat] /\ excused \in [Pairs -> Nat] /\ valid \in SUBSET (1..issued)
    BY DEF AuthInv, AuthTyped
  <2>3. caller[c].cred.access <= issued
    BY <2>1 DEF CallOK
  <2>4. issued \in Nat /\ issued + 1 \in 1..MaxPairs /\ issued <= issued + 1 /\ issued + 1 # 0
    BY <1>3, <2>1
  <2>5. QED BY <1>3, <2>1, <2>2, <2>3, <2>4 DEF Pairs
<1>6. p \in Creds /\ p.access = issued' /\ p.refresh = issued' /\ p # caller[c].cred
  <2>1. p.access = issued' /\ p.refresh = issued'
    BY <1>2, <1>3
  <2>2. issued' \in 0..MaxPairs
    BY <1>5
  <2>3. p \in Creds
    BY <1>2, <1>3, <2>2 DEF Creds
  <2>4. p.access > caller[c].cred.access
    BY <1>5, <2>1
  <2>5. QED BY <1>5, <2>1, <2>3, <2>4
<1>7. /\ caller' \in [Callers -> CallStates] /\ caller'[c].pc = "save" /\ caller'[c].cred = p
      /\ caller'[c].seen = age[issued'] /\ \A d \in Callers : d # c => caller'[d] = caller[d]
  <2>1. "save" \in CallerPcs
    BY DEF CallerPcs
  <2>2. QED BY <1>3, <1>5, <1>6, <2>1, GotoIs
<1>8. /\ presented' \in [Pairs -> Nat] /\ presented'[t] = presented[t] + 1
      /\ \A u \in Pairs : u # t => presented'[u] = presented[u]
    BY <1>3, <1>4, PresentIs
<1>9. presented[issued'] = 0 /\ age[issued'] = "fresh" /\ issued' # t
    BY <1>4, <1>5 DEF FileOK
<1>10. presented'[issued'] = 0
    BY <1>5, <1>8, <1>9
<1>11. AuthTyped'
  <2>1. valid' \in SUBSET (1..issued')
    <3>1. issued' \in 1..issued' /\ \A v \in 1..issued : v \in 1..issued'
      BY <1>5
    <3>2. QED BY <1>3, <1>5, <3>1
  <2>2. QED BY <1>3, <1>5, <1>7, <1>8, <2>1 DEF AuthInv, AuthTyped
<1>12. FileOK'
  <2>1. auth.access <= issued' /\ auth.refresh <= issued'
    BY <1>4, <1>5, CallFacts DEF FileOK
  <2>2. ASSUME NEW i \in Pairs, i > issued' PROVE presented'[i] = 0 /\ age[i] = "fresh"
    <3>1. i > issued /\ i # t
      BY <1>4, <1>5, <2>2 DEF Pairs
    <3>2. QED BY <1>4, <1>8, <3>1 DEF FileOK
  <2>3. ASSUME login.pc = "save"
        PROVE  /\ login.cred.refresh \in 1..issued' /\ presented'[login.cred.refresh] = 0
               /\ login.cred.refresh # auth.refresh /\ login.cred.access <= issued'
    <3>1. /\ login.cred.refresh \in 1..issued /\ presented[login.cred.refresh] = 0
          /\ login.cred.refresh # auth.refresh /\ login.cred.access <= issued
      BY <1>4, <2>3 DEF FileOK
    <3>2. login.cred.access \in Nat
      BY DEF AuthInv, AuthTyped, Creds
    <3>3. login.cred.refresh \in Pairs /\ login.cred.refresh # t
      BY <1>4, <1>5, <2>3, <3>1 DEF Pairs
    <3>4. QED BY <1>5, <1>8, <3>1, <3>2, <3>3
  <2>4. QED BY <1>3, <2>1, <2>2, <2>3 DEF FileOK
<1>13. CallOK(c)'
  <2>1. login.pc = "save" => p.refresh # login.cred.refresh
    BY <1>4, <1>5, <1>6 DEF FileOK
  <2>2. QED BY <1>3, <1>4, <1>5, <1>6, <1>7, <1>9, <1>10, <2>1 DEF CallOK, Holding
<1>14. SendableOK' /\ RefreshedOnce'
  <2>1. SendableOK'
    BY <1>7 DEF SendableOK
  <2>2. ASSUME NEW u \in Pairs PROVE presented'[u] <= 1 + excused[u]
    <3>1. presented[u] \in Nat /\ excused[u] \in Nat
      BY <1>5
    <3>2. CASE u = t
      BY <1>4, <1>8, <3>1, <3>2
    <3>3. CASE u # t
      BY <1>4, <1>8, <3>3 DEF RefreshedOnce
    <3>4. QED BY <3>2, <3>3
  <2>3. QED BY <1>3, <2>1, <2>2 DEF RefreshedOnce
<1>15. QED BY <1>3, <1>4, <1>5, <1>7, <1>11, <1>12, <1>13, <1>14, CallerStep

\* The bookkeeping of a request that failed: the token was sent once more, and
\* excused unless it was rejected.
LEMMA SentAgain ==
    ASSUME AuthInv, NEW CONSTANT c \in Callers, caller[c].pc = "refresh",
           Present(caller[c].cred.refresh),
           \/ UNCHANGED <<lapses, excused>>
           \/ Lapse(caller[c].cred.refresh)
    PROVE  /\ presented' \in [Pairs -> Nat] /\ excused' \in [Pairs -> Nat] /\ lapses' \in Nat
           /\ RefreshedOnce'
           /\ \A i \in Pairs : i > issued => presented'[i] = 0
           /\ login.pc = "save" => presented'[login.cred.refresh] = 0
           /\ (Lapse(caller[c].cred.refresh) /\ auth.refresh # 0 => presented'[auth.refresh] <= excused'[auth.refresh])
<1>1. PICK t : t = caller[c].cred.refresh
    OBVIOUS
<1>2. /\ t \in Pairs /\ t <= issued /\ presented[t] <= excused[t]
      /\ (auth.refresh # 0 => presented[auth.refresh] <= excused[auth.refresh])
      /\ (auth.refresh # 0 => auth.refresh \in Pairs)
      /\ (login.pc = "save" => t # login.cred.refresh) /\ FileOK /\ RefreshedOnce
    BY <1>1, RefreshFacts
<1>3. /\ presented \in [Pairs -> Nat] /\ excused \in [Pairs -> Nat] /\ issued \in 1..MaxPairs /\ MaxPairs \in Nat
      /\ lapses \in Nat
    BY CallFacts DEF AuthInv, AuthTyped
<1>4. /\ presented' \in [Pairs -> Nat] /\ presented'[t] = presented[t] + 1
      /\ \A u \in Pairs : u # t => presented'[u] = presented[u]
    BY <1>1, <1>2, PresentIs
<1>5. Lapse(t) => /\ lapses' \in Nat /\ excused' \in [Pairs -> Nat] /\ excused'[t] = excused[t] + 1
                  /\ \A u \in Pairs : u # t => excused'[u] = excused[u]
    BY <1>2, LapseIs
<1>6. /\ lapses' \in Nat /\ excused' \in [Pairs -> Nat]
      /\ \A u \in Pairs : excused[u] <= excused'[u]
  <2>1. CASE UNCHANGED <<lapses, excused>>
    BY <1>3, <2>1
  <2>2. CASE Lapse(t)
    <3>1. ASSUME NEW u \in Pairs PROVE excused[u] <= excused'[u]
      BY <1>3, <1>5, <2>2
    <3>2. QED BY <1>5, <2>2, <3>1
  <2>3. QED BY <1>1, <2>1, <2>2
<1>7. ASSUME NEW u \in Pairs PROVE presented'[u] <= 1 + excused'[u]
  <2>1. presented[u] \in Nat /\ excused[u] \in Nat /\ excused'[u] \in Nat /\ excused[u] <= excused'[u]
        /\ presented[u] <= 1 + excused[u]
    BY <1>2, <1>3, <1>6 DEF RefreshedOnce
  <2>2. CASE u = t
    BY <1>2, <1>4, <2>1, <2>2
  <2>3. CASE u # t
    BY <1>4, <2>1, <2>3
  <2>4. QED BY <2>2, <2>3
<1>8. ASSUME NEW i \in Pairs, i > issued PROVE presented'[i] = 0
  <2>1. i # t
    BY <1>2, <1>3, <1>8 DEF Pairs
  <2>2. QED BY <1>2, <1>4, <1>8, <2>1 DEF FileOK
<1>9. ASSUME login.pc = "save" PROVE presented'[login.cred.refresh] = 0
  <2>1. login.cred.refresh \in Pairs /\ login.cred.refresh # t /\ presented[login.cred.refresh] = 0
    BY <1>2, <1>3, <1>9 DEF FileOK, Pairs
  <2>2. QED BY <1>4, <2>1
<1>10. ASSUME Lapse(t), auth.refresh # 0 PROVE presented'[auth.refresh] <= excused'[auth.refresh]
  <2>1. auth.refresh \in Pairs /\ presented[auth.refresh] <= excused[auth.refresh]
        /\ presented[auth.refresh] \in Nat /\ excused[auth.refresh] \in Nat
    BY <1>2, <1>3, <1>10
  <2>2. CASE auth.refresh = t
    BY <1>4, <1>5, <1>10, <2>1, <2>2
  <2>3. CASE auth.refresh # t
    BY <1>4, <1>5, <1>10, <2>1, <2>3
  <2>4. QED BY <2>2, <2>3
<1>11. QED BY <1>1, <1>4, <1>6, <1>7, <1>8, <1>9, <1>10 DEF RefreshedOnce

\* An error answer: a rejection is remembered, anything else ends the call.
LEMMA RefusedKeeps ==
    ASSUME AuthInv, NEW CONSTANT c \in Callers, refreshRefused(c)
    PROVE  AuthInv'
<1>1. PICK t : t = caller[c].cred.refresh
    OBVIOUS
<1>2. /\ caller[c].pc = "refresh" /\ Present(t)
      /\ UNCHANGED <<auth, login, issued, valid, age, overtaken, logins>>
      /\ \/ t \notin valid /\ UNCHANGED <<lapses, excused>> /\ Goto(c, "clear", caller[c].cred) /\ credMu' = credMu
         \/ Lapse(t) /\ Goto(c, "failed", NoCred) /\ credMu' = Nobody
    BY <1>1 DEF refreshRefused, refreshTokenRejected
<1>3. /\ credMu = c /\ (overtaken \/ auth.refresh = t) /\ FileOK /\ CallOK(c) /\ c # Nobody
      /\ caller[c].cred \in Creds /\ issued \in Nat /\ issued \in 1..MaxPairs
    BY <1>1, <1>2, RefreshFacts, CallFacts
<1>4. /\ presented' \in [Pairs -> Nat] /\ excused' \in [Pairs -> Nat] /\ lapses' \in Nat /\ RefreshedOnce'
      /\ \A i \in Pairs : i > issued => presented'[i] = 0
      /\ login.pc = "save" => presented'[login.cred.refresh] = 0
      /\ (Lapse(t) /\ auth.refresh # 0 => presented'[auth.refresh] <= excused'[auth.refresh])
    BY <1>1, <1>2, SentAgain
<1>5. FileOK'
    BY <1>2, <1>3, <1>4 DEF FileOK
<1>6. CASE t \notin valid /\ UNCHANGED <<lapses, excused>> /\ Goto(c, "clear", caller[c].cred) /\ credMu' = credMu
  <2>1. /\ caller' \in [Callers -> CallStates] /\ caller'[c].pc = "clear" /\ caller'[c].cred = caller[c].cred
        /\ \A d \in Callers : d # c => caller'[d] = caller[d]
    <3>1. "clear" \in CallerPcs
      BY DEF CallerPcs
    <3>2. QED BY <1>3, <1>6, <3>1, GotoIs
  <2>2. AuthTyped'
    BY <1>2, <1>3, <1>4, <1>6, <2>1 DEF AuthInv, AuthTyped
  <2>3. CallOK(c)'
    BY <1>2, <1>3, <1>6, <2>1 DEF CallOK, Holding
  <2>4. SendableOK'
    BY <2>1 DEF SendableOK
  <2>5. QED BY <1>2, <1>3, <1>4, <1>5, <1>6, <2>1, <2>2, <2>3, <2>4, CallerStep
<1>7. CASE Lapse(t) /\ Goto(c, "failed", NoCred) /\ credMu' = Nobody
  <2>1. /\ caller' \in [Callers -> CallStates] /\ caller'[c].pc = "failed" /\ caller'[c].cred = NoCred
        /\ \A d \in Callers : d # c => caller'[d] = caller[d]
    <3>1. "failed" \in CallerPcs
      BY DEF CallerPcs
    <3>2. QED BY <1>7, <3>1, GotoIs, NoCredIs
  <2>2. AuthTyped'
    BY <1>2, <1>3, <1>4, <1>7, <2>1 DEF AuthInv, AuthTyped
  <2>3. CallOK(c)'
    <3>1. 0 <= issued /\ (login.pc = "save" => login.cred.refresh # 0)
      BY <1>3 DEF FileOK
    <3>2. QED BY <1>2, <1>3, <1>7, <2>1, <3>1, NoCredIs DEF CallOK, Holding
  <2>4. SendableOK'
    BY <1>2, <1>4, <1>7 DEF SendableOK
  <2>5. QED BY <1>2, <1>3, <1>4, <1>5, <1>7, <2>1, <2>2, <2>3, <2>4, CallerStep
<1>8. QED BY <1>2, <1>6, <1>7

\* The request or its answer is lost.
LEMMA LostKeeps ==
    ASSUME AuthInv, NEW CONSTANT c \in Callers, refreshLost(c)
    PROVE  AuthInv'
<1>1. PICK t : t = caller[c].cred.refresh
    OBVIOUS
<1>2. /\ caller[c].pc = "refresh" /\ Present(t) /\ Lapse(t)
      /\ \/ UNCHANGED <<issued, valid>>
         \/ t \in valid /\ issued < MaxPairs /\ issued' = issued + 1 /\ valid' = valid \ {t}
      /\ Goto(c, "failed", NoCred) /\ credMu' = Nobody
      /\ UNCHANGED <<auth, login, age, overtaken, logins>>
    BY <1>1 DEF refreshLost
<1>3. /\ credMu = c /\ FileOK /\ CallOK(c) /\ c # Nobody /\ issued \in Nat /\ issued \in 1..MaxPairs /\ MaxPairs \in Nat
      /\ valid \in SUBSET (1..issued) /\ auth.access \in Nat /\ auth.refresh \in Nat
  <2>1. valid \in SUBSET (1..issued)
    BY DEF AuthInv, AuthTyped
  <2>2. QED BY <1>2, <2>1, RefreshFacts, CallFacts
<1>4. /\ presented' \in [Pairs -> Nat] /\ excused' \in [Pairs -> Nat] /\ lapses' \in Nat /\ RefreshedOnce'
      /\ \A i \in Pairs : i > issued => presented'[i] = 0
      /\ login.pc = "save" => presented'[login.cred.refresh] = 0
      /\ (auth.refresh # 0 => presented'[auth.refresh] <= excused'[auth.refresh])
    BY <1>1, <1>2, SentAgain
<1>5. issued' \in 1..MaxPairs /\ issued <= issued' /\ issued' \in Nat /\ valid' \in SUBSET (1..issued')
    BY <1>2, <1>3
<1>6. FileOK'
  <2>1. auth.access <= issued' /\ auth.refresh <= issued'
    BY <1>3, <1>5 DEF FileOK
  <2>2. ASSUME NEW i \in Pairs, i > issued' PROVE presented'[i] = 0 /\ age[i] = "fresh"
    <3>1. i > issued
      BY <1>3, <1>5, <2>2 DEF Pairs
    <3>2. QED BY <1>3, <1>4, <3>1 DEF FileOK
  <2>3. ASSUME login.pc = "save"
        PROVE  login.cred.refresh \in 1..issued' /\ login.cred.refresh # auth.refresh /\ login.cred.access <= issued'
    <3>1. login.cred.refresh \in 1..issued /\ login.cred.refresh # auth.refresh /\ login.cred.access <= issued
      BY <1>3, <2>3 DEF FileOK
    <3>2. login.cred.access \in Nat
      BY DEF AuthInv, AuthTyped, Creds
    <3>3. QED BY <1>3, <1>5, <3>1, <3>2
  <2>4. QED BY <1>2, <1>4, <2>1, <2>2, <2>3 DEF FileOK
<1>7. /\ caller' \in [Callers -> CallStates] /\ caller'[c].pc = "failed" /\ caller'[c].cred = NoCred
      /\ \A d \in Callers : d # c => caller'[d] = caller[d]
  <2>1. "failed" \in CallerPcs
    BY DEF CallerPcs
  <2>2. QED BY <1>2, <2>1, GotoIs, NoCredIs
<1>8. AuthTyped'
    BY <1>2, <1>4, <1>5, <1>7 DEF AuthInv, AuthTyped
<1>9. CallOK(c)'
  <2>1. 0 <= issued' /\ (login.pc = "save" => login.cred.refresh # 0)
    BY <1>3, <1>5 DEF FileOK
  <2>2. QED BY <1>2, <1>3, <1>7, <2>1, NoCredIs DEF CallOK, Holding
<1>10. SendableOK'
    BY <1>2, <1>4 DEF SendableOK
<1>11. QED BY <1>2, <1>3, <1>4, <1>5, <1>6, <1>7, <1>8, <1>9, <1>10, CallerStep

\* The turn is stopped before the request is sent.
LEMMA CancelledKeeps ==
    ASSUME AuthInv, NEW CONSTANT c \in Callers, refreshCancelled(c)
    PROVE  AuthInv'
<1>1. /\ caller[c].pc = "refresh" /\ Goto(c, "failed", NoCred) /\ credMu' = Nobody
      /\ UNCHANGED <<auth, login, issued, valid, age, presented, excused, overtaken, lapses, logins>>
    BY DEF refreshCancelled
<1>2. /\ credMu = c /\ FileOK /\ RefreshedOnce /\ c # Nobody /\ issued \in Nat
      /\ (auth.refresh # 0 => presented[auth.refresh] <= excused[auth.refresh])
    BY <1>1, RefreshFacts, CallFacts
<1>3. /\ caller' \in [Callers -> CallStates] /\ caller'[c].pc = "failed" /\ caller'[c].cred = NoCred
      /\ \A d \in Callers : d # c => caller'[d] = caller[d]
  <2>1. "failed" \in CallerPcs
    BY DEF CallerPcs
  <2>2. QED BY <1>1, <2>1, GotoIs, NoCredIs
<1>4. AuthTyped'
    BY <1>1, <1>3 DEF AuthInv, AuthTyped
<1>5. CallOK(c)'
  <2>1. 0 <= issued /\ (login.pc = "save" => login.cred.refresh # 0)
    BY <1>2 DEF FileOK
  <2>2. QED BY <1>1, <1>2, <1>3, <2>1, NoCredIs DEF CallOK, Holding
<1>6. FileOK' /\ RefreshedOnce' /\ SendableOK'
    BY <1>1, <1>2 DEF FileOK, RefreshedOnce, SendableOK
<1>7. issued <= issued' /\ issued' \in Nat
    BY <1>1, <1>2
<1>8. QED BY <1>1, <1>2, <1>3, <1>4, <1>5, <1>6, <1>7, CallerStep

\* What a failed write of the file costs: the token that stays in it may be sent once more.
LEMMA FileLapse ==
    ASSUME AuthInv, auth.refresh # 0, Lapse(auth.refresh), UNCHANGED <<auth, presented>>
    PROVE  /\ lapses' \in Nat /\ excused' \in [Pairs -> Nat] /\ RefreshedOnce' /\ SendableOK'
<1>1. PICK t : t = auth.refresh
    OBVIOUS
<1>2. /\ t \in Pairs /\ presented \in [Pairs -> Nat] /\ excused \in [Pairs -> Nat] /\ RefreshedOnce
  <2>1. auth \in Creds /\ MaxPairs \in Nat
    BY AuthAssumption DEF AuthInv, AuthTyped
  <2>2. t \in Pairs
    BY <1>1, <2>1 DEF Creds, Pairs
  <2>3. QED BY <2>2 DEF AuthInv, AuthTyped
<1>3. /\ lapses' \in Nat /\ excused' \in [Pairs -> Nat] /\ excused'[t] = excused[t] + 1
      /\ \A u \in Pairs : u # t => excused'[u] = excused[u]
    BY <1>1, <1>2, LapseIs
<1>4. ASSUME NEW u \in Pairs PROVE presented[u] <= 1 + excused'[u]
  <2>1. presented[u] \in Nat /\ excused[u] \in Nat /\ presented[u] <= 1 + excused[u]
    BY <1>2 DEF RefreshedOnce
  <2>2. CASE u = t
    BY <1>3, <2>1, <2>2
  <2>3. CASE u # t
    BY <1>3, <2>1, <2>3
  <2>4. QED BY <2>2, <2>3
<1>5. presented[t] <= excused'[t]
    BY <1>2, <1>3 DEF RefreshedOnce
<1>6. QED BY <1>1, <1>3, <1>4, <1>5 DEF RefreshedOnce, SendableOK

\* SetCredential after a refresh.
LEMMA SaveKeeps ==
    ASSUME AuthInv, NEW CONSTANT c \in Callers, saveRefreshed(c)
    PROVE  AuthInv'
<1>1. PICK p : p = caller[c].cred
    OBVIOUS
<1>2. /\ caller[c].pc = "save" /\ credMu' = Nobody
      /\ UNCHANGED <<login, issued, valid, age, presented, logins>>
      /\ \/ auth' = p /\ Goto(c, "served", p) /\ UNCHANGED <<lapses, excused>>
         \/ auth.refresh # 0 /\ Lapse(auth.refresh) /\ Goto(c, "failed", NoCred) /\ UNCHANGED <<auth, overtaken>>
    BY <1>1 DEF saveRefreshed
<1>3. overtaken' \in BOOLEAN
  <2>1. \/ overtaken' = (overtaken /\ \E d \in Callers \ {c} : caller[d].pc \in {"refresh", "save", "clear", "cleared"})
        \/ overtaken' = overtaken
    BY DEF saveRefreshed
  <2>2. overtaken \in BOOLEAN
    BY DEF AuthInv, AuthTyped
  <2>3. QED BY <2>1, <2>2, Zenon
<1>4. /\ CallOK(c) /\ c # Nobody /\ p \in Creds /\ FileOK /\ RefreshedOnce /\ issued \in Nat
      /\ p.access \in Nat /\ p.refresh \in Nat /\ issued \in 1..MaxPairs /\ MaxPairs \in Nat
    BY <1>1, CallFacts DEF AuthInv
<1>5. /\ credMu = c /\ p.refresh # 0 /\ p.access # 0 /\ presented[p.refresh] = 0 /\ caller[c].seen = "fresh"
      /\ age[p.access] # "expired" /\ p.access <= issued /\ p.refresh <= issued
      /\ (login.pc = "save" => p.refresh # login.cred.refresh)
    BY <1>1, <1>2, <1>4 DEF CallOK, Holding
<1>6. issued <= issued' /\ issued' \in Nat
    BY <1>2, <1>4
<1>7. CASE auth' = p /\ Goto(c, "served", p) /\ UNCHANGED <<lapses, excused>>
  <2>1. /\ caller' \in [Callers -> CallStates] /\ caller'[c].pc = "served" /\ caller'[c].cred = p
        /\ caller'[c].seen = "fresh" /\ \A d \in Callers : d # c => caller'[d] = caller[d]
    <3>1. "served" \in CallerPcs
      BY DEF CallerPcs
    <3>2. QED BY <1>1, <1>4, <1>5, <1>7, <3>1, GotoIs
  <2>2. AuthTyped'
    BY <1>2, <1>3, <1>4, <1>7, <2>1 DEF AuthInv, AuthTyped
  <2>3. CallOK(c)'
    BY <1>2, <1>4, <1>5, <2>1 DEF CallOK, Holding
  <2>4. FileOK' /\ RefreshedOnce'
    BY <1>2, <1>4, <1>5, <1>7 DEF FileOK, RefreshedOnce
  <2>5. SendableOK'
    <3>1. p.refresh \in Pairs
      BY <1>4, <1>5 DEF Pairs
    <3>2. excused[p.refresh] \in Nat
      BY <3>1 DEF AuthInv, AuthTyped
    <3>3. presented'[auth'.refresh] <= excused'[auth'.refresh]
      BY <1>2, <1>5, <1>7, <3>2
    <3>4. QED BY <3>3 DEF SendableOK
  <2>6. QED BY <1>2, <1>5, <1>6, <2>1, <2>2, <2>3, <2>4, <2>5, CallerStep
<1>8. CASE auth.refresh # 0 /\ Lapse(auth.refresh) /\ Goto(c, "failed", NoCred) /\ UNCHANGED <<auth, overtaken>>
  <2>1. /\ caller' \in [Callers -> CallStates] /\ caller'[c].pc = "failed" /\ caller'[c].cred = NoCred
        /\ \A d \in Callers : d # c => caller'[d] = caller[d]
    <3>1. "failed" \in CallerPcs
      BY DEF CallerPcs
    <3>2. QED BY <1>8, <3>1, GotoIs, NoCredIs
  <2>2. lapses' \in Nat /\ excused' \in [Pairs -> Nat] /\ RefreshedOnce' /\ SendableOK'
    BY <1>2, <1>8, FileLapse
  <2>3. AuthTyped'
    BY <1>2, <1>3, <1>4, <1>8, <2>1, <2>2 DEF AuthInv, AuthTyped
  <2>4. CallOK(c)'
    <3>1. 0 <= issued /\ (login.pc = "save" => login.cred.refresh # 0)
      BY <1>4 DEF FileOK
    <3>2. QED BY <1>2, <1>4, <2>1, <3>1, NoCredIs DEF CallOK, Holding
  <2>5. FileOK'
    BY <1>2, <1>4, <1>8 DEF FileOK
  <2>6. QED BY <1>2, <1>5, <1>6, <2>1, <2>2, <2>3, <2>4, <2>5, CallerStep
<1>9. QED BY <1>2, <1>7, <1>8

\* clearCredentialRefreshToken after a rejection: load ...
LEMMA ClearLoadKeeps ==
    ASSUME AuthInv, NEW CONSTANT c \in Callers, clearLoad(c)
    PROVE  AuthInv'
<1>1. PICK q : q = [auth EXCEPT !.refresh = 0]
    OBVIOUS
<1>2. /\ caller[c].pc = "clear"
      /\ UNCHANGED <<auth, login, issued, valid, age, presented, excused, overtaken, lapses, logins>>
      /\ \/ auth.refresh = 0 /\ Goto(c, "failed", NoCred) /\ credMu' = Nobody
         \/ auth.refresh # 0 /\ Goto(c, "cleared", q) /\ UNCHANGED credMu
    BY <1>1 DEF clearLoad
<1>3. /\ CallOK(c) /\ c # Nobody /\ FileOK /\ RefreshedOnce /\ issued \in Nat /\ auth \in Creds
      /\ auth.access \in Nat /\ MaxPairs \in Nat
    BY CallFacts DEF AuthInv
<1>4. credMu = c /\ (overtaken \/ auth.refresh \notin valid)
    BY <1>2, <1>3 DEF CallOK, Holding
<1>5. q \in Creds /\ q.refresh = 0 /\ q.access = auth.access
  <2>1. 0 \in 0..MaxPairs
    BY <1>3
  <2>2. QED BY <1>1, <1>3, <2>1 DEF Creds
<1>6. issued <= issued' /\ issued' \in Nat /\ FileOK' /\ RefreshedOnce'
    BY <1>2, <1>3 DEF FileOK, RefreshedOnce
<1>7. 0 <= issued /\ (login.pc = "save" => login.cred.refresh # 0) /\ auth.access <= issued
    BY <1>3 DEF FileOK
<1>8. CASE auth.refresh = 0 /\ Goto(c, "failed", NoCred) /\ credMu' = Nobody
  <2>1. /\ caller' \in [Callers -> CallStates] /\ caller'[c].pc = "failed" /\ caller'[c].cred = NoCred
        /\ \A d \in Callers : d # c => caller'[d] = caller[d]
    <3>1. "failed" \in CallerPcs
      BY DEF CallerPcs
    <3>2. QED BY <1>8, <3>1, GotoIs, NoCredIs
  <2>2. AuthTyped'
    BY <1>2, <1>8, <2>1 DEF AuthInv, AuthTyped
  <2>3. CallOK(c)'
    BY <1>2, <1>3, <1>7, <1>8, <2>1, NoCredIs DEF CallOK, Holding
  <2>4. SendableOK'
    BY <1>2, <1>8 DEF SendableOK
  <2>5. QED BY <1>2, <1>4, <1>6, <1>8, <2>1, <2>2, <2>3, <2>4, CallerStep
<1>9. CASE auth.refresh # 0 /\ Goto(c, "cleared", q) /\ UNCHANGED credMu
  <2>1. /\ caller' \in [Callers -> CallStates] /\ caller'[c].pc = "cleared" /\ caller'[c].cred = q
        /\ \A d \in Callers : d # c => caller'[d] = caller[d]
    <3>1. "cleared" \in CallerPcs
      BY DEF CallerPcs
    <3>2. QED BY <1>5, <1>9, <3>1, GotoIs
  <2>2. AuthTyped'
    BY <1>2, <1>9, <2>1 DEF AuthInv, AuthTyped
  <2>3. CallOK(c)'
    BY <1>2, <1>3, <1>4, <1>5, <1>7, <1>9, <2>1 DEF CallOK, Holding
  <2>4. SendableOK'
    BY <2>1 DEF SendableOK
  <2>5. QED BY <1>2, <1>4, <1>6, <1>9, <2>1, <2>2, <2>3, <2>4, CallerStep
<1>10. QED BY <1>2, <1>8, <1>9

\* ... and save.
LEMMA ClearSaveKeeps ==
    ASSUME AuthInv, NEW CONSTANT c \in Callers, clearSave(c)
    PROVE  AuthInv'
<1>1. PICK q : q = caller[c].cred
    OBVIOUS
<1>2. /\ caller[c].pc = "cleared" /\ Goto(c, "failed", NoCred) /\ credMu' = Nobody
      /\ UNCHANGED <<login, issued, valid, age, presented, overtaken, logins>>
      /\ \/ auth' = q /\ UNCHANGED <<lapses, excused>>
         \/ auth.refresh # 0 /\ Lapse(auth.refresh) /\ UNCHANGED auth
    BY <1>1 DEF clearSave
<1>3. /\ CallOK(c) /\ c # Nobody /\ FileOK /\ RefreshedOnce /\ issued \in Nat /\ q \in Creds /\ q.access \in Nat
    BY <1>1, CallFacts DEF AuthInv
<1>4. credMu = c /\ q.refresh = 0 /\ q.access <= issued
    BY <1>1, <1>2, <1>3 DEF CallOK, Holding
<1>5. issued <= issued' /\ issued' \in Nat /\ 0 <= issued /\ (login.pc = "save" => login.cred.refresh # 0)
    BY <1>2, <1>3 DEF FileOK
<1>6. /\ caller' \in [Callers -> CallStates] /\ caller'[c].pc = "failed" /\ caller'[c].cred = NoCred
      /\ \A d \in Callers : d # c => caller'[d] = caller[d]
  <2>1. "failed" \in CallerPcs
    BY DEF CallerPcs
  <2>2. QED BY <1>2, <2>1, GotoIs, NoCredIs
<1>7. CallOK(c)'
    BY <1>2, <1>3, <1>5, <1>6, NoCredIs DEF CallOK, Holding
<1>8. CASE auth' = q /\ UNCHANGED <<lapses, excused>>
  <2>1. AuthTyped'
    BY <1>2, <1>3, <1>6, <1>8 DEF AuthInv, AuthTyped
  <2>2. FileOK' /\ RefreshedOnce' /\ SendableOK'
    BY <1>2, <1>3, <1>4, <1>5, <1>8 DEF FileOK, RefreshedOnce, SendableOK
  <2>3. QED BY <1>2, <1>4, <1>5, <1>6, <1>7, <2>1, <2>2, CallerStep
<1>9. CASE auth.refresh # 0 /\ Lapse(auth.refresh) /\ UNCHANGED auth
  <2>1. lapses' \in Nat /\ excused' \in [Pairs -> Nat] /\ RefreshedOnce' /\ SendableOK'
    BY <1>2, <1>9, FileLapse
  <2>2. AuthTyped' /\ FileOK'
    BY <1>2, <1>3, <1>6, <1>9, <2>1 DEF AuthInv, AuthTyped, FileOK
  <2>3. QED BY <1>2, <1>4, <1>5, <1>6, <1>7, <2>1, <2>2, CallerStep
<1>10. QED BY <1>2, <1>8, <1>9

-----------------------------------------------------------------------------
(* The OAuth tokens: the q15 auth command, time, and a restart. *)

LEMMA TokenFacts ==
    ASSUME AuthInv
    PROVE  /\ auth \in Creds /\ auth.access \in Nat /\ auth.refresh \in Nat
           /\ issued \in Nat /\ issued \in 1..MaxPairs /\ MaxPairs \in Nat
           /\ login \in [pc : {"none", "poll", "save"}, cred : Creds]
           /\ presented \in [Pairs -> Nat] /\ excused \in [Pairs -> Nat]
           /\ age \in [Pairs -> {"fresh", "stale", "expired"}]
           /\ valid \in SUBSET (1..issued) /\ lapses \in Nat /\ logins \in Nat /\ overtaken \in BOOLEAN
           /\ FileOK /\ SendableOK /\ RefreshedOnce
<1>1. auth \in Creds /\ issued \in 1..MaxPairs /\ MaxPairs \in Nat
    BY AuthAssumption DEF AuthInv, AuthTyped
<1>2. auth.access \in Nat /\ auth.refresh \in Nat /\ issued \in Nat
    BY <1>1 DEF Creds
<1>3. QED BY <1>1, <1>2 DEF AuthInv, AuthTyped

LEMMA DeviceCodeKeeps ==
    ASSUME AuthInv, requestOpenAIDeviceCode \/ loginGivesUp
    PROVE  AuthInv'
<1>1. /\ login' = [login EXCEPT !.pc = "poll"] \/ login' = NoLogin
      /\ logins' = logins + 1 \/ logins' = logins
      /\ UNCHANGED <<auth, caller, credMu, issued, valid, age, presented, excused, overtaken, lapses>>
    BY DEF requestOpenAIDeviceCode, loginGivesUp
<1>2. login' \in [pc : {"none", "poll", "save"}, cred : Creds] /\ login'.pc # "save" /\ logins' \in Nat
    BY <1>1, TokenFacts, NoCredIs DEF NoLogin
<1>3. AuthTyped'
    BY <1>1, <1>2 DEF AuthInv, AuthTyped
<1>4. ASSUME NEW CONSTANT d \in Callers PROVE CallOK(d)'
  <2>1. CallOK(d)
    BY DEF AuthInv
  <2>2. QED BY <1>1, <1>2, <2>1 DEF CallOK
<1>5. FileOK' /\ RefreshedOnce' /\ SendableOK'
    BY <1>1, <1>2, TokenFacts DEF FileOK, RefreshedOnce, SendableOK
<1>6. QED BY <1>3, <1>4, <1>5 DEF AuthInv

\* A new pair is above every other, and was never sent.
LEMMA ApprovedKeeps ==
    ASSUME AuthInv, pollApproved
    PROVE  AuthInv'
<1>1. PICK y : y = issued + 1
    OBVIOUS
<1>2. /\ login.pc = "poll" /\ issued < MaxPairs
      /\ issued' = y /\ valid' = valid \cup {y} /\ login' = [pc |-> "save", cred |-> Pair(y)]
      /\ UNCHANGED <<auth, caller, credMu, age, presented, excused, overtaken, lapses, logins>>
    BY <1>1 DEF pollApproved
<1>3. /\ y \in Nat /\ y \in 1..MaxPairs /\ issued <= y /\ y > issued /\ y # 0 /\ y \in Pairs
    BY <1>1, <1>2, TokenFacts DEF Pairs
<1>4. presented[y] = 0
    BY <1>3, TokenFacts DEF FileOK
<1>5. Pair(y) \in Creds /\ Pair(y).access = y /\ Pair(y).refresh = y
  <2>1. y \in 0..MaxPairs
    BY <1>3, TokenFacts
  <2>2. QED BY <2>1 DEF Pair, Creds
<1>6. login' \in [pc : {"none", "poll", "save"}, cred : Creds] /\ login'.pc = "save" /\ login'.cred = Pair(y)
    BY <1>2, <1>5
<1>7. valid' \in SUBSET (1..issued')
  <2>1. 1..issued \subseteq 1..y /\ y \in 1..y
    BY <1>3, TokenFacts
  <2>2. QED BY <1>2, <2>1, TokenFacts
<1>8. AuthTyped'
    BY <1>2, <1>3, <1>6, <1>7 DEF AuthInv, AuthTyped
<1>9. ASSUME NEW CONSTANT d \in Callers PROVE CallOK(d)'
  <2>1. /\ CallOK(d) /\ caller[d].cred.access \in Nat /\ caller[d].cred.refresh \in Nat /\ issued \in Nat
    BY CallFacts
  <2>2. caller[d].cred.access <= issued /\ caller[d].cred.refresh <= issued
    BY <2>1 DEF CallOK
  <2>3. caller[d].cred.access <= y /\ caller[d].cred.refresh <= y /\ caller[d].cred.refresh # y
    BY <1>3, <2>1, <2>2
  <2>4. auth.refresh \in Nat /\ auth.refresh <= issued /\ auth.refresh # y
    BY <1>3, TokenFacts DEF FileOK
  <2>5. auth.refresh \notin valid => auth.refresh \notin valid'
    BY <1>2, <2>4
  <2>6. QED BY <1>2, <1>5, <1>6, <2>1, <2>3, <2>5 DEF CallOK
<1>10. FileOK'
  <2>1. auth'.access <= issued' /\ auth'.refresh <= issued'
    BY <1>2, <1>3, TokenFacts DEF FileOK
  <2>2. \A i \in Pairs : i > issued' => presented'[i] = 0 /\ age'[i] = "fresh"
    <3>1. ASSUME NEW i \in Pairs, i > y PROVE i > issued
      BY <1>3, <3>1, TokenFacts DEF Pairs
    <3>2. QED BY <1>2, <3>1, TokenFacts DEF FileOK
  <2>3. y # auth.refresh
    BY <1>3, TokenFacts DEF FileOK
  <2>4. y \in 1..y /\ y <= y
    BY <1>3
  <2>5. QED BY <1>2, <1>4, <1>5, <1>6, <2>1, <2>2, <2>3, <2>4 DEF FileOK
<1>11. RefreshedOnce' /\ SendableOK'
    BY <1>2, TokenFacts DEF RefreshedOnce, SendableOK
<1>12. QED BY <1>8, <1>9, <1>10, <1>11 DEF AuthInv

\* The user's command replaces the file: a call that is refreshing is overtaken.
LEMMA FileReplaced ==
    ASSUME AuthInv, UNCHANGED <<caller, credMu, issued, valid, age, presented, excused, lapses>>,
           auth' \in Creds, auth'.access <= issued, auth'.refresh <= issued,
           auth'.refresh # 0 => presented[auth'.refresh] = 0,
           overtaken' = Refreshing, logins' \in Nat,
           login' \in [pc : {"none", "poll", "save"}, cred : Creds], login'.pc # "save"
    PROVE  AuthInv'
<1>1. overtaken' \in BOOLEAN /\ (Refreshing => overtaken')
  <2>1. Refreshing \in BOOLEAN
    BY Zenon DEF Refreshing
  <2>2. QED BY <2>1, Zenon
<1>2. AuthTyped'
    BY <1>1 DEF AuthInv, AuthTyped
<1>3. ASSUME NEW CONSTANT d \in Callers PROVE CallOK(d)'
  <2>1. CallOK(d)
    BY DEF AuthInv
  <2>2. caller[d].pc \in {"refresh", "save", "clear", "cleared"} => overtaken'
    BY <1>1, Zenon DEF Refreshing
  <2>3. QED BY <2>1, <2>2 DEF CallOK
<1>4. FileOK' /\ RefreshedOnce'
    BY TokenFacts DEF FileOK, RefreshedOnce
<1>5. SendableOK'
  <2>1. CASE auth'.refresh = 0
    BY <2>1 DEF SendableOK
  <2>2. CASE auth'.refresh # 0
    <3>1. auth'.refresh \in Pairs
      BY <2>2, TokenFacts DEF Creds, Pairs
    <3>2. excused[auth'.refresh] \in Nat
      BY <3>1, TokenFacts
    <3>3. presented'[auth'.refresh] <= excused'[auth'.refresh]
      BY <2>2, <3>2
    <3>4. QED BY <3>3 DEF SendableOK
  <2>3. QED BY <2>1, <2>2
<1>6. QED BY <1>2, <1>3, <1>4, <1>5 DEF AuthInv

LEMMA LoginKeeps ==
    ASSUME AuthInv, runLogin
    PROVE  AuthInv'
<1>1. /\ login.pc = "save" /\ auth' = login.cred /\ login' = NoLogin /\ overtaken' = Refreshing
      /\ UNCHANGED <<caller, credMu, issued, valid, age, presented, excused, lapses, logins>>
    BY DEF runLogin
<1>2. /\ login.cred \in Creds /\ login.cred.access <= issued /\ login.cred.refresh \in 1..issued
      /\ presented[login.cred.refresh] = 0 /\ logins \in Nat /\ issued \in Nat
    BY <1>1, TokenFacts DEF FileOK
<1>3. login.cred.refresh <= issued
    BY <1>2
<1>4. login' \in [pc : {"none", "poll", "save"}, cred : Creds] /\ login'.pc # "save"
    BY <1>1, NoCredIs DEF NoLogin
<1>5. QED BY <1>1, <1>2, <1>3, <1>4, FileReplaced

LEMMA LogoutKeeps ==
    ASSUME AuthInv, runLogout
    PROVE  AuthInv'
<1>1. /\ login.pc = "none" /\ auth' = NoCred /\ logins' = logins + 1 /\ overtaken' = Refreshing
      /\ UNCHANGED <<caller, credMu, login, issued, valid, age, presented, excused, lapses>>
    BY DEF runLogout
<1>2. /\ NoCred \in Creds /\ NoCred.access = 0 /\ NoCred.refresh = 0 /\ 0 <= issued /\ logins' \in Nat
    BY <1>1, TokenFacts, NoCredIs
<1>3. login' \in [pc : {"none", "poll", "save"}, cred : Creds] /\ login'.pc # "save"
    BY <1>1, TokenFacts
<1>4. QED BY <1>1, <1>2, <1>3, FileReplaced

\* A token ages while nobody holds it in hand.
LEMMA AgesKeeps ==
    ASSUME AuthInv, Ages
    PROVE  AuthInv'
<1>1. PICK i \in 1..issued :
         /\ age[i] # "expired"
         /\ age[i] = "stale" => \A c \in Callers :
               caller[c].pc \in {"save", "served"} /\ caller[c].cred.access = i => caller[c].seen # "fresh"
         /\ age' = [age EXCEPT ![i] = IF @ = "fresh" THEN "stale" ELSE "expired"]
    BY DEF Ages
<1>2. UNCHANGED <<auth, caller, credMu, login, issued, valid, presented, excused, overtaken, lapses, logins>>
    BY DEF Ages
<1>3. i \in Pairs /\ i \in Nat
    BY TokenFacts DEF Pairs
<1>4. /\ age' \in [Pairs -> {"fresh", "stale", "expired"}]
      /\ (age[i] = "fresh" => age'[i] = "stale") /\ \A j \in Pairs : j # i => age'[j] = age[j]
    BY <1>1, <1>3, TokenFacts
<1>5. AuthTyped'
    BY <1>2, <1>4 DEF AuthInv, AuthTyped
<1>6. ASSUME NEW CONSTANT d \in Callers PROVE CallOK(d)'
  <2>1. CallOK(d) /\ caller[d].cred.access \in Nat /\ caller[d].cred \in Creds
    BY CallFacts
  <2>2. ASSUME caller[d].pc \in {"save", "served"} PROVE age'[caller[d].cred.access] # "expired"
    <3>1. caller[d].cred.access # 0 /\ caller[d].seen = "fresh" /\ age[caller[d].cred.access] # "expired"
      BY <2>1, <2>2 DEF CallOK
    <3>2. caller[d].cred.access \in Pairs
      BY <2>1, <3>1, TokenFacts DEF Creds, Pairs
    <3>3. CASE caller[d].cred.access = i
      <4>1. age[i] # "stale"
        BY <1>1, <2>2, <3>1, <3>3
      <4>2. age[i] = "fresh"
        BY <1>1, <1>3, <4>1, TokenFacts
      <4>3. QED BY <1>4, <3>3, <4>2
    <3>4. CASE caller[d].cred.access # i
      BY <1>4, <3>1, <3>2, <3>4
    <3>5. QED BY <3>3, <3>4
  <2>3. QED BY <1>2, <2>1, <2>2 DEF CallOK
<1>7. FileOK'
  <2>1. \A j \in Pairs : j > issued => j # i
    BY <1>3, TokenFacts DEF Pairs
  <2>2. QED BY <1>2, <1>4, <2>1, TokenFacts DEF FileOK
<1>8. RefreshedOnce' /\ SendableOK'
    BY <1>2, TokenFacts DEF RefreshedOnce, SendableOK
<1>9. QED BY <1>5, <1>6, <1>7, <1>8 DEF AuthInv

\* A restart forgets the calls; what was sent and is still in the file is excused.
LEMMA RestartKeeps ==
    ASSUME AuthInv, AgentRestart
    PROVE  AuthInv'
<1>1. /\ lapses' = lapses + 1
      /\ excused' = [t \in Pairs |-> IF t = auth.refresh THEN excused[t] + 1 ELSE excused[t]]
      /\ caller' = [c \in Callers |-> Resting] /\ credMu' = Nobody /\ overtaken' = FALSE
      /\ UNCHANGED <<auth, login, issued, valid, age, presented, logins>>
    BY DEF AgentRestart
<1>2. Resting \in CallStates /\ Resting.pc = "rest" /\ Resting.cred = NoCred
    BY NoCredIs DEF Resting, CallStates, CallerPcs
<1>3. /\ caller' \in [Callers -> CallStates] /\ lapses' \in Nat
      /\ \A d \in Callers : caller'[d].pc = "rest" /\ caller'[d].cred = NoCred
    BY <1>1, <1>2, TokenFacts
<1>4. /\ excused' \in [Pairs -> Nat]
      /\ \A t \in Pairs : excused[t] <= excused'[t] /\ (t = auth.refresh => excused'[t] = excused[t] + 1)
    BY <1>1, TokenFacts
<1>5. AuthTyped'
    BY <1>1, <1>3, <1>4 DEF AuthInv, AuthTyped
<1>6. ASSUME NEW CONSTANT d \in Callers PROVE CallOK(d)'
  <2>1. d # Nobody /\ 0 <= issued /\ (login.pc = "save" => login.cred.refresh # 0)
    BY AuthAssumption, TokenFacts DEF FileOK
  <2>2. QED BY <1>1, <1>3, <2>1, NoCredIs DEF CallOK, Holding
<1>7. FileOK'
    BY <1>1, TokenFacts DEF FileOK
<1>8. RefreshedOnce'
  <2>1. ASSUME NEW t \in Pairs PROVE presented[t] <= 1 + excused'[t]
    <3>1. presented[t] <= 1 + excused[t] /\ excused[t] <= excused'[t] /\ presented[t] \in Nat
          /\ excused[t] \in Nat /\ excused'[t] \in Nat
      BY <1>4, TokenFacts DEF RefreshedOnce
    <3>2. QED BY <3>1
  <2>2. QED BY <1>1, <2>1 DEF RefreshedOnce
<1>9. SendableOK'
  <2>1. ASSUME auth.refresh # 0 PROVE presented[auth.refresh] <= excused'[auth.refresh]
    <3>1. auth.refresh \in Pairs
      BY <2>1, TokenFacts DEF Creds, Pairs
    <3>2. QED BY <1>4, <3>1, TokenFacts DEF RefreshedOnce
  <2>2. QED BY <1>1, <2>1 DEF SendableOK
<1>10. QED BY <1>5, <1>6, <1>7, <1>8, <1>9 DEF AuthInv

LEMMA AuthStays ==
    ASSUME AuthInv, UNCHANGED oaVars
    PROVE  AuthInv'
<1>1. UNCHANGED <<auth, caller, credMu, login, issued, valid, age, presented, excused, overtaken, lapses, logins>>
    BY DEF oaVars
<1>2. AuthTyped' /\ FileOK' /\ SendableOK' /\ RefreshedOnce'
    BY <1>1, TokenFacts DEF AuthInv, AuthTyped, FileOK, SendableOK, RefreshedOnce
<1>3. ASSUME NEW CONSTANT d \in Callers PROVE CallOK(d)'
  <2>1. CallOK(d)
    BY DEF AuthInv
  <2>2. QED BY <1>1, <2>1 DEF CallOK
<1>4. QED BY <1>2, <1>3 DEF AuthInv

LEMMA AuthStarts ==
    ASSUME AuthInit
    PROVE  AuthInv
<1>1. MaxPairs \in Nat /\ 1 \in 1..MaxPairs /\ 1 \in 0..MaxPairs /\ 0 \in 0..MaxPairs /\ Nobody \notin Callers
      /\ 1 \in Pairs /\ 1 \in 1..1
    BY AuthAssumption DEF Pairs
<1>2. Pair(1) \in Creds /\ Pair(1).access = 1 /\ Pair(1).refresh = 1
    BY <1>1 DEF Pair, Creds
<1>3. Resting \in CallStates /\ Resting.pc = "rest" /\ Resting.cred = NoCred /\ NoLogin.pc = "none"
      /\ NoLogin \in [pc : {"none", "poll", "save"}, cred : Creds]
    BY NoCredIs DEF Resting, CallStates, CallerPcs, NoLogin
<1>4. AuthTyped
    BY <1>1, <1>2, <1>3 DEF AuthInit, AuthTyped
<1>5. ASSUME NEW CONSTANT d \in Callers PROVE CallOK(d)
  <2>1. caller[d] = Resting /\ credMu = Nobody /\ d # Nobody /\ issued = 1 /\ login = NoLogin
    BY <1>1 DEF AuthInit
  <2>2. QED BY <1>3, <2>1, NoCredIs DEF CallOK, Holding
<1>6. FileOK
    BY <1>1, <1>2, <1>3 DEF AuthInit, FileOK, Pairs
<1>7. SendableOK /\ RefreshedOnce
    BY <1>1, <1>2 DEF AuthInit, SendableOK, RefreshedOnce
<1>8. QED BY <1>4, <1>5, <1>6, <1>7 DEF AuthInv

LEMMA AuthStep ==
    ASSUME AuthInv, [AuthNext]_oaVars
    PROVE  AuthInv'
<1>1. CASE UNCHANGED oaVars
    BY <1>1, AuthStays
<1>2. ASSUME NEW CONSTANT c \in Callers, LoadOpenAIToken(c) \/ CallStep(c) PROVE AuthInv'
    BY <1>2, LoadKeeps, ResolveKeeps, RefreshKeeps, RefusedKeeps, LostKeeps, CancelledKeeps, SaveKeeps,
       ClearLoadKeeps, ClearSaveKeeps, CallEndsKeeps DEF CallStep
<1>3. CASE requestOpenAIDeviceCode \/ LoginStep \/ runLogout
    BY <1>3, DeviceCodeKeeps, ApprovedKeeps, LoginKeeps, LogoutKeeps DEF LoginStep
<1>4. CASE Ages \/ AgentRestart
    BY <1>4, AgesKeeps, RestartKeeps
<1>5. QED BY <1>1, <1>2, <1>3, <1>4 DEF AuthNext

-----------------------------------------------------------------------------
(* The secrets: what a step that leaves a name's record and slot alone keeps. *)

LEMMA SecretFacts ==
    ASSUME SecretInv
    PROVE  /\ host \in [seals : BOOLEAN, hands : BOOLEAN] /\ machine \in Nat
           /\ slots \in [PodmanSlots -> SlotRecords] /\ records \in [SecretNames -> PodmanRecords]
           /\ cmd \in Commands /\ made \in 0..MaxSecrets /\ made \in Nat /\ MaxSecrets \in Nat
           /\ current \in [SecretNames -> 0..MaxSecrets] /\ shaken \in SUBSET SecretNames
           /\ (\A n \in SecretNames : NameOK(n)) /\ Distinct /\ CommandOK /\ Provisioned
           /\ cmd.kind \in Kinds /\ cmd.value \in 0..MaxSecrets /\ cmd.todo \in SUBSET SecretNames
<1>1. MaxSecrets \in Nat
    BY SecretAssumption
<1>2. made \in 0..MaxSecrets /\ made \in Nat /\ cmd \in Commands
    BY <1>1 DEF SecretInv, SecretTyped
<1>3. cmd.kind \in Kinds /\ cmd.value \in 0..MaxSecrets /\ cmd.todo \in SUBSET SecretNames
    BY <1>2 DEF Commands
<1>4. QED BY <1>1, <1>2, <1>3 DEF SecretInv, SecretTyped

LEMMA NoCommandIs ==
    /\ NoCommand \in Commands /\ NoCommand.verb = "none" /\ NoCommand.step = "none"
<1>1. 0 \in 0..MaxSecrets
    BY SecretAssumption
<1>2. QED BY <1>1 DEF NoCommand, Commands, Kinds, SecretSteps

LEMMA SecretSlot ==
    ASSUME SecretInv, NEW CONSTANT n \in SecretNames
    PROVE  /\ records[n] \in PodmanRecords /\ records[n].id \in 0..MaxSecrets /\ records[n].kind \in Kinds
           /\ (records[n].id # 0 => records[n].id \in 1..made /\ records[n].id \in PodmanSlots)
<1>1. records[n] \in PodmanRecords /\ NameOK(n) /\ made \in 0..MaxSecrets /\ MaxSecrets \in Nat
    BY SecretFacts
<1>2. records[n].id # 0 => records[n].id \in 1..made
    BY <1>1 DEF NameOK
<1>3. \A i \in 1..made : i \in PodmanSlots
    BY <1>1 DEF PodmanSlots
<1>4. QED BY <1>1, <1>2, <1>3 DEF PodmanRecords

LEMMA RecordKept ==
    ASSUME SecretInv, NEW CONSTANT n \in SecretNames,
           records'[n] = records[n], current'[n] = current[n], n \notin shaken' => n \notin shaken,
           host' = host, machine' = machine, made' \in Nat, made <= made',
           records[n].id # 0 => slots'[records[n].id] = slots[records[n].id]
    PROVE  NameOK(n)' /\ (driverLookup(n) # 0 => driverLookup(n)' # 0)
<1>1. NameOK(n) /\ made \in Nat
    BY SecretFacts
<1>2. CASE records[n].id = 0
  <2>1. NameOK(n)'
    BY <1>1, <1>2 DEF NameOK
  <2>2. driverLookup(n) = 0
    BY <1>2 DEF driverLookup
  <2>3. QED BY <2>1, <2>2
<1>3. CASE records[n].id # 0
  <2>1. records[n].id \in 1..made'
    <3>1. records[n].id \in 1..made
      BY <1>1, <1>3 DEF NameOK
    <3>2. QED BY <1>1, <3>1
  <2>2. slots'[records'[n].id] = slots[records[n].id] /\ records'[n] = records[n]
    BY <1>3
  <2>3. NameOK(n)'
    <3>1. runCrypto(records[n].kind, TRUE)' <=> runCrypto(records[n].kind, TRUE)
      BY <2>2 DEF runCrypto, needsDelegationFor
    <3>2. Backs(records[n].id, records[n].kind)' <=> Backs(records[n].id, records[n].kind)
      BY <2>2 DEF Backs
    <3>3. QED BY <1>1, <1>3, <2>1, <2>2, <3>1, <3>2 DEF NameOK
  <2>4. driverLookup(n)' = driverLookup(n)
    BY <1>3, <2>2 DEF driverLookup, Opens, runCrypto, needsDelegationFor
  <2>5. QED BY <2>3, <2>4
<1>4. QED BY <1>2, <1>3

\* A step of the command that leaves podman's table and the slots alone.
LEMMA CommandMoves ==
    ASSUME SecretInv, UNCHANGED <<host, machine, slots, records, current, shaken>>,
           made' \in 0..MaxSecrets, made <= made', cmd' \in Commands, CommandOK',
           \A n \in SecretNames : records[n].id # 0 /\ cmd'.verb = "provision"
              /\ cmd'.step \in {"read", "delete", "store", "record", "stored"}
              /\ n \notin cmd'.todo /\ ~(cmd'.step = "delete" /\ n = cmd'.name)
                 => driverLookup(n) # 0
    PROVE  SecretInv'
<1>1. made' \in Nat
    BY SecretFacts
<1>2. SecretTyped'
    BY SecretFacts DEF SecretTyped
<1>3. ASSUME NEW CONSTANT n \in SecretNames PROVE NameOK(n)' /\ (driverLookup(n) # 0 => driverLookup(n)' # 0)
    BY <1>1, RecordKept
<1>4. Distinct'
    BY SecretFacts DEF Distinct
<1>5. Provisioned'
    BY <1>3 DEF Provisioned
<1>6. QED BY <1>2, <1>3, <1>4, <1>5 DEF SecretInv

LEMMA CommandEnds ==
    ASSUME SecretInv, cmd' = NoCommand, UNCHANGED <<host, machine, slots, records, made, current, shaken>>
    PROVE  SecretInv'
<1>1. cmd' \in Commands /\ cmd'.verb = "none" /\ cmd'.step = "none"
    BY NoCommandIs
<1>2. made' \in 0..MaxSecrets /\ made <= made'
    BY SecretFacts
<1>3. CommandOK'
    BY <1>1 DEF CommandOK
<1>4. cmd'.verb # "provision"
    BY <1>1
<1>5. QED BY <1>1, <1>2, <1>3, <1>4, CommandMoves

\* The host is checked, the driver is registered.
LEMMA BeginKeeps ==
    ASSUME SecretInv, NEW CONSTANT verb \in {"set", "provision"}, NEW CONSTANT k \in SealKinds, NEW names,
           names \in SUBSET SecretNames, verb = "provision" => names = podmanSecretNames,
           BeginSecret(verb, k, names)
    PROVE  SecretInv'
<1>1. /\ cmd' = [NoCommand EXCEPT !.verb = verb, !.step = "read", !.kind = k, !.todo = names]
      /\ UNCHANGED <<host, machine, slots, records, made, current, shaken>>
    BY DEF BeginSecret
<1>2. cmd' \in Commands /\ cmd'.step = "read" /\ cmd'.verb = verb /\ cmd'.todo = names /\ cmd'.kind = k
  <2>1. k \in Kinds /\ "read" \in SecretSteps
    BY DEF Kinds, SecretSteps
  <2>2. QED BY <1>1, <2>1, NoCommandIs DEF Commands, NoCommand
<1>3. made' \in 0..MaxSecrets /\ made <= made'
    BY <1>1, SecretFacts
<1>4. CommandOK'
    BY <1>2 DEF CommandOK
<1>5. \A n \in SecretNames : records[n].id # 0 /\ cmd'.verb = "provision" => n \in cmd'.todo
    BY <1>2 DEF podmanSecretNames
<1>6. QED BY <1>1, <1>2, <1>3, <1>4, <1>5, CommandMoves

LEMMA ReadKeeps ==
    ASSUME SecretInv, readSecretValue
    PROVE  SecretInv'
<1>1. PICK m \in cmd.todo :
         cmd' = [cmd EXCEPT !.step = "delete", !.name = m, !.value = made + 1, !.todo = cmd.todo \ {m}]
    BY DEF readSecretValue
<1>2. /\ cmd.step = "read" /\ made < MaxSecrets /\ made' = made + 1
      /\ UNCHANGED <<host, machine, slots, records, current, shaken>>
    BY DEF readSecretValue
<1>3. m \in SecretNames /\ made' \in 0..MaxSecrets /\ made <= made' /\ made' \in 1..made' /\ made' \in Nat
      /\ made \in Nat /\ made < made'
    BY <1>1, <1>2, SecretFacts
<1>4. /\ cmd' \in Commands /\ cmd'.step = "delete" /\ cmd'.name = m /\ cmd'.value = made' /\ cmd'.todo = cmd.todo \ {m}
      /\ cmd'.kind = cmd.kind /\ cmd'.verb = cmd.verb
  <2>1. "delete" \in SecretSteps /\ m \in SecretNames \cup {"none"} /\ cmd.todo \ {m} \in SUBSET SecretNames
    BY <1>3, SecretFacts DEF SecretSteps
  <2>2. QED BY <1>1, <1>2, <1>3, <2>1, SecretFacts DEF Commands
<1>5. \A n \in SecretNames : records[n].id # made'
  <2>1. ASSUME NEW CONSTANT n \in SecretNames PROVE records[n].id # made'
    <3>1. records[n].id = 0 \/ records[n].id \in 1..made
      BY SecretSlot
    <3>2. QED BY <1>3, <3>1
  <2>2. QED BY <2>1
<1>6. cmd.kind \in SealKinds
    BY <1>2, SecretFacts DEF CommandOK
<1>7. CommandOK'
    BY <1>2, <1>3, <1>4, <1>5, <1>6 DEF CommandOK
<1>8. ASSUME NEW n \in SecretNames, records[n].id # 0, cmd'.verb = "provision", n \notin cmd'.todo,
             ~(cmd'.step = "delete" /\ n = cmd'.name)
      PROVE  driverLookup(n) # 0
  <2>1. n \notin cmd.todo
    BY <1>4, <1>8
  <2>2. QED BY <1>2, <1>4, <1>8, <2>1, SecretFacts DEF Provisioned
<1>9. QED BY <1>2, <1>3, <1>4, <1>7, <1>8, CommandMoves

\* podman create --replace deletes the old payload, of this name only.
LEMMA DeleteKeeps ==
    ASSUME SecretInv, driverDelete
    PROVE  SecretInv'
<1>1. PICK m : m = cmd.name
    OBVIOUS
<1>2. /\ cmd.step = "delete" /\ cmd' = [cmd EXCEPT !.step = "store"] /\ shaken' = shaken \cup {m}
      /\ UNCHANGED <<host, machine, made, current>>
      /\ \/ records[m].id = 0 /\ UNCHANGED <<slots, records>>
         \/ /\ records[m].id # 0 /\ slots' = [slots EXCEPT ![records[m].id] = NoSlot]
            /\ records' = [records EXCEPT ![m] = NoRecord]
    BY <1>1 DEF driverDelete, Delete
<1>3. m \in SecretNames /\ cmd.value \in 1..made /\ (\A n \in SecretNames : records[n].id # cmd.value) /\ cmd.kind \in SealKinds
    BY <1>1, <1>2, SecretFacts DEF CommandOK
<1>4. cmd' \in Commands /\ cmd'.step = "store" /\ cmd'.name = m /\ cmd'.value = cmd.value /\ cmd'.todo = cmd.todo
      /\ cmd'.kind = cmd.kind /\ cmd'.verb = cmd.verb
  <2>1. "store" \in SecretSteps
    BY DEF SecretSteps
  <2>2. QED BY <1>1, <1>2, <2>1, SecretFacts DEF Commands
<1>5. NoSlot \in SlotRecords /\ NoRecord \in PodmanRecords /\ NoRecord.id = 0 /\ 0 \notin 1..made
  <2>1. 0 \in 0..MaxSecrets
    BY SecretFacts
  <2>2. QED BY <2>1 DEF NoSlot, NoRecord, SlotRecords, PodmanRecords, Kinds
<1>6. /\ slots' \in [PodmanSlots -> SlotRecords] /\ records' \in [SecretNames -> PodmanRecords] /\ records'[m].id = 0
      /\ \A n \in SecretNames : n # m => records'[n] = records[n]
  <2>1. CASE records[m].id = 0 /\ UNCHANGED <<slots, records>>
    BY <2>1, SecretFacts
  <2>2. CASE /\ records[m].id # 0 /\ slots' = [slots EXCEPT ![records[m].id] = NoSlot]
             /\ records' = [records EXCEPT ![m] = NoRecord]
    BY <1>3, <1>5, <2>2, SecretFacts
  <2>3. QED BY <1>2, <2>1, <2>2
<1>7. SecretTyped'
    BY <1>2, <1>3, <1>4, <1>6, SecretFacts DEF SecretTyped
<1>8. ASSUME NEW CONSTANT n \in SecretNames, n # m
      PROVE  NameOK(n)' /\ (driverLookup(n) # 0 => driverLookup(n)' # 0)
  <2>1. records[n].id # 0 => slots'[records[n].id] = slots[records[n].id]
    <3>1. ASSUME records[n].id # 0 PROVE slots'[records[n].id] = slots[records[n].id]
      <4>1. records[n].id # records[m].id /\ records[n].id \in PodmanSlots
        BY <1>3, <1>8, <3>1, SecretFacts, SecretSlot DEF Distinct
      <4>2. QED BY <1>2, <4>1, SecretFacts
    <3>2. QED BY <3>1
  <2>2. made' \in Nat /\ made <= made'
    BY <1>2, SecretFacts
  <2>3. QED BY <1>2, <1>6, <1>8, <2>1, <2>2, RecordKept
<1>9. NameOK(m)'
    BY <1>2, <1>6 DEF NameOK
<1>10. Distinct'
    BY <1>6, SecretFacts DEF Distinct
<1>11. CommandOK'
  <2>1. ASSUME NEW n \in SecretNames PROVE records'[n].id # cmd.value
    BY <1>3, <1>5, <1>6
  <2>2. QED BY <1>2, <1>3, <1>4, <2>1 DEF CommandOK
<1>12. Provisioned'
  <2>1. ASSUME NEW CONSTANT n \in SecretNames, cmd'.verb = "provision", records'[n].id # 0, n \notin cmd'.todo
        PROVE  driverLookup(n)' # 0
    <3>1. n # m /\ records[n].id # 0 /\ n \notin cmd.todo
      BY <1>4, <1>6, <2>1
    <3>2. driverLookup(n) # 0
      BY <1>1, <1>2, <1>4, <2>1, <3>1, SecretFacts DEF Provisioned
    <3>3. QED BY <1>8, <3>1, <3>2
  <2>2. QED BY <2>1 DEF Provisioned
<1>13. QED BY <1>7, <1>8, <1>9, <1>10, <1>11, <1>12 DEF SecretInv

\* The driver seals the value into a slot that no name uses.
LEMMA StoreKeeps ==
    ASSUME SecretInv, driverStore
    PROVE  SecretInv'
<1>1. PICK v, r : v = cmd.value /\ r = [kind |-> cmd.kind, key |-> machine, name |-> cmd.value, value |-> cmd.value]
    OBVIOUS
<1>2. /\ cmd.step = "store" /\ runCrypto(cmd.kind, TRUE) /\ slots' = [slots EXCEPT ![v] = r]
      /\ cmd' = [cmd EXCEPT !.step = "record"]
      /\ UNCHANGED <<host, machine, records, made, current, shaken>>
    BY <1>1 DEF driverStore
<1>3. /\ cmd.name \in SecretNames /\ v \in 1..made /\ (\A n \in SecretNames : records[n].id # v) /\ cmd.kind \in SealKinds
    BY <1>1, <1>2, SecretFacts DEF CommandOK
<1>4. v \in PodmanSlots /\ v \in 0..MaxSecrets
    BY <1>3, SecretFacts DEF PodmanSlots
<1>5. r \in SlotRecords /\ r.kind = cmd.kind /\ r.key = machine /\ r.name = v /\ r.value = v
    BY <1>1, <1>4, SecretFacts DEF SlotRecords
<1>6. cmd' \in Commands /\ cmd'.step = "record" /\ cmd'.name = cmd.name /\ cmd'.value = v /\ cmd'.todo = cmd.todo
      /\ cmd'.kind = cmd.kind /\ cmd'.verb = cmd.verb
  <2>1. "record" \in SecretSteps
    BY DEF SecretSteps
  <2>2. QED BY <1>1, <1>2, <2>1, SecretFacts DEF Commands
<1>7. slots' \in [PodmanSlots -> SlotRecords] /\ slots'[v] = r /\ \A i \in PodmanSlots : i # v => slots'[i] = slots[i]
    BY <1>2, <1>4, <1>5, SecretFacts
<1>8. SecretTyped'
    BY <1>2, <1>6, <1>7, SecretFacts DEF SecretTyped
<1>9. ASSUME NEW CONSTANT n \in SecretNames
      PROVE  NameOK(n)' /\ (driverLookup(n) # 0 => driverLookup(n)' # 0)
  <2>1. records[n].id # 0 => slots'[records[n].id] = slots[records[n].id]
    BY <1>3, <1>7, SecretSlot
  <2>2. made' \in Nat /\ made <= made'
    BY <1>2, SecretFacts
  <2>3. QED BY <1>2, <2>1, <2>2, RecordKept
<1>10. Distinct'
    BY <1>2, SecretFacts DEF Distinct
<1>11. CommandOK'
  <2>1. Backs(cmd.value, cmd.kind)' /\ slots'[cmd'.value].key = machine'
    BY <1>1, <1>2, <1>5, <1>6, <1>7 DEF Backs
  <2>2. runCrypto(cmd.kind, TRUE)'
    BY <1>2, <1>6 DEF runCrypto, needsDelegationFor
  <2>3. QED BY <1>2, <1>3, <1>6, <2>1, <2>2 DEF CommandOK
<1>12. Provisioned'
  <2>1. ASSUME NEW CONSTANT n \in SecretNames, cmd'.verb = "provision", records'[n].id # 0, n \notin cmd'.todo
        PROVE  driverLookup(n)' # 0
    <3>1. driverLookup(n) # 0
      BY <1>2, <1>6, <2>1, SecretFacts DEF Provisioned
    <3>2. QED BY <1>9, <3>1
  <2>2. QED BY <2>1 DEF Provisioned
<1>13. QED BY <1>8, <1>9, <1>10, <1>11, <1>12 DEF SecretInv

\* A host that hands the key over cannot be the reason that sealing fails.
LEMMA StoreFailsKeeps ==
    ASSUME SecretInv, storeFails
    PROVE  SecretInv'
<1>1. PICK b : b = runCrypto(cmd.kind, TRUE)
    OBVIOUS
<1>2. /\ cmd.step = "store" /\ cmd' = [cmd EXCEPT !.step = "failed", !.ok = b]
      /\ UNCHANGED <<host, machine, slots, records, made, current, shaken>>
    BY <1>1 DEF storeFails
<1>3. b \in BOOLEAN /\ (host.hands => b)
  <2>1. runCrypto(cmd.kind, TRUE) \in BOOLEAN
    BY Zenon DEF runCrypto
  <2>2. cmd.kind \in SealKinds
    BY <1>2, SecretFacts DEF CommandOK
  <2>3. host.hands => runCrypto(cmd.kind, TRUE)
    BY <2>2 DEF SealKinds, runCrypto, needsDelegationFor
  <2>4. QED BY <1>1, <2>1, <2>3, Zenon
<1>4. cmd' \in Commands /\ cmd'.step = "failed" /\ cmd'.ok = b
  <2>1. "failed" \in SecretSteps
    BY DEF SecretSteps
  <2>2. QED BY <1>2, <1>3, <2>1, SecretFacts DEF Commands
<1>5. CommandOK'
  <2>1. host'.hands => cmd'.ok
    BY <1>2, <1>3, <1>4, Zenon
  <2>2. QED BY <1>4, <2>1 DEF CommandOK
<1>6. made' \in 0..MaxSecrets /\ made <= made'
    BY <1>2, SecretFacts
<1>7. cmd'.step \notin {"read", "delete", "store", "record", "stored"}
    BY <1>4
<1>8. QED BY <1>2, <1>4, <1>5, <1>6, <1>7, CommandMoves

\* podman records the name, which now reads the value that was set.
LEMMA CreateKeeps ==
    ASSUME SecretInv, createPodmanSecret
    PROVE  SecretInv'
<1>1. PICK m, v, k : m = cmd.name /\ v = cmd.value /\ k = cmd.kind
    OBVIOUS
<1>2. /\ cmd.step = "record" /\ records' = [records EXCEPT ![m] = [id |-> v, kind |-> k]]
      /\ current' = [current EXCEPT ![m] = v] /\ shaken' = shaken \ {m}
      /\ (cmd.todo = {} /\ cmd' = [cmd EXCEPT !.step = "stored"]) \/ cmd' = [cmd EXCEPT !.step = "read"]
      /\ UNCHANGED <<host, machine, slots, made>>
    BY <1>1 DEF createPodmanSecret
<1>3. /\ m \in SecretNames /\ v \in 1..made /\ (\A n \in SecretNames : records[n].id # v) /\ k \in SealKinds
      /\ runCrypto(k, TRUE) /\ Backs(v, k) /\ slots[v].key = machine
    BY <1>1, <1>2, SecretFacts DEF CommandOK
<1>4. v \in 0..MaxSecrets /\ v # 0 /\ k \in Kinds /\ [id |-> v, kind |-> k] \in PodmanRecords
  <2>1. v \in 0..MaxSecrets /\ v # 0 /\ k \in Kinds
    BY <1>3, SecretFacts DEF Kinds
  <2>2. QED BY <2>1 DEF PodmanRecords
<1>5. /\ cmd' \in Commands /\ cmd'.step \in {"stored", "read"} /\ cmd'.todo = cmd.todo /\ cmd'.kind = k
      /\ cmd'.verb = cmd.verb
  <2>1. "stored" \in SecretSteps /\ "read" \in SecretSteps
    BY DEF SecretSteps
  <2>2. QED BY <1>1, <1>2, <2>1, SecretFacts DEF Commands
<1>6. /\ records' \in [SecretNames -> PodmanRecords] /\ records'[m].id = v /\ records'[m].kind = k
      /\ (\A n \in SecretNames : n # m => records'[n] = records[n])
      /\ current' \in [SecretNames -> 0..MaxSecrets] /\ current'[m] = v
      /\ (\A n \in SecretNames : n # m => current'[n] = current[n])
  <2>1. /\ records' \in [SecretNames -> PodmanRecords] /\ records'[m] = [id |-> v, kind |-> k]
        /\ (\A n \in SecretNames : n # m => records'[n] = records[n])
    BY <1>2, <1>3, <1>4, SecretFacts
  <2>2. current' \in [SecretNames -> 0..MaxSecrets] /\ current'[m] = v /\ \A n \in SecretNames : n # m => current'[n] = current[n]
    BY <1>2, <1>3, <1>4, SecretFacts
  <2>3. QED BY <2>1, <2>2
<1>7. SecretTyped'
    BY <1>2, <1>5, <1>6, SecretFacts DEF SecretTyped
<1>8. ASSUME NEW CONSTANT n \in SecretNames, n # m
      PROVE  NameOK(n)' /\ (driverLookup(n) # 0 => driverLookup(n)' # 0)
  <2>1. made' \in Nat /\ made <= made' /\ (n \notin shaken' => n \notin shaken)
    BY <1>2, <1>8, SecretFacts
  <2>2. QED BY <1>2, <1>6, <1>8, <2>1, RecordKept
<1>9. NameOK(m)' /\ driverLookup(m)' # 0
  <2>1. runCrypto(records[m].kind, TRUE)'
    BY <1>2, <1>3, <1>6 DEF runCrypto, needsDelegationFor
  <2>2. slots'[records'[m].id].kind = k /\ slots'[records'[m].id].name = v /\ slots'[records'[m].id].value = v
        /\ slots'[records'[m].id].key = machine'
    BY <1>2, <1>3, <1>6 DEF Backs
  <2>3. NameOK(m)'
    BY <1>2, <1>3, <1>4, <1>6, <2>1, <2>2 DEF NameOK, Backs
  <2>4. Opens(records[m].id, records[m].kind)'
    BY <1>6, <2>1, <2>2 DEF Opens
  <2>5. driverLookup(m)' # 0
    BY <1>4, <1>6, <2>2, <2>4 DEF driverLookup
  <2>6. QED BY <2>3, <2>5
<1>10. Distinct'
    BY <1>3, <1>6, SecretFacts DEF Distinct
<1>11. CommandOK'
  <2>1. cmd'.step = "stored" => cmd'.todo = {}
    <3>1. CASE cmd.todo = {}
      BY <1>5, <3>1
    <3>2. CASE cmd' = [cmd EXCEPT !.step = "read"]
      BY <3>2, SecretFacts DEF Commands
    <3>3. QED BY <1>2, <3>1, <3>2
  <2>2. QED BY <1>3, <1>5, <2>1 DEF CommandOK
<1>12. Provisioned'
  <2>1. ASSUME NEW CONSTANT n \in SecretNames, cmd'.verb = "provision", records'[n].id # 0, n \notin cmd'.todo
        PROVE  driverLookup(n)' # 0
    <3>1. CASE n = m
      BY <1>9, <3>1
    <3>2. CASE n # m
      <4>1. driverLookup(n) # 0
        BY <1>2, <1>5, <1>6, <2>1, <3>2, SecretFacts DEF Provisioned
      <4>2. QED BY <1>8, <3>2, <4>1
    <3>3. QED BY <3>1, <3>2
  <2>2. QED BY <2>1 DEF Provisioned
<1>13. QED BY <1>7, <1>8, <1>9, <1>10, <1>11, <1>12 DEF SecretInv

\* A reinstall: names sealed with the machine's key are shaken.
LEMMA ReinstallKeeps ==
    ASSUME SecretInv, Reinstall
    PROVE  SecretInv'
<1>1. /\ cmd = NoCommand /\ machine' = machine + 1
      /\ shaken' = shaken \cup {n \in SecretNames : records[n].kind = "systemd-creds"}
      /\ UNCHANGED <<host, slots, records, cmd, made, current>>
    BY DEF Reinstall
<1>2. cmd'.verb = "none" /\ cmd'.step = "none"
    BY <1>1, NoCommandIs
<1>3. SecretTyped'
    BY <1>1, SecretFacts DEF SecretTyped
<1>4. ASSUME NEW CONSTANT n \in SecretNames PROVE NameOK(n)'
  <2>1. NameOK(n)
    BY SecretFacts
  <2>2. n \notin shaken' => n \notin shaken /\ records[n].kind # "systemd-creds"
    BY <1>1
  <2>3. /\ runCrypto(records[n].kind, TRUE)' <=> runCrypto(records[n].kind, TRUE)
        /\ Backs(records[n].id, records[n].kind)' <=> Backs(records[n].id, records[n].kind)
    BY <1>1 DEF runCrypto, needsDelegationFor, Backs
  <2>4. QED BY <1>1, <2>1, <2>2, <2>3 DEF NameOK
<1>5. Distinct' /\ CommandOK' /\ Provisioned'
    BY <1>1, <1>2, SecretFacts DEF Distinct, CommandOK, Provisioned
<1>6. QED BY <1>3, <1>4, <1>5 DEF SecretInv

LEMMA SecretStarts ==
    ASSUME SecretInit
    PROVE  SecretInv
<1>1. NoSlot \in SlotRecords /\ NoRecord \in PodmanRecords /\ NoRecord.id = 0 /\ 0 \in 0..MaxSecrets
  <2>1. 0 \in 0..MaxSecrets
    BY SecretAssumption
  <2>2. QED BY <2>1 DEF NoSlot, NoRecord, SlotRecords, PodmanRecords, Kinds
<1>2. SecretTyped
    BY <1>1, NoCommandIs DEF SecretInit, SecretTyped
<1>3. \A n \in SecretNames : records[n].id = 0 /\ current[n] = 0
    BY <1>1 DEF SecretInit
<1>4. cmd.verb = "none" /\ cmd.step = "none"
    BY NoCommandIs DEF SecretInit
<1>5. (\A n \in SecretNames : NameOK(n)) /\ Distinct
    BY <1>3 DEF NameOK, Distinct
<1>6. CommandOK /\ Provisioned
    BY <1>4 DEF CommandOK, Provisioned
<1>7. QED BY <1>2, <1>5, <1>6 DEF SecretInv

LEMMA SecretStays ==
    ASSUME SecretInv, UNCHANGED ssVars
    PROVE  SecretInv'
<1>1. UNCHANGED <<host, machine, slots, records, dropin, cmd, made, current, shaken>>
    BY DEF ssVars
<1>2. CommandOK'
  <2>1. /\ runCrypto(cmd.kind, TRUE)' <=> runCrypto(cmd.kind, TRUE)
        /\ Backs(cmd.value, cmd.kind)' <=> Backs(cmd.value, cmd.kind)
    BY <1>1 DEF runCrypto, needsDelegationFor, Backs
  <2>2. QED BY <1>1, <2>1, SecretFacts DEF CommandOK
<1>3. made' \in 0..MaxSecrets /\ made <= made' /\ cmd' \in Commands
    BY <1>1, SecretFacts
<1>4. QED BY <1>1, <1>2, <1>3, CommandMoves, SecretFacts DEF Provisioned

LEMMA SecretStep ==
    ASSUME SecretInv, [SecretNext]_ssVars
    PROVE  SecretInv'
<1>1. CASE UNCHANGED ssVars
    BY <1>1, SecretStays
<1>2. CASE runSecretSet
  <2>1. PICK n \in SecretNames, k \in SealKinds : BeginSecret("set", k, {n})
    BY <1>2 DEF runSecretSet
  <2>2. QED BY <2>1, BeginKeeps
<1>3. CASE runSecretProvision
  <2>1. PICK k \in SealKinds : BeginSecret("provision", k, podmanSecretNames)
    BY <1>3 DEF runSecretProvision
  <2>2. podmanSecretNames \in SUBSET SecretNames
    BY DEF podmanSecretNames
  <2>3. QED BY <2>1, <2>2, BeginKeeps
<1>4. CASE readFails \/ Exit \/ KillCommand
  <2>1. cmd' = NoCommand /\ UNCHANGED <<host, machine, slots, records, made, current, shaken>>
    BY <1>4 DEF readFails, Exit, KillCommand
  <2>2. QED BY <2>1, CommandEnds
<1>5. CASE readSecretValue \/ driverDelete \/ driverStore \/ storeFails \/ createPodmanSecret \/ Reinstall
    BY <1>5, ReadKeeps, DeleteKeeps, StoreKeeps, StoreFailsKeeps, CreateKeeps, ReinstallKeeps
<1>6. QED BY <1>1, <1>2, <1>3, <1>4, <1>5 DEF SecretNext, CommandStep

-----------------------------------------------------------------------------
(* The live roster of models. *)

\* A nonempty set of naturals has a least element.
LEMMA LeastOf ==
    ASSUME NEW T, T \subseteq Nat, T # {}
    PROVE  \E x \in T : \A y \in T : x <= y
  <1>1. PICK x \in T : \A y \in T : ~(<<y, x>> \in OpToRel(<, Nat))
    BY NatLessThanWellFounded, WFMin
  <1>2. \A y \in T : ~(y < x)
    BY <1>1 DEF OpToRel
  <1> QED  BY <1>2

\* FlattenSeq returns a sequence of what its parts hold.  The recursive function in its definition exists: a first
\* place up to which it does not would have a predecessor up to which it does.
LEMMA FlattenIs ==
    ASSUME NEW S, NEW ss \in Seq(Seq(S))
    PROVE  FlattenSeq(ss) \in Seq(S)
  <1> DEFINE L == Len(ss)
             E(f, i) == IF i = 1 THEN ss[i] ELSE f[i - 1] \o ss[i]
             Reaches(n) == \E f \in [1..n -> Seq(S)] : f = [i \in 1..n |-> E(f, i)]
             T == {n \in 0..L : ~Reaches(n)}
             flat == CHOOSE f : f = [i \in 1..L |-> E(f, i)]
  <1>0. L \in Nat /\ \A i \in 1..L : ss[i] \in Seq(S)
    OBVIOUS
  <1>a. \A a, b \in Seq(S) : a \o b \in Seq(S)
    OBVIOUS
  <1>b. \A f, i : (i = 1 => ss[i] \in Seq(S)) /\ (i # 1 => f[i - 1] \in Seq(S) /\ ss[i] \in Seq(S)) => E(f, i) \in Seq(S)
    BY <1>a
  <1>c. \A n \in 0..L : n \in Nat
    BY <1>0
  <1> HIDE DEF E
  <1>1. T = {}
    <2>1. SUFFICES ASSUME T # {}  PROVE FALSE
      OBVIOUS
    <2>2. PICK n \in T : \A y \in T : n <= y
      <3> HIDE DEF Reaches
      <3>1. T \subseteq Nat
        BY <1>c
      <3> QED  BY ONLY <3>1, <2>1, LeastOf
    <2>3. n \in 0..L /\ ~Reaches(n)
      BY <2>2
    <2>4. CASE n = 0
      <3> DEFINE g == [i \in 1..0 |-> <<>>]
      <3>1. g \in [1..0 -> Seq(S)]
        OBVIOUS
      <3>2. g = [i \in 1..0 |-> E(g, i)]
        OBVIOUS
      <3>3. Reaches(0)
        BY <3>1, <3>2
      <3> QED  BY <3>3, <2>3, <2>4
    <2>5. CASE n # 0
      <3>1. n - 1 \in 0..L /\ n \in 1..L /\ ~(n <= n - 1)
        BY <2>3, <2>5, <1>0
      <3>2. Reaches(n - 1)
        <4> HIDE DEF Reaches
        <4> QED  BY <3>1, <2>2
      <3>3. PICK f \in [1..(n - 1) -> Seq(S)] : f = [i \in 1..(n - 1) |-> E(f, i)]
        BY <3>2
      <3> DEFINE g == [i \in 1..n |-> IF i = n THEN E(f, n) ELSE f[i]]
      <3>4. ss[n] \in Seq(S) /\ (n # 1 => f[n - 1] \in Seq(S))
        BY <3>1, <3>3, <1>0
      <3>5. E(f, n) \in Seq(S)
        BY <3>4, <1>b
      <3>6. g \in [1..n -> Seq(S)]
        <4>1. \A i \in 1..n : i # n => i \in 1..(n - 1)
          BY <3>1
        <4>2. \A i \in 1..n : g[i] \in Seq(S)
          BY <4>1, <3>3, <3>5
        <4> QED  BY <4>2
      <3>7. ASSUME NEW i \in 1..n  PROVE g[i] = E(g, i)
        <4> USE DEF E
        <4>1. CASE i = n
          <5>1. n # 1 => g[n - 1] = f[n - 1]
            BY <3>1
          <5> QED  BY <5>1, <4>1, <3>1
        <4>2. CASE i # n
          <5>1. i \in 1..(n - 1) /\ g[i] = f[i]
            BY <4>2, <3>1
          <5>2. f[i] = E(f, i)
            BY <5>1, <3>3
          <5>3. i # 1 => g[i - 1] = f[i - 1]
            BY <5>1, <3>1
          <5> QED  BY <5>1, <5>2, <5>3
        <4> QED  BY <4>1, <4>2
      <3>8. g = [i \in 1..n |-> E(g, i)]
        BY <3>7
      <3>9. Reaches(n)
        BY <3>6, <3>8
      <3> QED  BY <3>9, <2>3
    <2> QED  BY <2>4, <2>5
  <1>2. Reaches(L)
    <2> HIDE DEF Reaches
    <2>1. L \in 0..L
      BY <1>0
    <2> QED  BY <2>1, <1>1
  <1>3. flat = [i \in 1..L |-> E(flat, i)]
    BY <1>2
  <1> HIDE DEF flat
  <1> DEFINE U == {n \in 1..L : ~(flat[n] \in Seq(S))}
  <1>4. U = {}
    <2>1. SUFFICES ASSUME U # {}  PROVE FALSE
      OBVIOUS
    <2>2. PICK n \in U : \A y \in U : n <= y
      <3>1. U \subseteq Nat
        BY <1>c, <1>0
      <3> QED  BY ONLY <3>1, <2>1, LeastOf
    <2>3. n \in 1..L /\ ~(flat[n] \in Seq(S))
      BY <2>2
    <2>4. flat[n] = E(flat, n)
      BY <1>3, <2>3
    <2>5. n # 1 => n - 1 \in 1..L /\ ~(n <= n - 1)
      BY <2>3, <1>0
    <2>7. n # 1 => flat[n - 1] \in Seq(S)
      BY <2>5, <2>2
    <2>6. ss[n] \in Seq(S)
      BY <2>3, <1>0
    <2> QED  BY <2>3, <2>4, <2>7, <2>6, <1>b
  <1>5. L # 0 => flat[L] \in Seq(S)
    BY <1>4, <1>0
  <1>6. FlattenSeq(ss) = IF L = 0 THEN ss ELSE flat[L]
    BY DEF FlattenSeq, flat, E
  <1>7. L = 0 => ss \in Seq(S)
    OBVIOUS
  <1> QED  BY <1>5, <1>6, <1>7

RosterModels ==
    [provider : {e.name : e \in Entries}, key : {e.key : e \in Entries}, id : {s.id : s \in Served},
     ref : {s.ref : s \in Served}, kind : {s.kind : s \in Served}]
ModelsOf(entries) == {m \in RosterModels : [name |-> m.provider, key |-> m.key] \in entries}
Registries == [providers : Seq(Entries), roster : Seq(RosterModels), reload : {"none", "applied", "error"}]
WatchPcs == {"idle", "refresh", "replace", "report", "refuse"}
Watches ==
    [pc : WatchPcs, applied : Contents, rejected : Contents \cup {"none"}, content : Contents, todo : Seq(Entries),
     providers : Seq(Entries), found : Seq(RosterModels)]
Switches ==
    [pc : {"idle", "save", "set"}, slot : Slots, target : Selected \cup {NoTarget}, id : {s.id : s \in Served} \cup {""},
     split : SUBSET Slots, made : Nat]
Requests ==
    [pc : {"none", "found"}, model : RosterModels \cup {NoModel}, sent : RosterModels \cup {NoModel}, made : Nat]

RosterTyped ==
    /\ file \in Contents /\ DOMAIN endpoint = DOMAIN Offers /\ (\A p \in DOMAIN Offers : endpoint[p] \in Offers[p])
    /\ registry \in Registries /\ watch \in Watches /\ switch \in Switches /\ request \in Requests
    /\ DOMAIN kept = Slots /\ DOMAIN chosen = Slots

\* The roster and what the watcher found are of the providers they are published with, and the providers in use are
\* those of the applied content, or of the one about to be applied.
WatchOK ==
    /\ registry.roster \in Seq(ModelsOf(Range(registry.providers)))
    /\ watch.todo \in Seq(Range(watch.providers)) /\ watch.found \in Seq(ModelsOf(Range(watch.providers)))
    /\ registry.providers = ProvidersOf[IF watch.pc = "report" THEN watch.content ELSE watch.applied]
    /\ watch.pc = "refresh" => watch.providers = registry.providers
    /\ watch.pc = "replace" => watch.providers = ProvidersOf[watch.content]

\* Only the switch that has saved its target has it not live yet.
SelectionOK ==
    /\ \A slot \in Slots \ switch.split : chosen[slot] \in {kept[slot], NoTarget} \/ (switch.pc = "set" /\ switch.slot = slot)
    /\ switch.pc = "set" => kept[switch.slot] = switch.target

RosterInv == RosterTyped /\ WatchOK /\ SelectionOK /\ RequestsUseTheirCredentials

LEMMA FirstIs ==
    ASSUME NEW S, NEW models \in Seq(S), NEW hits, hits \subseteq DOMAIN models, hits # {}
    PROVE  Min(hits) \in hits /\ models[Min(hits)] \in S /\ models[Min(hits)] \in Range(models)
  <1>1. DOMAIN models = 1..Len(models) /\ Len(models) \in Nat
    OBVIOUS
  <1>2. hits \subseteq Nat
    BY <1>1
  <1>3. PICK x \in hits : \A y \in hits : x <= y
    BY <1>2, LeastOf
  <1>4. Min(hits) \in hits
    BY <1>3 DEF Min
  <1>5. Min(hits) \in 1..Len(models)
    BY <1>1, <1>4
  <1> QED  BY <1>4, <1>5, <1>1 DEF Range

LEMMA LookupIs ==
    ASSUME RosterInv, NEW provider, NEW ref
    PROVE  \/ Lookup(provider, ref) = NoModel
           \/ /\ Lookup(provider, ref) \in RosterModels /\ Lookup(provider, ref) \in Range(registry.roster)
              /\ Lookup(provider, ref).provider = provider
  <1> DEFINE hits == {k \in DOMAIN registry.roster : registry.roster[k].provider = provider /\ registry.roster[k].ref = ref}
  <1>1. Lookup(provider, ref) = IF hits = {} THEN NoModel ELSE registry.roster[Min(hits)]
    BY DEF Lookup, FirstOf
  <1>2. registry.roster \in Seq(RosterModels)
    BY DEF RosterInv, RosterTyped, Registries
  <1>3. CASE hits # {}
    <2>1. hits \subseteq DOMAIN registry.roster
      OBVIOUS
    <2> HIDE DEF hits
    <2>2. Min(hits) \in hits /\ registry.roster[Min(hits)] \in RosterModels /\ registry.roster[Min(hits)] \in Range(registry.roster)
      BY <1>2, <1>3, <2>1, FirstIs
    <2>3. registry.roster[Min(hits)].provider = provider
      BY <2>2 DEF hits
    <2> QED  BY <1>1, <1>3, <2>2, <2>3
  <1> QED  BY <1>1, <1>3

LEMMA LookupByRefIs ==
    ASSUME RosterInv, NEW ref
    PROVE  LookupByRef(ref) \in RosterModels \cup {NoModel}
  <1> DEFINE hits == {k \in DOMAIN registry.roster : registry.roster[k].ref = ref}
  <1>1. LookupByRef(ref) = IF hits = {} THEN NoModel ELSE registry.roster[Min(hits)]
    BY DEF LookupByRef, FirstOf
  <1>2. registry.roster \in Seq(RosterModels)
    BY DEF RosterInv, RosterTyped, Registries
  <1>3. CASE hits # {}
    <2>1. hits \subseteq DOMAIN registry.roster
      OBVIOUS
    <2> HIDE DEF hits
    <2> QED  BY <1>1, <1>2, <1>3, <2>1, FirstIs
  <1> QED  BY <1>1, <1>3

\* One provider's models carry its name and its key.
LEMMA DiscoveredIs ==
    ASSUME NEW p \in Entries, NEW served \in Seq(Served), NEW E, p \in E
    PROVE  Discovered(p, served) \in Seq(ModelsOf(E))
  <1> DEFINE Made(k) == [provider |-> p.name, key |-> p.key, id |-> served[k].id, ref |-> served[k].ref, kind |-> served[k].kind]
  <1>1. DOMAIN served = 1..Len(served) /\ Len(served) \in Nat /\ \A k \in 1..Len(served) : served[k] \in Served
    OBVIOUS
  <1>2. p \in [name : DOMAIN Offers, key : {e.key : e \in Entries}]
    BY RosterAssumption
  <1>3. [name |-> p.name, key |-> p.key] = p
    BY <1>2
  <1>4. ASSUME NEW k \in 1..Len(served)  PROVE Made(k) \in ModelsOf(E)
    <2>1. Made(k) \in RosterModels
      BY <1>1 DEF RosterModels
    <2>2. Made(k).provider = p.name /\ Made(k).key = p.key
      OBVIOUS
    <2> QED  BY <2>1, <2>2, <1>3 DEF ModelsOf
  <1> HIDE DEF Made
  <1>5. [k \in 1..Len(served) |-> Made(k)] \in Seq(ModelsOf(E))
    BY <1>1, <1>4
  <1>6. Discovered(p, served) = [k \in 1..Len(served) |-> Made(k)]
    BY <1>1 DEF Discovered, Made
  <1> QED  BY <1>5, <1>6

LEMMA DiscoverAllIs ==
    ASSUME \A p \in DOMAIN Offers : endpoint[p] \in Offers[p], NEW c \in Contents
    PROVE  DiscoverAll(ProvidersOf[c]) \in Seq(ModelsOf(Range(ProvidersOf[c])))
  <1> DEFINE ps == ProvidersOf[c]
             ss == [k \in DOMAIN ps |-> Discovered(ps[k], endpoint[ps[k].name])]
             S == ModelsOf(Range(ps))
  <1>1. ps \in Seq(Entries)
    BY RosterAssumption
  <1> HIDE DEF ps
  <1>2. DOMAIN ps = 1..Len(ps) /\ Len(ps) \in Nat /\ \A k \in 1..Len(ps) : ps[k] \in Entries /\ ps[k] \in Range(ps)
    BY <1>1 DEF Range
  <1>3. ASSUME NEW k \in 1..Len(ps)  PROVE Discovered(ps[k], endpoint[ps[k].name]) \in Seq(S)
    <2>1. ps[k].name \in DOMAIN Offers
      BY <1>2, RosterAssumption
    <2>2. endpoint[ps[k].name] \in Seq(Served)
      BY <2>1, RosterAssumption
    <2> HIDE DEF S
    <2> QED  BY <1>2, <2>2, DiscoveredIs DEF S
  <1> HIDE DEF S
  <1>4. ss \in [1..Len(ps) -> Seq(S)]
    BY <1>2, <1>3
  <1> HIDE DEF ss
  <1>5. ss \in Seq(Seq(S))
    BY <1>2, <1>4
  <1>6. FlattenSeq(ss) \in Seq(S)
    BY <1>5, FlattenIs
  <1> QED  BY <1>6 DEF DiscoverAll, ss, S, ps

\* A step of the watcher: what it does to the fields the invariant is about.
LEMMA WatchKept ==
    ASSUME RosterInv, UNCHANGED <<registry, watch>>
    PROVE  registry' \in Registries /\ watch' \in Watches /\ WatchOK'
  BY DEF RosterInv, RosterTyped, WatchOK

LEMMA EmptyList == ASSUME NEW S  PROVE <<>> \in Seq(S)
  OBVIOUS
LEMMA SomeEmptyList == ASSUME NEW S  PROVE \E s \in Seq(S) : s = <<>>
  BY EmptyList

\* The discovery of a list of providers starts.
LEMMA DiscoveringIs ==
    ASSUME NEW w \in Watches, NEW pc \in {"refresh", "replace"}, NEW providers \in Seq(Entries)
    PROVE  /\ Discovering(w, pc, providers) \in Watches
           /\ Discovering(w, pc, providers).pc = pc /\ Discovering(w, pc, providers).todo = providers
           /\ Discovering(w, pc, providers).providers = providers /\ Discovering(w, pc, providers).found = <<>>
           /\ Discovering(w, pc, providers).applied = w.applied /\ Discovering(w, pc, providers).content = w.content
  <1>1. PICK found \in Seq(RosterModels) : found = <<>>
    BY SomeEmptyList
  <1>2. Discovering(w, pc, providers) = [w EXCEPT !.pc = pc, !.todo = providers, !.providers = providers, !.found = found]
    BY <1>1 DEF Discovering
  <1> QED  BY <1>1, <1>2 DEF Watches, WatchPcs

\* The watcher starts on the providers in use, or on those of the content it is to apply.
LEMMA DiscoveryStarts ==
    ASSUME RosterInv, NEW w \in Watches, NEW pc \in {"refresh", "replace"}, NEW providers \in Seq(Entries),
           watch' = Discovering(w, pc, providers), registry' \in Registries,
           registry'.providers = registry.providers, registry'.roster = registry.roster,
           w.applied = watch.applied, watch.pc # "report",
           pc = "refresh" => providers = registry.providers,
           pc = "replace" => providers = ProvidersOf[w.content]
    PROVE  registry' \in Registries /\ watch' \in Watches /\ WatchOK'
  <1>1. /\ watch' \in Watches /\ watch'.pc = pc /\ watch'.todo = providers /\ watch'.providers = providers /\ watch'.found = <<>>
        /\ watch'.applied = watch.applied /\ watch'.content = w.content
    BY DiscoveringIs
  <1>2. providers \in Seq(Range(providers))
    <2>1. DOMAIN providers = 1..Len(providers) /\ Len(providers) \in Nat /\ providers = [k \in 1..Len(providers) |-> providers[k]]
      OBVIOUS
    <2> QED  BY <2>1 DEF Range
  <1>3. registry.roster \in Seq(ModelsOf(Range(registry.providers))) /\ registry.providers = ProvidersOf[watch.applied]
    BY DEF RosterInv, WatchOK
  <1>4. watch'.todo \in Seq(Range(watch'.providers))
    BY <1>1, <1>2
  <1>5. watch'.found \in Seq(ModelsOf(Range(watch'.providers)))
    BY <1>1
  <1>6. registry'.roster \in Seq(ModelsOf(Range(registry'.providers)))
    BY <1>3
  <1> QED  BY <1>1, <1>3, <1>4, <1>5, <1>6 DEF WatchOK

LEMMA TickKeeps == RosterInv /\ (Tick \/ TickUnread) => registry' \in Registries /\ watch' \in Watches /\ WatchOK'
  <1> SUFFICES ASSUME RosterInv, Tick \/ TickUnread  PROVE registry' \in Registries /\ watch' \in Watches /\ WatchOK'
    OBVIOUS
  <1>0. watch \in Watches /\ registry \in Registries /\ file \in Contents /\ registry.providers \in Seq(Entries) /\ watch.pc = "idle"
    BY DEF RosterInv, RosterTyped, Registries, Tick, TickUnread
  <1>1. PICK r : r = [registry EXCEPT !.reload = "error"]
    OBVIOUS
  <1>2. r \in Registries /\ r.providers = registry.providers /\ r.roster = registry.roster
    BY <1>0, <1>1 DEF Registries
  <1>3. PICK w : w = [watch EXCEPT !.content = file]
    OBVIOUS
  <1>4. w \in Watches /\ w.applied = watch.applied /\ w.content = file
    BY <1>0, <1>3 DEF Watches
  <1>5. PICK x : x = [w EXCEPT !.rejected = w.content]
    OBVIOUS
  <1>6. x \in Watches /\ x.applied = watch.applied
    BY <1>4, <1>5 DEF Watches
  <1>7. ProvidersOf[file] \in Seq(Entries)
    BY <1>0, RosterAssumption
  <1>8. CASE TickUnread
    <2>1. registry' = r /\ watch' = Discovering(watch, "refresh", registry.providers)
      BY <1>8, <1>1 DEF TickUnread
    <2>2. "refresh" \in {"refresh", "replace"} /\ watch.pc # "report" /\ "refresh" # "replace"
      BY <1>0
    <2> QED  BY <1>0, <1>2, <2>1, <2>2, DiscoveryStarts
  <1>9. CASE Tick
    <2>1. \/ watch' = Discovering(w, "refresh", registry.providers) /\ registry' = registry
          \/ watch' = Discovering(x, "refresh", registry.providers) /\ registry' = r
          \/ watch' = Discovering(w, "replace", ProvidersOf[file]) /\ registry' = registry
      BY <1>9, <1>1, <1>3, <1>5 DEF Tick, Refused
    <2>2. watch.pc # "report"
      BY <1>0
    <2>3. CASE watch' = Discovering(w, "refresh", registry.providers) /\ registry' = registry
      BY <2>2, <2>3, <1>0, <1>4, DiscoveryStarts
    <2>4. CASE watch' = Discovering(x, "refresh", registry.providers) /\ registry' = r
      BY <2>2, <2>4, <1>0, <1>2, <1>6, DiscoveryStarts
    <2>5. CASE watch' = Discovering(w, "replace", ProvidersOf[file]) /\ registry' = registry
      BY <2>2, <2>5, <1>0, <1>4, <1>7, DiscoveryStarts
    <2> QED  BY <2>1, <2>3, <2>4, <2>5
  <1> QED  BY <1>8, <1>9

LEMMA SeqParts == ASSUME NEW S, NEW s \in Seq(S), s # <<>>  PROVE Head(s) \in S /\ Tail(s) \in Seq(S)
  OBVIOUS
LEMMA SeqJoin == ASSUME NEW S, NEW s \in Seq(S), NEW t \in Seq(S)  PROVE s \o t \in Seq(S)
  OBVIOUS
LEMMA SeqWider == ASSUME NEW S, NEW T, S \subseteq T, NEW s \in Seq(S)  PROVE s \in Seq(T)
  OBVIOUS

LEMMA DiscoverKeeps == RosterInv /\ DiscoverNext => registry' \in Registries /\ watch' \in Watches /\ WatchOK'
  <1> SUFFICES ASSUME RosterInv, DiscoverNext  PROVE registry' \in Registries /\ watch' \in Watches /\ WatchOK'
    OBVIOUS
  <1> DEFINE p == Head(watch.todo)
             E == Range(watch.providers)
             S == ModelsOf(E)
             more == watch.found \o Discovered(p, endpoint[p.name])
  <1>0. watch \in Watches /\ registry \in Registries /\ watch.todo \in Seq(E) /\ watch.found \in Seq(S) /\ watch.todo # <<>>
    BY DEF RosterInv, RosterTyped, WatchOK, DiscoverNext
  <1>1. E \subseteq Entries
    <2>1. watch.providers \in Seq(Entries)
      BY <1>0 DEF Watches
    <2> QED  BY <2>1 DEF Range
  <1>2. p \in E /\ Tail(watch.todo) \in Seq(E)
    <2> HIDE DEF E
    <2> QED  BY <1>0, SeqParts
  <1>3. endpoint[p.name] \in Seq(Served)
    <2>1. p.name \in DOMAIN Offers
      BY <1>1, <1>2, RosterAssumption
    <2> QED  BY <2>1, RosterAssumption DEF RosterInv, RosterTyped
  <1> HIDE DEF p, E
  <1>4. Discovered(p, endpoint[p.name]) \in Seq(S)
    BY <1>1, <1>2, <1>3, DiscoveredIs
  <1> HIDE DEF S
  <1>5. PICK found \in Seq(S) : found = watch.found \o Discovered(p, endpoint[p.name])
    BY <1>0, <1>4, SeqJoin
  <1>6. PICK todo \in Seq(E) : todo = Tail(watch.todo)
    BY <1>2
  <1>7. watch' = [watch EXCEPT !.todo = todo, !.found = found] /\ registry' = registry
    BY <1>5, <1>6 DEF DiscoverNext, p
  <1>8. found \in Seq(RosterModels) /\ todo \in Seq(Entries)
    <2>1. S \subseteq RosterModels
      BY DEF S, ModelsOf
    <2> QED  BY <2>1, <1>1, SeqWider
  <1>9. /\ watch' \in Watches /\ watch'.todo = todo /\ watch'.found = found /\ watch'.pc = watch.pc
        /\ watch'.providers = watch.providers /\ watch'.applied = watch.applied /\ watch'.content = watch.content
    BY <1>0, <1>7, <1>8 DEF Watches
  <1>10. watch'.todo \in Seq(Range(watch'.providers)) /\ watch'.found \in Seq(ModelsOf(Range(watch'.providers)))
    BY <1>9 DEF E, S
  <1> QED  BY <1>0, <1>7, <1>9, <1>10 DEF RosterInv, WatchOK

\* publish, Report: the registry takes over what was discovered, or the content is refused.
LEMMA PublishKeeps == RosterInv /\ DiscoverEnds => registry' \in Registries /\ watch' \in Watches /\ WatchOK'
  <1> SUFFICES ASSUME RosterInv, DiscoverEnds  PROVE registry' \in Registries /\ watch' \in Watches /\ WatchOK'
    OBVIOUS
  <1>0. watch \in Watches /\ registry \in Registries /\ WatchOK /\ watch.pc \in {"refresh", "replace"} /\ publish
    BY DEF RosterInv, RosterTyped, DiscoverEnds
  <1>1. watch.providers \in Seq(Entries) /\ watch.found \in Seq(RosterModels)
    BY <1>0 DEF Watches
  <1>2. ASSUME NEW pc \in WatchPcs, watch' = [watch EXCEPT !.pc = pc]
        PROVE  /\ watch' \in Watches /\ watch'.pc = pc /\ watch'.todo = watch.todo /\ watch'.found = watch.found
               /\ watch'.providers = watch.providers /\ watch'.applied = watch.applied /\ watch'.content = watch.content
    BY <1>0, <1>2 DEF Watches
  <1>3. CASE watch.pc = "replace" /\ watch.found = <<>>
    <2>1. watch' = [watch EXCEPT !.pc = "refuse"] /\ registry' = registry
      BY <1>0, <1>3 DEF publish
    <2> QED  BY <1>0, <1>2, <1>3, <2>1 DEF WatchOK, WatchPcs
  <1>4. CASE ~(watch.pc = "replace" /\ watch.found = <<>>)
    <2>1. PICK pc \in {"report", "idle"} : watch' = [watch EXCEPT !.pc = pc] /\ (pc = "report" <=> watch.pc = "replace")
      BY <1>0, <1>4 DEF publish
    <2>2. registry' = [registry EXCEPT !.providers = watch.providers, !.roster = watch.found]
      BY <1>0, <1>4 DEF publish
    <2>3. registry' \in Registries /\ registry'.providers = watch.providers /\ registry'.roster = watch.found
      BY <1>0, <1>1, <2>2 DEF Registries
    <2>4. registry'.roster \in Seq(ModelsOf(Range(registry'.providers)))
      BY <1>0, <2>3 DEF WatchOK
    <2>5. /\ watch' \in Watches /\ watch'.pc = pc /\ watch'.todo = watch.todo /\ watch'.found = watch.found
          /\ watch'.providers = watch.providers /\ watch'.applied = watch.applied /\ watch'.content = watch.content
      BY <1>2, <2>1 DEF WatchPcs
    <2>6. registry'.providers = ProvidersOf[IF watch'.pc = "report" THEN watch'.content ELSE watch'.applied]
      BY <1>0, <2>1, <2>3, <2>5 DEF WatchOK
    <2> QED  BY <1>0, <2>1, <2>3, <2>4, <2>5, <2>6 DEF WatchOK
  <1> QED  BY <1>3, <1>4

LEMMA ReportKeeps == RosterInv /\ Report => registry' \in Registries /\ watch' \in Watches /\ WatchOK'
  <1> SUFFICES ASSUME RosterInv, Report  PROVE registry' \in Registries /\ watch' \in Watches /\ WatchOK'
    OBVIOUS
  <1>0. watch \in Watches /\ registry \in Registries /\ WatchOK /\ apply /\ registry.providers \in Seq(Entries) /\ watch.content \in Contents
    BY DEF RosterInv, RosterTyped, Report, Registries, Watches
  <1>1. CASE watch.pc = "report"
    <2>1. watch' = [watch EXCEPT !.pc = "idle", !.applied = watch.content, !.rejected = "none"] /\ registry' = [registry EXCEPT !.reload = "applied"]
      BY <1>0, <1>1 DEF apply
    <2>2. /\ watch' \in Watches /\ watch'.pc = "idle" /\ watch'.todo = watch.todo /\ watch'.found = watch.found
          /\ watch'.providers = watch.providers /\ watch'.applied = watch.content
      BY <1>0, <2>1 DEF Watches, WatchPcs
    <2>3. registry' \in Registries /\ registry'.providers = registry.providers /\ registry'.roster = registry.roster
      BY <1>0, <2>1 DEF Registries
    <2> QED  BY <1>0, <1>1, <2>2, <2>3 DEF WatchOK
  <1>2. CASE watch.pc = "refuse"
    <2>1. PICK w : w = [watch EXCEPT !.rejected = watch.content]
      OBVIOUS
    <2>2. w \in Watches /\ w.applied = watch.applied
      BY <1>0, <2>1 DEF Watches
    <2>3. watch' = Discovering(w, "refresh", registry.providers) /\ registry' = [registry EXCEPT !.reload = "error"]
      BY <1>0, <1>2, <2>1 DEF apply, Refused
    <2>4. registry' \in Registries /\ registry'.providers = registry.providers /\ registry'.roster = registry.roster
      BY <1>0, <2>3 DEF Registries
    <2>5. watch.pc # "report"
      BY <1>2
    <2> QED  BY <1>0, <2>2, <2>3, <2>4, <2>5, DiscoveryStarts
  <1> QED  BY <1>0, <1>1, <1>2 DEF apply

LEMMA SwitchesCount == ASSUME NEW s \in Switches  PROVE s.made + 1 \in Nat
  <1>1. PICK count \in Nat : count = s.made
    BY DEF Switches
  <1> QED  BY <1>1

\* The selections: only SaveSwitch, SetSwitch and a boot touch them.
LEMMA SelectionStep == RosterInv /\ RosterNext => SelectionOK' /\ switch' \in Switches /\ DOMAIN kept' = Slots /\ DOMAIN chosen' = Slots
  <1> SUFFICES ASSUME RosterInv, RosterNext
               PROVE  SelectionOK' /\ switch' \in Switches /\ DOMAIN kept' = Slots /\ DOMAIN chosen' = Slots
    OBVIOUS
  <1>0. /\ switch \in Switches /\ DOMAIN kept = Slots /\ DOMAIN chosen = Slots /\ switch.slot \in Slots
        /\ \A slot \in Slots \ switch.split : chosen[slot] \in {kept[slot], NoTarget} \/ (switch.pc = "set" /\ switch.slot = slot)
        /\ switch.pc = "set" => kept[switch.slot] = switch.target
    BY DEF RosterInv, RosterTyped, SelectionOK, Switches
  <1>1. CASE UNCHANGED <<kept, chosen, switch>>
    BY <1>0, <1>1 DEF SelectionOK
  <1>2. CASE Reboot
    <2>1. PICK restored : restored = [slot \in Slots |-> Restore(slot, DiscoverAll(ProvidersOf[file]), kept[slot])]
      OBVIOUS
    <2>d. /\ DOMAIN restored = Slots /\ chosen' = restored
           /\ kept' = [slot \in Slots |-> IF restored[slot] = NoTarget THEN kept[slot] ELSE restored[slot]]
           /\ switch' = [pc |-> "idle", slot |-> "interactive", target |-> NoTarget, id |-> "", split |-> {}, made |-> switch.made]
      BY <1>2, <2>1 DEF Reboot, BootedFrom
    <2>2. switch' \in Switches /\ switch'.pc = "idle"
      BY <2>d, <1>0 DEF Switches, Slots
    <2>3. \A slot \in Slots : chosen'[slot] \in {kept'[slot], NoTarget}
      BY <2>d
    <2> QED  BY <2>d, <2>2, <2>3 DEF SelectionOK
  <1>3. CASE \E slot \in Slots, t \in Selected : AskSwitch(slot, t)
    <2>1. PICK slot \in Slots, t \in Selected : AskSwitch(slot, t)
      BY <1>3
    <2>2. PICK id \in {s.id : s \in Served} : id = Lookup(t.provider, t.ref).id
      <3>1. Lookup(t.provider, t.ref) \in RosterModels
        BY <2>1, LookupIs DEF AskSwitch
      <3> QED  BY <3>1 DEF RosterModels
    <2>a. switch.made + 1 \in Nat
      BY <1>0, SwitchesCount
    <2>b. PICK count \in Nat : count = switch.made + 1
      BY ONLY <2>a
    <2>3. switch' = [switch EXCEPT !.pc = "save", !.slot = slot, !.target = t, !.id = id, !.made = count] /\ switch.pc = "idle"
          /\ UNCHANGED <<kept, chosen>>
      BY <2>1, <2>2, <2>b DEF AskSwitch
    <2>4. switch' \in Switches /\ switch'.pc = "save" /\ switch'.split = switch.split
      BY <2>3, <1>0, <2>1 DEF Switches
    <2> QED  BY <2>3, <2>4, <1>0 DEF SelectionOK
  <1>4. CASE SaveSwitch
    <2>1. PICK ok \in BOOLEAN : Save(ok)
      BY <1>4 DEF SaveSwitch
    <2>2. switch.pc = "save"
      BY <1>4 DEF SaveSwitch
    <2>3. CASE ok
      <3>1. kept' = [kept EXCEPT ![switch.slot] = switch.target] /\ switch' = [switch EXCEPT !.pc = "set"] /\ chosen' = chosen
        BY <2>1, <2>3 DEF Save
      <3>2. switch' \in Switches /\ switch'.pc = "set" /\ switch'.split = switch.split /\ switch'.slot = switch.slot /\ switch'.target = switch.target
        BY <3>1, <1>0 DEF Switches
      <3>3. \A slot \in Slots : kept'[slot] = IF slot = switch.slot THEN switch.target ELSE kept[slot]
        BY <3>1, <1>0
      <3> QED  BY <3>1, <3>2, <3>3, <2>2, <1>0 DEF SelectionOK
    <2>4. CASE ~ok
      <3>1. kept' = kept /\ switch' = [switch EXCEPT !.pc = "idle"] /\ chosen' = chosen
        BY <2>1, <2>4 DEF Save
      <3>2. switch' \in Switches /\ switch'.pc = "idle" /\ switch'.split = switch.split
        BY <3>1, <1>0 DEF Switches
      <3> QED  BY <3>1, <3>2, <2>2, <1>0 DEF SelectionOK
    <2> QED  BY <2>3, <2>4
  <1>5. CASE SetSwitch
    <2>1. switch.pc = "set" /\ kept' = kept
      BY <1>5 DEF SetSwitch
    <2>2. CASE switch' = [switch EXCEPT !.pc = "idle", !.split = @ \cup {switch.slot}] /\ UNCHANGED chosen
      <3>1. switch' \in Switches /\ switch'.pc = "idle" /\ switch'.split = switch.split \cup {switch.slot}
        BY <2>2, <1>0 DEF Switches
      <3> QED  BY <3>1, <2>1, <2>2, <1>0 DEF SelectionOK
    <2>3. CASE switch' = [switch EXCEPT !.pc = "idle", !.split = @ \ {switch.slot}] /\ chosen' = [chosen EXCEPT ![switch.slot] = switch.target]
      <3>1. switch' \in Switches /\ switch'.pc = "idle" /\ switch'.split = switch.split \ {switch.slot}
        BY <2>3, <1>0 DEF Switches
      <3>2. \A slot \in Slots : chosen'[slot] = IF slot = switch.slot THEN switch.target ELSE chosen[slot]
        BY <2>3, <1>0
      <3> QED  BY <3>1, <3>2, <2>1, <2>3, <1>0 DEF SelectionOK
    <2> QED  BY <1>5, <2>2, <2>3 DEF SetSwitch
  <1>6. RosterNext => Reboot \/ (\E slot \in Slots, t \in Selected : AskSwitch(slot, t)) \/ SaveSwitch \/ SetSwitch \/ UNCHANGED <<kept, chosen, switch>>
    BY DEF RosterNext, EditConfig, OfferChanges, Tick, TickUnread, DiscoverNext, DiscoverEnds, Report, Resolve, completeModel
  <1> QED  BY <1>1, <1>2, <1>3, <1>4, <1>5, <1>6

\* The client of a request has the key of the model it was found for.
LEMMA ClientIs == ASSUME NEW m  PROVE clientFor(m).key = m.key
  <1> DEFINE had == {c \in clients : c.provider = m.provider /\ c.key = m.key}
  <1>1. CASE had # {}
    <2>1. (CHOOSE c \in had : TRUE) \in had
      BY <1>1
    <2>2. clientFor(m) \in had
      BY <1>1, <2>1 DEF clientFor
    <2> QED  BY <2>2
  <1>2. CASE had = {}
    <2>1. clientFor(m) = [provider |-> m.provider, key |-> m.key]
      BY <1>2 DEF clientFor
    <2> QED  BY ONLY <2>1
  <1> QED  BY <1>1, <1>2

LEMMA RequestStep == RosterInv /\ RosterNext => request' \in Requests /\ RequestsUseTheirCredentials' /\ RefsAreNotReused
  <1> SUFFICES ASSUME RosterInv, RosterNext  PROVE request' \in Requests /\ RequestsUseTheirCredentials' /\ RefsAreNotReused
    OBVIOUS
  <1>0. request \in Requests /\ registry.roster \in Seq(RosterModels)
        /\ (request.sent # NoModel /\ request.pc = "none" => request.sent.key = request.model.key)
    BY DEF RosterInv, RosterTyped, Registries, RequestsUseTheirCredentials
  <1>1. CASE UNCHANGED request
    BY <1>0, <1>1 DEF RequestsUseTheirCredentials, RefsAreNotReused
  <1>2. CASE Reboot
    <2>1. request' = [pc |-> "none", model |-> NoModel, sent |-> NoModel, made |-> request.made]
      BY <1>2 DEF Reboot, BootedFrom
    <2>2. request' \in Requests /\ request'.sent = NoModel
      BY <2>1, <1>0 DEF Requests
    <2> QED  BY <2>2 DEF RequestsUseTheirCredentials, RefsAreNotReused
  <1>3. CASE Resolve
    <2>1. PICK m \in {lookupModel(ref) : ref \in buildModelRefs} \cup Range(registry.roster) :
            request.pc = "none" /\ request' = [request EXCEPT !.pc = "found", !.model = m, !.made = @ + 1]
      BY <1>3 DEF Resolve
    <2>2. m \in RosterModels \cup {NoModel}
      <3>1. \A ref : lookupModel(ref) \in RosterModels \cup {NoModel}
        BY LookupIs, LookupByRefIs DEF lookupModel
      <3>2. Range(registry.roster) \subseteq RosterModels
        BY <1>0 DEF Range
      <3> QED  BY <2>1, <3>1, <3>2
    <2>b. PICK n \in RosterModels \cup {NoModel}, count \in Nat : n = m /\ count = request.made + 1
      BY <2>2, <1>0 DEF Requests
    <2>c. request' = [request EXCEPT !.pc = "found", !.model = n, !.made = count]
      BY <2>1, <2>b
    <2>3. request' \in Requests /\ request'.pc = "found"
      BY ONLY <2>c, <1>0, n \in RosterModels \cup {NoModel}, count \in Nat DEF Requests
    <2> QED  BY <2>1, <2>3 DEF RequestsUseTheirCredentials, RefsAreNotReused
  <1>4. CASE completeModel
    <2>1. PICK m \in RosterModels \cup {NoModel} : m = request.model
      BY <1>0 DEF Requests
    <2>2. CASE Current(m)
      <3>1. PICK now : now = Lookup(m.provider, m.ref)
        OBVIOUS
      <3>2. now # NoModel /\ now.id = m.id
        BY <2>2, <3>1 DEF Current
      <3>3. now \in Range(registry.roster) /\ now.provider = m.provider
        BY <3>1, <3>2, LookupIs
      <3>4. PICK k : k = clientFor(m).key /\ k = m.key
        BY ClientIs
      <3>5. request' = [request EXCEPT !.pc = "none", !.sent = [m EXCEPT !.key = k]]
        BY <1>4, <2>1, <2>2, <3>4 DEF completeModel
      <3>6. [m EXCEPT !.key = k] = m
        BY <3>4, <2>1 DEF RosterModels, NoModel
      <3>7. request' \in Requests /\ request'.pc = "none" /\ request'.sent = m /\ request'.model = m
        BY <3>5, <3>6, <2>1, <1>0 DEF Requests
      <3> QED  BY <3>2, <3>3, <3>7, <2>1 DEF RequestsUseTheirCredentials, RefsAreNotReused
    <2>3. CASE ~Current(m)
      <3>1. request' = [request EXCEPT !.pc = "none", !.sent = NoModel]
        BY <1>4, <2>1, <2>3 DEF completeModel
      <3>2. request' \in Requests /\ request'.sent = NoModel
        BY <3>1, <1>0 DEF Requests
      <3> QED  BY <3>2 DEF RequestsUseTheirCredentials, RefsAreNotReused
    <2> QED  BY <2>2, <2>3
  <1>5. RosterNext => Reboot \/ Resolve \/ completeModel \/ UNCHANGED request
    BY DEF RosterNext, EditConfig, OfferChanges, Tick, TickUnread, DiscoverNext, DiscoverEnds, Report, AskSwitch, SaveSwitch, SetSwitch
  <1> QED  BY <1>1, <1>2, <1>3, <1>4, <1>5

\* The registry and the watcher of a process that has just started with content c.
LEMMA BootIs ==
    ASSUME NEW c \in Contents, \A p \in DOMAIN Offers : endpoint[p] \in Offers[p],
           registry' = [providers |-> ProvidersOf[c], roster |-> DiscoverAll(ProvidersOf[c]), reload |-> "none"],
           watch' = [pc |-> "idle", applied |-> c, rejected |-> "none", content |-> c, todo |-> <<>>, providers |-> <<>>, found |-> <<>>]
    PROVE  registry' \in Registries /\ watch' \in Watches /\ WatchOK'
  <1>1. PICK roster \in Seq(ModelsOf(Range(ProvidersOf[c]))) : roster = DiscoverAll(ProvidersOf[c])
    BY DiscoverAllIs
  <1>2. PICK ps \in Seq(Entries) : ps = ProvidersOf[c]
    BY RosterAssumption
  <1>3. roster \in Seq(RosterModels)
    BY <1>1, SeqWider DEF ModelsOf
  <1>4. registry' = [providers |-> ps, roster |-> roster, reload |-> "none"]
    BY <1>1, <1>2
  <1>5. registry' \in Registries /\ registry'.providers = ps /\ registry'.roster = roster
    BY <1>2, <1>3, <1>4 DEF Registries
  <1>6. PICK none \in Seq(Entries) : none = <<>>
    BY SomeEmptyList
  <1>e. PICK found \in Seq(RosterModels) : found = <<>>
    BY SomeEmptyList
  <1>7. watch' = [pc |-> "idle", applied |-> c, rejected |-> "none", content |-> c, todo |-> none, providers |-> none, found |-> found]
    BY <1>6, <1>e
  <1>8. watch' \in Watches /\ watch'.pc = "idle" /\ watch'.applied = c /\ watch'.todo = <<>> /\ watch'.found = <<>>
    BY <1>6, <1>e, <1>7 DEF Watches, WatchPcs
  <1>9. watch'.todo \in Seq(Range(watch'.providers)) /\ watch'.found \in Seq(ModelsOf(Range(watch'.providers)))
    BY <1>8
  <1>10. registry'.roster \in Seq(ModelsOf(Range(registry'.providers)))
    BY <1>1, <1>2, <1>5
  <1> QED  BY <1>2, <1>5, <1>8, <1>9, <1>10 DEF WatchOK

LEMMA RosterStep == RosterInv /\ [RosterNext]_mrVars => RosterInv'
  <1> SUFFICES ASSUME RosterInv, [RosterNext]_mrVars  PROVE RosterInv'
    OBVIOUS
  <1>0. file \in Contents /\ DOMAIN endpoint = DOMAIN Offers /\ \A p \in DOMAIN Offers : endpoint[p] \in Offers[p]
    BY DEF RosterInv, RosterTyped
  <1>1. CASE UNCHANGED mrVars
    BY <1>1 DEF mrVars, RosterInv, RosterTyped, WatchOK, SelectionOK, RequestsUseTheirCredentials
  <1>2. CASE RosterNext
    <2>1. file' \in Contents
      <3>1. (\E c \in Contents : EditConfig(c)) => file' \in Contents
        BY DEF EditConfig
      <3>2. RosterNext => (\E c \in Contents : EditConfig(c)) \/ UNCHANGED file
        BY DEF RosterNext, OfferChanges, Reboot, Tick, TickUnread, DiscoverNext, DiscoverEnds, Report, AskSwitch, SaveSwitch, SetSwitch, Resolve, completeModel
      <3> QED  BY <1>0, <1>2, <3>1, <3>2
    <2>2. DOMAIN endpoint' = DOMAIN Offers /\ \A p \in DOMAIN Offers : endpoint'[p] \in Offers[p]
      <3>1. CASE \E p \in DOMAIN Offers : OfferChanges(p)
        <4>1. PICK p \in DOMAIN Offers : OfferChanges(p)
          BY <3>1
        <4>2. PICK models \in Offers[p] : endpoint' = [endpoint EXCEPT ![p] = models]
          BY <4>1 DEF OfferChanges
        <4> QED  BY <4>2, <1>0
      <3>2. RosterNext => (\E p \in DOMAIN Offers : OfferChanges(p)) \/ UNCHANGED endpoint
        BY DEF RosterNext, EditConfig, Reboot, Tick, TickUnread, DiscoverNext, DiscoverEnds, Report, AskSwitch, SaveSwitch, SetSwitch, Resolve, completeModel
      <3> QED  BY <1>0, <1>2, <3>1, <3>2
    <2>3. registry' \in Registries /\ watch' \in Watches /\ WatchOK'
      <3>1. CASE Reboot
        BY <3>1, <1>0, BootIs DEF Reboot, BootedFrom
      <3>2. RosterNext => UNCHANGED <<registry, watch>> \/ Reboot \/ Tick \/ TickUnread \/ DiscoverNext \/ DiscoverEnds \/ Report
        BY DEF RosterNext, EditConfig, OfferChanges, AskSwitch, SaveSwitch, SetSwitch, Resolve, completeModel
      <3> QED  BY <1>2, <3>1, <3>2, WatchKept, TickKeeps, DiscoverKeeps, PublishKeeps, ReportKeeps
    <2>4. SelectionOK' /\ switch' \in Switches /\ DOMAIN kept' = Slots /\ DOMAIN chosen' = Slots
      BY <1>2, SelectionStep
    <2>5. request' \in Requests /\ RequestsUseTheirCredentials'
      BY <1>2, RequestStep
    <2> QED  BY <2>1, <2>2, <2>3, <2>4, <2>5 DEF RosterInv, RosterTyped
  <1> QED  BY <1>1, <1>2

LEMMA RosterStarts == RosterInit => RosterInv
  <1> SUFFICES ASSUME RosterInit  PROVE RosterInv
    OBVIOUS
  <1>1. file \in Contents /\ DOMAIN endpoint = DOMAIN Offers /\ \A p \in DOMAIN Offers : endpoint[p] \in Offers[p]
    BY DEF RosterInit
  <1>2. registry \in Registries /\ watch \in Watches /\ WatchOK
    <2>1. PICK roster \in Seq(ModelsOf(Range(ProvidersOf[file]))) : roster = DiscoverAll(ProvidersOf[file])
      BY <1>1, DiscoverAllIs
    <2>2. PICK ps \in Seq(Entries) : ps = ProvidersOf[file]
      BY <1>1, RosterAssumption
    <2>3. roster \in Seq(RosterModels)
      BY <2>1, SeqWider DEF ModelsOf
    <2>4. registry = [providers |-> ps, roster |-> roster, reload |-> "none"]
      BY <2>1, <2>2 DEF RosterInit
    <2>5. registry \in Registries /\ registry.providers = ps /\ registry.roster = roster
      BY <2>2, <2>3, <2>4 DEF Registries
    <2>6. PICK none \in Seq(Entries) : none = <<>>
      BY SomeEmptyList
    <2>e. PICK found \in Seq(RosterModels) : found = <<>>
      BY SomeEmptyList
    <2>7. watch = [pc |-> "idle", applied |-> file, rejected |-> "none", content |-> file, todo |-> none, providers |-> none, found |-> found]
      BY <2>6, <2>e DEF RosterInit
    <2>8. watch \in Watches /\ watch.pc = "idle" /\ watch.applied = file /\ watch.todo = <<>> /\ watch.found = <<>>
      BY <1>1, <2>6, <2>e, <2>7 DEF Watches, WatchPcs
    <2>9. watch.todo \in Seq(Range(watch.providers)) /\ watch.found \in Seq(ModelsOf(Range(watch.providers)))
      BY <2>8
    <2>10. registry.roster \in Seq(ModelsOf(Range(registry.providers)))
      BY <2>1, <2>2, <2>5
    <2> QED  BY <2>2, <2>5, <2>8, <2>9, <2>10 DEF WatchOK
  <1>3. switch \in Switches /\ switch.pc = "idle"
    BY DEF RosterInit, Switches, Slots
  <1>4. request \in Requests /\ request.sent = NoModel
    BY DEF RosterInit, Requests
  <1>5. DOMAIN chosen = Slots /\ kept = chosen
    BY DEF RosterInit
  <1> QED  BY <1>1, <1>2, <1>3, <1>4, <1>5 DEF RosterInv, RosterTyped, SelectionOK, RequestsUseTheirCredentials

LEMMA ModelsAreGood == RosterInv => ModelsSafe
  <1> SUFFICES ASSUME RosterInv  PROVE ModelsSafe
    OBVIOUS
  <1>1. RosterIsTheAppliedConfig
    <2>1. registry.roster \in Seq(ModelsOf(Range(registry.providers)))
      BY DEF RosterInv, WatchOK
    <2>2. \A m \in Range(registry.roster) : m \in ModelsOf(Range(registry.providers))
      <3>1. PICK S : S = ModelsOf(Range(registry.providers))
        OBVIOUS
      <3>2. registry.roster \in Seq(S)
        BY <2>1, <3>1
      <3> QED  BY <3>1, <3>2 DEF Range
    <2>3. \A m \in Range(registry.roster) : [name |-> m.provider, key |-> m.key] \in Range(registry.providers)
      BY <2>2 DEF ModelsOf
    <2>4. watch.pc # "report" => registry.providers = ProvidersOf[watch.applied]
      BY DEF RosterInv, WatchOK
    <2> QED  BY <2>3, <2>4 DEF RosterIsTheAppliedConfig
  <1>2. LiveSelectionsAreSaved
    BY DEF RosterInv, SelectionOK, LiveSelectionsAreSaved
  <1> QED  BY <1>1, <1>2 DEF RosterInv, ModelsSafe

-----------------------------------------------------------------------------
(* The invariants of the composition, and what they give. *)

LEMMA AccessStep ==
    ASSUME [AccessNext]_accessVars
    PROVE  [RosterNext]_mrVars /\ [AuthNext]_oaVars /\ [SecretNext]_ssVars
BY DEF AccessNext, accessVars, OnlyWire, OnlyRoster, OnlyDiscovery, OnlyAuth, OnlySecret

LEMMA TokensAreGood ==
    ASSUME AuthInv
    PROVE  RefreshedOnce /\ ServedTokenIsLive
<1>1. ASSUME NEW CONSTANT c \in Callers, caller[c].pc = "served" PROVE ~IsExpired(caller[c].cred)
  <2>1. age[caller[c].cred.access] # "expired"
    BY <1>1, CallFacts DEF CallOK
  <2>2. QED BY <2>1 DEF IsExpired
<1>2. QED BY <1>1, TokenFacts DEF ServedTokenIsLive

LEMMA SecretsAreGood ==
    ASSUME SecretInv
    PROVE  ContainersReadTheirSecret /\ CapableHostsSucceed /\ ProvisionRestores
<1>1. ASSUME NEW CONSTANT n \in SecretNames
      PROVE  driverLookup(n) \in {0, current[n]} /\ (n \notin shaken => driverLookup(n) = current[n])
  <2>1. NameOK(n)
    BY SecretFacts
  <2>2. CASE records[n].id = 0
    BY <2>1, <2>2 DEF NameOK, driverLookup
  <2>3. CASE records[n].id # 0
    <3>1. slots[records[n].id].value = current[n]
      BY <2>1, <2>3 DEF NameOK, Backs
    <3>2. n \notin shaken => Opens(records[n].id, records[n].kind)
      BY <2>1, <2>3 DEF NameOK, Backs, Opens
    <3>3. QED BY <2>3, <3>1, <3>2 DEF driverLookup
  <2>4. QED BY <2>2, <2>3
<1>2. ContainersReadTheirSecret
    BY <1>1 DEF ContainersReadTheirSecret
<1>3. CapableHostsSucceed
    BY SecretFacts DEF CapableHostsSucceed, CommandOK
<1>4. ProvisionRestores
  <2>1. ASSUME cmd.verb = "provision", cmd.step = "stored", NEW n \in SecretNames, records[n].id # 0
        PROVE  driverLookup(n) # 0
    <3>1. CASE n \notin cmd.todo
      BY <2>1, <3>1, SecretFacts DEF Provisioned
    <3>2. CASE n \in cmd.todo
      BY <2>1, <3>2, SecretFacts DEF CommandOK
    <3>3. QED BY <3>1, <3>2
  <2>2. QED BY <2>1 DEF ProvisionRestores
<1>5. QED BY <1>2, <1>3, <1>4

\* A login is given up by a logout, or by clearing a refresh token that the issuer does not accept.
LEMMA LoginStays ==
    ASSUME AuthInv, [AuthNext]_oaVars
    PROVE  LoginOutlivesTrouble
<1>1. SUFFICES ASSUME auth.refresh # 0, auth'.refresh = 0
      PROVE  auth.refresh \notin valid \/ logins' > logins \/ overtaken
    BY DEF LoginOutlivesTrouble
<1>2. ASSUME UNCHANGED auth PROVE FALSE
    BY <1>1, <1>2
<1>3. CASE UNCHANGED oaVars
    BY <1>2, <1>3 DEF oaVars
<1>4. ASSUME NEW CONSTANT c \in Callers, LoadOpenAIToken(c) \/ CallStep(c)
      PROVE  auth.refresh \notin valid \/ overtaken
  <2>1. CASE saveRefreshed(c)
    <3>1. caller[c].pc = "save" /\ auth' = caller[c].cred
      BY <1>2, <2>1 DEF saveRefreshed
    <3>2. caller[c].cred.refresh # 0
      BY <3>1, CallFacts DEF CallOK
    <3>3. QED BY <1>1, <3>1, <3>2
  <2>2. CASE clearSave(c)
    <3>1. caller[c].pc = "cleared"
      BY <2>2 DEF clearSave
    <3>2. QED BY <3>1, CallFacts DEF CallOK
  <2>3. CASE LoadOpenAIToken(c) \/ resolve(c) \/ refreshOpenAIToken(c) \/ refreshRefused(c) \/ refreshLost(c)
             \/ refreshCancelled(c) \/ clearLoad(c) \/ CallEnds(c)
    <3>1. UNCHANGED auth
      BY <2>3 DEF LoadOpenAIToken, resolve, refreshOpenAIToken, refreshRefused, refreshLost, refreshCancelled,
         clearLoad, CallEnds
    <3>2. QED BY <1>2, <3>1
  <2>4. QED BY <1>4, <2>1, <2>2, <2>3 DEF CallStep
<1>5. CASE requestOpenAIDeviceCode \/ pollApproved \/ loginGivesUp \/ Ages \/ AgentRestart
  <2>1. UNCHANGED auth
    BY <1>5 DEF requestOpenAIDeviceCode, pollApproved, loginGivesUp, Ages, AgentRestart
  <2>2. QED BY <1>2, <2>1
<1>6. CASE runLogin
  <2>1. login.pc = "save" /\ auth' = login.cred
    BY <1>6 DEF runLogin
  <2>2. login.cred.refresh \in 1..issued /\ issued \in Nat
    BY <2>1, TokenFacts DEF FileOK
  <2>3. QED BY <1>1, <2>1, <2>2
<1>7. CASE runLogout
  <2>1. logins' = logins + 1 /\ logins \in Nat
    BY <1>7, TokenFacts DEF runLogout
  <2>2. QED BY <2>1
<1>8. QED BY <1>3, <1>4, <1>5, <1>6, <1>7 DEF AuthNext, LoginStep

\* In every reachable state the credential file, the calls that refresh it and the q15 auth command agree on which
\* refresh token was sent (openAICredentialMu, clearCredentialRefreshToken), and every record of podman is backed
\* by a payload of its own (driverStore, driverDelete).
THEOREM AccessInvariant == AccessSpec => [](AuthInv /\ SecretInv)
<1>1. AccessInit => AuthInv /\ SecretInv
    BY AuthStarts, SecretStarts DEF AccessInit
<1>2. AuthInv /\ SecretInv /\ [AccessNext]_accessVars => (AuthInv /\ SecretInv)'
  <2>1. SUFFICES ASSUME AuthInv, SecretInv, [AccessNext]_accessVars PROVE AuthInv' /\ SecretInv'
    OBVIOUS
  <2>2. [AuthNext]_oaVars /\ [SecretNext]_ssVars
    BY <2>1, AccessStep
  <2>3. QED BY <2>1, <2>2, AuthStep, SecretStep
<1>3. QED BY <1>1, <1>2, PTL DEF AccessSpec

\* A refresh token is sent once, and again only when something went wrong after it was sent; the access token a
\* model call gets lives; a container reads the value last stored under its name, a host that passed the check can
\* seal, and a provision that reports success makes every name readable (resolveOpenAICredential, needsDelegationFor,
\* driverLookup, runSecretProvision).
THEOREM CredentialsSafeCorrect == AccessSpec => []CredentialsSafe
<1>1. AuthInv /\ SecretInv => CredentialsSafe
    BY TokensAreGood, SecretsAreGood DEF CredentialsSafe
<1>2. QED BY <1>1, AccessInvariant, PTL

\* No step takes the login away but a logout, a command of the user that overtook a refresh in flight, or the
\* clearing of a token the issuer rejected (refreshTokenRejected, clearCredentialRefreshToken).
THEOREM LoginOutlivesTroubleCorrect == AccessSpec => [][LoginOutlivesTrouble]_oaVars
<1>1. AuthInv /\ SecretInv /\ [AccessNext]_accessVars => [LoginOutlivesTrouble]_oaVars
    BY AccessStep, LoginStays
<1>2. QED BY <1>1, AccessInvariant, PTL DEF AccessSpec

\* In every reachable state the roster the registry publishes, and what the discovery in progress has found, are of
\* the providers they are published with, these are the applied content's, and only a switch that has saved its
\* target has it not live yet (ReplaceProviders, discover, configWatcher.apply, SwitchModel.Run).
THEOREM RosterInvariant == AccessSpec => []RosterInv
<1>1. AccessInit => RosterInv
    BY RosterStarts DEF AccessInit
<1>2. RosterInv /\ [AccessNext]_accessVars => RosterInv'
    BY AccessStep, RosterStep
<1>3. QED BY <1>1, <1>2, PTL DEF AccessSpec

\* The running providers are those of the applied content and the roster lists only their models under their own
\* credentials, whatever the edited file says and whichever provider is down (ReplaceProviders); a selection that is
\* live is the saved one outside a switch (SwitchModel.Run); and a request leaves with the key of the provider entry
\* it was resolved to (clientFor).
THEOREM ModelsSafeCorrect == AccessSpec => []ModelsSafe
<1>1. QED BY RosterInvariant, ModelsAreGood, PTL

\* No step serves another model under a ref that was resolved before (completeModel looks the ref up again), and none
\* takes the login away but a logout, an overtaken refresh, or the clearing of a rejected token.
THEOREM AccessStepsCorrect == AccessSpec => AccessSteps
<1>1. RosterInv /\ [AccessNext]_accessVars => RefsAreNotReused
  <2>1. SUFFICES ASSUME RosterInv, [AccessNext]_accessVars  PROVE RefsAreNotReused
    OBVIOUS
  <2>2. [RosterNext]_mrVars
    BY <2>1, AccessStep
  <2>3. CASE RosterNext
    BY <2>1, <2>3, RequestStep
  <2>4. CASE UNCHANGED mrVars
    BY <2>4 DEF mrVars, RefsAreNotReused
  <2>5. QED BY <2>2, <2>3, <2>4
<1>2. AuthInv /\ SecretInv /\ [AccessNext]_accessVars => LoginOutlivesTrouble
    BY AccessStep, LoginStays
<1>3. AuthInv /\ SecretInv /\ RosterInv /\ [AccessNext]_accessVars => [RefsAreNotReused /\ LoginOutlivesTrouble]_accessVars
    BY <1>1, <1>2
<1>4. QED BY <1>3, AccessInvariant, RosterInvariant, PTL DEF AccessSpec, AccessSteps
=============================================================================
