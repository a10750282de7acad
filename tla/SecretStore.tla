---------------------------- MODULE SecretStore ----------------------------
(***************************************************************************)
(* The stack's secrets (secret/*.go, cli/secret.go): q15 secret set and    *)
(* provision hand a value to podman, podman calls q15 back as its shell    *)
(* secret driver, and the driver seals the value into a file.  A container *)
(* start makes podman look the value up through the same driver.           *)
(*                                                                         *)
(* podman is external: it maps a name to an identifier and to the driver   *)
(* command it was created with; create --replace first has the driver      *)
(* delete the old identifier, which is empty for a new name, and when that *)
(* succeeds removes the record the identifier is a prefix of.              *)
(***************************************************************************)
EXTENDS Integers, FiniteSets

CONSTANTS
    SecretNames,     \* names of secrets
    MaxSecrets,      \* values set in one behaviour
    MaxSecretFaults  \* failing programs, kills, reinstalls

ASSUME SecretAssumption == {MaxSecrets, MaxSecretFaults} \subseteq Nat

VARIABLES
    host,       \* [seals: systemd is new enough, hands: systemd-run is there]
    machine,    \* the key systemd-creds derives on this machine
    slots,      \* the store: identifier -> payload
    records,    \* podman's table: name -> [id, kind], id 0 when absent
    dropin,     \* the store kind podman's drop-in names
    cmd,        \* the q15 secret command that runs
    made,       \* values set so far, also the last identifier given
    current,    \* per name: the last value reported as stored
    shaken,     \* names whose rotation failed half way, or whose key is gone
    mishaps     \* faults so far

ssVars == <<host, machine, slots, records, dropin, cmd, made, current,
            shaken, mishaps>>

SealKinds == {"systemd-creds", "file"}
NoSlot    == [kind |-> "none", key |-> 0, name |-> 0, value |-> 0]
NoRecord  == [id |-> 0, kind |-> "none"]
NoCommand == [verb |-> "none", step |-> "none", name |-> "none", kind |-> "none", value |-> 0, todo |-> {}, ok |-> TRUE]

PodmanSlots == 1 .. MaxSecrets

Mishap == mishaps < MaxSecretFaults /\ mishaps' = mishaps + 1
Calm   == UNCHANGED mishaps

\* SupportsSystemdCreds, ensureSeal
ensureSeal(kind) == kind # "systemd-creds" \/ host.seals

\* fault: the driver uses systemd-creds wherever it runs
neverDelegates(kind, inside) == FALSE

\* needsDelegationFor: as root of a user namespace the key cannot be reached.
needsDelegationFor(kind, inside) == kind = "systemd-creds" /\ inside

(***************************************************************************)
(* runCrypto: whether the driver, run by podman inside its user namespace  *)
(* or outside of one, reaches the key: by itself or through the user       *)
(* manager.                                                                *)
(***************************************************************************)
runCrypto(kind, inside) ==
    \/ kind = "file"
    \/ needsDelegationFor(kind, inside) /\ host.hands
    \/ ~needsDelegationFor(kind, inside) /\ ~inside

-----------------------------------------------------------------------------
(***************************************************************************)
(* runSecretSet, runSecretProvision: the host is checked and the driver    *)
(* registered before a value is read.                                      *)
(***************************************************************************)
BeginSecret(verb, kind, names) ==
    /\ cmd = NoCommand /\ made < MaxSecrets
    /\ ensureSeal(kind)
    /\ dropin' = kind
    /\ cmd' = [NoCommand EXCEPT !.verb = verb, !.step = "read", !.kind = kind, !.todo = names]
    /\ UNCHANGED <<host, machine, slots, records, made, current, shaken, mishaps>>

runSecretSet == \E n \in SecretNames, k \in SealKinds : BeginSecret("set", k, {n})

\* fault: provisions only the names whose payload it can still find
podmanSecretNamesFound == {n \in SecretNames : records[n].id # 0 /\ slots[records[n].id].key = machine}

\* podmanSecretNames
podmanSecretNames == {n \in SecretNames : records[n].id # 0}

runSecretProvision ==
    /\ podmanSecretNames # {}         \* nothing to provision
    /\ \E k \in SealKinds : BeginSecret("provision", k, podmanSecretNames)

\* readSecretValue: the next value, from a file, a pipe or a hidden prompt.
readSecretValue ==
    /\ cmd.step = "read" /\ cmd.todo # {} /\ made < MaxSecrets
    /\ \E n \in cmd.todo :
          cmd' = [cmd EXCEPT !.step = "delete", !.name = n, !.value = made + 1, !.todo = @ \ {n}]
    /\ made' = made + 1
    /\ Calm
    /\ UNCHANGED <<host, machine, slots, records, dropin, current, shaken>>

\* An empty value or a failing read ends the command; the prompt may have hidden the input.
readFails ==
    /\ cmd.step = "read" /\ cmd.todo # {} /\ Mishap
    /\ cmd' = NoCommand
    /\ UNCHANGED <<host, machine, slots, records, dropin, made, current, shaken>>

\* fault: nothing to delete is a success
DeleteTolerant(id) == TRUE

\* Store.Delete, driverDelete: an empty identifier is refused, an absent slot is no error.
Delete(id) == id # 0

\* podman create --replace, before it has an identifier for the new payload
driverDelete ==
    /\ cmd.step = "delete"
    /\ LET id == records[cmd.name].id
       IN  IF ~Delete(id) THEN UNCHANGED <<slots, records>>
           ELSE IF id # 0
           THEN /\ slots' = [slots EXCEPT ![id] = NoSlot]
                /\ records' = [records EXCEPT ![cmd.name] = NoRecord]
           ELSE /\ UNCHANGED slots
                /\ IF podmanSecretNames = {} THEN UNCHANGED records
                   ELSE \E n \in podmanSecretNames : records' = [records EXCEPT ![n] = NoRecord]
    /\ cmd' = [cmd EXCEPT !.step = "store"]
    /\ shaken' = shaken \cup {cmd.name}
    /\ UNCHANGED <<host, machine, dropin, made, current, mishaps>>

(***************************************************************************)
(* driverStore, Store.Set: the payload is sealed into a temporary file     *)
(* under the identifier's name and renamed into its slot.                  *)
(***************************************************************************)
driverStore ==
    /\ cmd.step = "store"
    /\ runCrypto(cmd.kind, TRUE)
    /\ slots' = [slots EXCEPT ![cmd.value] =
                    [kind |-> cmd.kind, key |-> machine, name |-> cmd.value, value |-> cmd.value]]
    /\ cmd' = [cmd EXCEPT !.step = "record"]
    /\ UNCHANGED <<host, machine, records, dropin, made, current, shaken, mishaps>>

\* The value cannot be sealed: no key, no systemd-run, or a failing program or disk.
storeFails ==
    /\ cmd.step = "store"
    /\ IF runCrypto(cmd.kind, TRUE) THEN Mishap ELSE Calm
    /\ cmd' = [cmd EXCEPT !.step = "failed", !.ok = runCrypto(cmd.kind, TRUE)]
    /\ UNCHANGED <<host, machine, slots, records, dropin, made, current, shaken>>

\* createPodmanSecret returns; podman has recorded the name with this driver command.
createPodmanSecret ==
    /\ cmd.step = "record"
    /\ records' = [records EXCEPT ![cmd.name] = [id |-> cmd.value, kind |-> cmd.kind]]
    /\ current' = [current EXCEPT ![cmd.name] = cmd.value]
    /\ shaken' = shaken \ {cmd.name}
    /\ cmd' = IF cmd.todo = {} THEN [cmd EXCEPT !.step = "stored"] ELSE [cmd EXCEPT !.step = "read"]
    /\ UNCHANGED <<host, machine, slots, dropin, made, mishaps>>

\* The command exits.
Exit ==
    /\ \/ cmd.step \in {"stored", "failed"}
       \/ cmd.step = "read" /\ made = MaxSecrets
    /\ cmd' = NoCommand
    /\ UNCHANGED <<host, machine, slots, records, dropin, made, current, shaken, mishaps>>

\* The command, podman or the driver is killed between two steps.
KillCommand ==
    /\ cmd.step \in {"read", "store", "record"} /\ Mishap
    /\ cmd' = NoCommand
    /\ UNCHANGED <<host, machine, slots, records, dropin, made, current, shaken>>

\* Store.Lookup: a payload of this kind, under its own name, sealed with this machine's key
Opens(id, kind) ==
    /\ slots[id].kind = kind
    /\ slots[id].name = id
    /\ kind = "systemd-creds" => runCrypto(kind, TRUE) /\ slots[id].key = machine

\* driverLookup: what a container that starts gets under a name; 0 is an error.
driverLookup(n) ==
    IF records[n].id # 0 /\ Opens(records[n].id, records[n].kind) THEN slots[records[n].id].value ELSE 0

\* A reinstall: podman's table and the files are restored, the key is not.
Reinstall ==
    /\ cmd = NoCommand /\ Mishap
    /\ machine' = machine + 1
    /\ shaken' = shaken \cup {n \in SecretNames : records[n].kind = "systemd-creds"}
    /\ UNCHANGED <<host, slots, records, dropin, cmd, made, current>>

SecretInit ==
    /\ host \in [seals : BOOLEAN, hands : BOOLEAN]
    /\ machine = 1 /\ slots = [i \in PodmanSlots |-> NoSlot]
    /\ records = [n \in SecretNames |-> NoRecord]
    /\ dropin = "none" /\ cmd = NoCommand /\ made = 0
    /\ current = [n \in SecretNames |-> 0] /\ shaken = {} /\ mishaps = 0

CommandStep ==
    \/ readSecretValue \/ readFails \/ driverDelete \/ driverStore \/ storeFails
    \/ createPodmanSecret \/ Exit

SecretNext ==
    \/ runSecretSet \/ runSecretProvision \/ CommandStep
    \/ KillCommand \/ Reinstall

SecretSpec == SecretInit /\ [][SecretNext]_ssVars

-----------------------------------------------------------------------------
\* A container gets the value last stored under the name it asks for, however
\* other names were set, rotated or failed to be in between; it gets none only
\* when the name was never stored, its own rotation broke off, or the machine's
\* key is gone (Store.Delete refusing the empty identifier, driverStore,
\* driverLookup).
ContainersReadTheirSecret ==
    \A n \in SecretNames : cmd.name # n =>
        /\ driverLookup(n) \in {0, current[n]}
        /\ n \notin shaken => driverLookup(n) = current[n]

\* A host that passed the check before the value was read can seal it, wherever
\* podman runs the driver: after that only a real fault fails the command
\* (ensureSeal, needsDelegationFor).
CapableHostsSucceed == cmd.step = "failed" /\ host.hands => cmd.ok

\* After a provision that reports success every name podman knows can be read
\* on this machine, also those sealed with a key that is gone
\* (runSecretProvision over podmanSecretNames).
ProvisionRestores ==
    cmd.verb = "provision" /\ cmd.step = "stored" =>
        \A n \in SecretNames : records[n].id # 0 => driverLookup(n) # 0
=============================================================================
