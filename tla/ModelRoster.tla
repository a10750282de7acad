----------------------------- MODULE ModelRoster -----------------------------
(***************************************************************************)
(* The live model roster and who uses it: modelcatalog/registry.go (what   *)
(* the providers offer, published as one snapshot), app/configwatch.go     *)
(* (the loop that applies an edited config file or refreshes), the two     *)
(* selections with their file (selectionstore, modelcatalog/selection.go,  *)
(* the switch_model tool), and app/model_adapter.go, which looks a model   *)
(* up again before each request and caches one client per provider entry.  *)
(***************************************************************************)
EXTENDS Integers, Sequences, SequencesExt

CONSTANTS ProvidersOf,  \* content of the config file -> its providers [name, key]; <<>>: refused by the parser
          Offers,       \* provider name -> the rosters [id, ref, kind] it may serve; <<>>: it cannot be reached
          Selected,     \* the targets [provider, ref] asked of switch_model
          MaxChanges,   \* bound: edits of the file, changes of an endpoint and reboots
          MaxModelCalls \* bound: calls of switch_model and model requests
Contents == DOMAIN ProvidersOf
Entries == UNION {Range(ProvidersOf[c]) : c \in Contents}
Served == UNION {Range(models) : models \in UNION {Offers[p] : p \in DOMAIN Offers}}

\* Every entry names a provider that serves, or does not, some roster.
ASSUME RosterAssumption ==
    /\ \A c \in Contents : ProvidersOf[c] \in Seq(Entries)
    /\ Entries \subseteq [name : DOMAIN Offers, key : {e.key : e \in Entries}]
    /\ \A p \in DOMAIN Offers : Offers[p] \subseteq Seq(Served)

VARIABLES file, edits,  \* the config file
          endpoint,     \* what each provider serves now
          registry,     \* the Registry
          watch,        \* configWatcher: pc, applied and rejected content, the discovery in progress
          kept,         \* selection.json, and the store's memory: slot -> target
          chosen,       \* the live selections: slot -> target
          switch,       \* the switch_model call in progress; and the slots whose last switch failed after its save
          request,      \* one model request: the client found for it, and what was sent
          clients       \* the client cache: provider entries with a client, and the key that client uses
mrVars == <<file, edits, endpoint, registry, watch, kept, chosen, switch, request, clients>>

NoTarget == [provider |-> "", ref |-> ""]
NoModel == [provider |-> "", key |-> "", id |-> "", ref |-> "", kind |-> ""]
Slots == {"interactive", "decision"}

-----------------------------------------------------------------------------
(* The registry *)

\* The models one provider adds to the roster.
Discovered(p, served) ==
    [k \in DOMAIN served |->
        [provider |-> p.name, key |-> p.key, id |-> served[k].id, ref |-> served[k].ref, kind |-> served[k].kind]]
DiscoverAll(providers) == FlattenSeq([k \in DOMAIN providers |-> Discovered(providers[k], endpoint[providers[k].name])])

FirstOf(models, Test(_)) ==
    LET hits == {k \in DOMAIN models : Test(models[k])} IN IF hits = {} THEN NoModel ELSE models[Min(hits)]
Lookup(provider, ref) == LET Test(m) == m.provider = provider /\ m.ref = ref IN FirstOf(registry.roster, Test)
LookupByRef(ref) == LET Test(m) == m.ref = ref IN FirstOf(registry.roster, Test)
RequireChat(m) == m.kind \in {"chat", "full"}
HoldsRole(slot, m) == IF slot = "interactive" THEN RequireChat(m) ELSE m.kind = "decision"

-----------------------------------------------------------------------------
(* Boot *)

\* The first chat model, one with text and tools before the others; the first model for decisions.
Candidate(slot, roster) ==
    LET full(m) == m.kind = "full" /\ slot = "interactive"
        role(m) == HoldsRole(slot, m)
        best == FirstOf(roster, full)
        m == IF best # NoModel THEN best ELSE FirstOf(roster, role)
    IN [provider |-> m.provider, ref |-> m.ref]
\* The saved target of a slot if the roster still serves it in that role, else a candidate.
Restore(slot, roster, target) ==
    IF \E m \in Range(roster) : m.provider = target.provider /\ m.ref = target.ref /\ HoldsRole(slot, m)
    THEN target ELSE Candidate(slot, roster)
\* Start with config file c and the saved selections s: nothing else runs yet. Without a chat model it fails.
BootedFrom(c, s) ==
    LET roster == DiscoverAll(ProvidersOf[c])
        restored == [slot \in Slots |-> Restore(slot, roster, s[slot])]
    IN /\ restored["interactive"] # NoTarget
       /\ registry' = [providers |-> ProvidersOf[c], roster |-> roster, reload |-> "none"]
       /\ watch' = [pc |-> "idle", applied |-> c, rejected |-> "none", content |-> c, todo |-> <<>>, providers |-> <<>>, found |-> <<>>]
       /\ chosen' = restored
       /\ kept' = [slot \in Slots |-> IF restored[slot] = NoTarget THEN s[slot] ELSE restored[slot]]
       /\ switch' = [pc |-> "idle", slot |-> "interactive", target |-> NoTarget, id |-> "", split |-> {}, made |-> switch.made]
       /\ request' = [pc |-> "none", model |-> NoModel, sent |-> NoModel, made |-> request.made]
       /\ clients' = {}

\* The config file and the endpoints are any; the saved selections are those of no earlier run.
RosterInit ==
    /\ file \in {c \in Contents : ProvidersOf[c] # <<>>} /\ edits = 0
    /\ endpoint \in [DOMAIN Offers -> UNION {Offers[p] : p \in DOMAIN Offers}]
    /\ \A p \in DOMAIN Offers : endpoint[p] \in Offers[p] /\ endpoint[p] # <<>>
    /\ registry = [providers |-> ProvidersOf[file], roster |-> DiscoverAll(ProvidersOf[file]), reload |-> "none"]
    /\ chosen = [slot \in Slots |-> Candidate(slot, registry.roster)] /\ chosen["interactive"] # NoTarget
    /\ kept = chosen
    /\ watch = [pc |-> "idle", applied |-> file, rejected |-> "none", content |-> file, todo |-> <<>>, providers |-> <<>>, found |-> <<>>]
    /\ switch = [pc |-> "idle", slot |-> "interactive", target |-> NoTarget, id |-> "", split |-> {}, made |-> 0]
    /\ request = [pc |-> "none", model |-> NoModel, sent |-> NoModel, made |-> 0] /\ clients = {}
\* The process ends anywhere and starts again.
Reboot ==
    /\ edits < MaxChanges /\ edits' = edits + 1
    /\ ProvidersOf[file] # <<>> /\ BootedFrom(file, kept) /\ UNCHANGED <<file, endpoint>>

-----------------------------------------------------------------------------
(* The user and the providers *)

EditConfig(c) ==
    /\ edits < MaxChanges /\ c # file /\ file' = c /\ edits' = edits + 1
    /\ UNCHANGED <<endpoint, registry, watch, kept, chosen, switch, request, clients>>
OfferChanges(p) ==
    /\ edits < MaxChanges /\ edits' = edits + 1
    /\ \E models \in Offers[p] \ {endpoint[p]} : endpoint' = [endpoint EXCEPT ![p] = models]
    /\ UNCHANGED <<file, registry, watch, kept, chosen, switch, request, clients>>

-----------------------------------------------------------------------------
(* The config watcher *)

Discovering(w, pc, providers) == [w EXCEPT !.pc = pc, !.todo = providers, !.providers = providers, !.found = <<>>]
\* The edited content is refused, and the running providers are refreshed.
Refused(w) == Discovering([w EXCEPT !.rejected = w.content], "refresh", registry.providers)

Tick ==
    LET w == [watch EXCEPT !.content = file] IN
    /\ watch.pc = "idle"
    /\ CASE file \in {watch.applied, watch.rejected} ->
               watch' = Discovering(w, "refresh", registry.providers) /\ UNCHANGED registry
         [] file \notin {watch.applied, watch.rejected} /\ ProvidersOf[file] = <<>> ->
               watch' = Refused(w) /\ registry' = [registry EXCEPT !.reload = "error"]
         [] OTHER -> watch' = Discovering(w, "replace", ProvidersOf[file]) /\ UNCHANGED registry
    /\ UNCHANGED <<file, edits, endpoint, kept, chosen, switch, request, clients>>
\* The config file cannot be read at this tick.
TickUnread ==
    /\ watch.pc = "idle" /\ registry.reload # "error"
    /\ registry' = [registry EXCEPT !.reload = "error"] /\ watch' = Discovering(watch, "refresh", registry.providers)
    /\ UNCHANGED <<file, edits, endpoint, kept, chosen, switch, request, clients>>
\* discover: one provider after the other.
DiscoverNext ==
    /\ watch.pc \in {"refresh", "replace"} /\ watch.todo # <<>>
    /\ watch' = [watch EXCEPT !.todo = Tail(@),
                              !.found = @ \o Discovered(Head(watch.todo), endpoint[Head(watch.todo).name])]
    /\ UNCHANGED <<file, edits, endpoint, registry, kept, chosen, switch, request, clients>>

\* fault: the providers are replaced although none of them answered.
publishAnything ==
    /\ registry' = [registry EXCEPT !.providers = watch.providers, !.roster = watch.found]
    /\ watch' = [watch EXCEPT !.pc = IF watch.pc = "replace" THEN IF watch.found = <<>> THEN "refuse" ELSE "report" ELSE "idle"]
publish ==
    IF watch.pc = "replace" /\ watch.found = <<>>
    THEN watch' = [watch EXCEPT !.pc = "refuse"] /\ UNCHANGED registry
    ELSE /\ registry' = [registry EXCEPT !.providers = watch.providers, !.roster = watch.found]
         /\ watch' = [watch EXCEPT !.pc = IF watch.pc = "replace" THEN "report" ELSE "idle"]
DiscoverEnds ==
    /\ watch.pc \in {"refresh", "replace"} /\ watch.todo = <<>> /\ publish
    /\ UNCHANGED <<file, edits, endpoint, kept, chosen, switch, request, clients>>

\* fault: a refused content is remembered and nobody is told.
applySilent ==
    \/ /\ watch.pc = "report"
       /\ watch' = [watch EXCEPT !.pc = "idle", !.applied = watch.content, !.rejected = "none"]
       /\ registry' = [registry EXCEPT !.reload = "applied"]
    \/ watch.pc = "refuse" /\ watch' = Refused(watch) /\ UNCHANGED registry
\* The end of apply: the content is applied and the status says so, or it is refused.
apply ==
    \/ /\ watch.pc = "report"
       /\ watch' = [watch EXCEPT !.pc = "idle", !.applied = watch.content, !.rejected = "none"]
       /\ registry' = [registry EXCEPT !.reload = "applied"]
    \/ watch.pc = "refuse" /\ watch' = Refused(watch) /\ registry' = [registry EXCEPT !.reload = "error"]
Report ==
    /\ apply /\ UNCHANGED <<file, edits, endpoint, kept, chosen, switch, request, clients>>

-----------------------------------------------------------------------------
(* switch_model: only the interactive loop has it, one call at a time *)

AskSwitch(slot, t) ==
    LET m == Lookup(t.provider, t.ref) IN
    /\ switch.pc = "idle" /\ switch.made + request.made < MaxModelCalls /\ m # NoModel /\ HoldsRole(slot, m)
    /\ switch' = [switch EXCEPT !.pc = "save", !.slot = slot, !.target = t, !.id = m.id, !.made = @ + 1]
    /\ UNCHANGED <<file, edits, endpoint, registry, watch, kept, chosen, request, clients>>

\* fault: the target is live before it is saved.
SaveLate(ok) ==
    /\ chosen' = [chosen EXCEPT ![switch.slot] = switch.target]
    /\ kept' = IF ok THEN [kept EXCEPT ![switch.slot] = switch.target] ELSE kept
    /\ switch' = [switch EXCEPT !.pc = "idle", !.split = @ \ {switch.slot}]
\* setSelection stages, replaces the file and commits; a failed write ends the call.
Save(ok) ==
    /\ kept' = IF ok THEN [kept EXCEPT ![switch.slot] = switch.target] ELSE kept
    /\ switch' = [switch EXCEPT !.pc = IF ok THEN "set" ELSE "idle"] /\ UNCHANGED chosen
SaveSwitch ==
    /\ switch.pc = "save" /\ (\E ok \in BOOLEAN : Save(ok))
    /\ UNCHANGED <<file, edits, endpoint, registry, watch, request, clients>>
\* Selection.Set looks the target up once more and may refuse it; SetDecision takes it as it is.
SetSwitch ==
    /\ switch.pc = "set"
    /\ IF switch.slot = "interactive" /\ ~RequireChat(Lookup(switch.target.provider, switch.target.ref))
       THEN switch' = [switch EXCEPT !.pc = "idle", !.split = @ \cup {switch.slot}] /\ UNCHANGED chosen
       ELSE /\ switch' = [switch EXCEPT !.pc = "idle", !.split = @ \ {switch.slot}]
            /\ chosen' = [chosen EXCEPT ![switch.slot] = switch.target]
    /\ UNCHANGED <<file, edits, endpoint, registry, watch, kept, request, clients>>

-----------------------------------------------------------------------------
(* Requests *)

\* lookupModel of a plain ref: the live selection's provider first, else whichever provider lists it first.
lookupModel(ref) ==
    LET own == Lookup(chosen["interactive"].provider, ref) IN
    IF ref = chosen["interactive"].ref /\ own # NoModel THEN own ELSE LookupByRef(ref)
buildModelRefs == {chosen["interactive"].ref} \cup {m.ref : m \in {x \in Range(registry.roster) : RequireChat(x)}}

\* An interactive run asks for one of its refs; a scheduled run binds one provider's model for all its requests.
Resolve ==
    /\ request.pc = "none" /\ switch.made + request.made < MaxModelCalls
    /\ \E m \in {lookupModel(ref) : ref \in buildModelRefs} \cup Range(registry.roster) :
        m # NoModel /\ request' = [request EXCEPT !.pc = "found", !.model = m, !.made = @ + 1]
    /\ UNCHANGED <<file, edits, endpoint, registry, watch, kept, chosen, switch, clients>>

\* fault: one client per provider name.
clientForName(m) ==
    LET had == {c \in clients : c.provider = m.provider} IN
    IF had # {} THEN CHOOSE c \in had : TRUE ELSE [provider |-> m.provider, key |-> m.key]
\* clientFor: the cached client of exactly this provider entry, or a new one.
clientFor(m) ==
    LET had == {c \in clients : c.provider = m.provider /\ c.key = m.key} IN
    IF had # {} THEN CHOOSE c \in had : TRUE ELSE [provider |-> m.provider, key |-> m.key]
\* fault: the model found first is used without a second look.
StillServed(m) == LET now == Lookup(m.provider, m.ref) IN now # NoModel /\ RequireChat(now)
\* completeModel's second lookup: the same provider model must still stand behind the ref, with chat.
Current(m) == LET now == Lookup(m.provider, m.ref) IN now # NoModel /\ now.id = m.id /\ RequireChat(now)
\* The request is sent, or refused.
completeModel ==
    LET m == request.model IN
    /\ request.pc = "found"
    /\ IF Current(m)
       THEN /\ clients' = clients \cup {clientFor(m)}
            /\ request' = [request EXCEPT !.pc = "none", !.sent = [m EXCEPT !.key = clientFor(m).key]]
       ELSE request' = [request EXCEPT !.pc = "none", !.sent = NoModel] /\ UNCHANGED clients
    /\ UNCHANGED <<file, edits, endpoint, registry, watch, kept, chosen, switch>>

RosterNext ==
    \/ \E c \in Contents : EditConfig(c)
    \/ \E p \in DOMAIN Offers : OfferChanges(p)
    \/ Reboot \/ Tick \/ TickUnread \/ DiscoverNext \/ DiscoverEnds \/ Report
    \/ \E slot \in Slots, t \in Selected : AskSwitch(slot, t)
    \/ SaveSwitch \/ SetSwitch \/ Resolve \/ completeModel
RosterSpec == RosterInit /\ [][RosterNext]_mrVars
\* The watcher's ticker fires and its discoveries end (each has a timeout).
RosterFairness == WF_mrVars(Tick \/ DiscoverNext \/ DiscoverEnds \/ Report)

-----------------------------------------------------------------------------
(* Properties *)

\* A reload that is refused changes nothing (ReplaceProviders): whatever the file says and whichever provider is
\* down, the running providers are those of the applied content, and the roster lists only their models, under
\* their own credentials.
RosterIsTheAppliedConfig ==
    /\ watch.pc # "report" => registry.providers = ProvidersOf[watch.applied]
    /\ \A m \in Range(registry.roster) : [name |-> m.provider, key |-> m.key] \in Range(registry.providers)
\* A switch that took effect survives a restart (SwitchModel.Run saves before it sets): outside a call the live
\* selections are the saved ones, except in a slot whose last switch was refused between the two.
LiveSelectionsAreSaved ==
    switch.pc = "idle" => \A slot \in Slots \ switch.split : chosen[slot] \in {kept[slot], NoTarget}
\* A request goes out with the credentials of the provider entry it was resolved to, however often the config
\* changed since the cached client was made (clientFor).
RequestsUseTheirCredentials == request.sent # NoModel /\ request.pc = "none" => request.sent.key = request.model.key
\* A ref that now names another model of the provider is not served in place of the one resolved before:
\* completeModel refuses it.
RefsAreNotReused ==
    request.pc = "found" /\ request'.pc = "none" /\ request'.sent # NoModel
    => \E m \in Range(registry.roster) : m.provider = request.model.provider /\ m.id = request.model.id
\* What must end: an edit of the file that is neither applied nor refused and reported (configWatcher.tick).
EditPending == watch.applied # file /\ ~(watch.rejected = file /\ registry.reload = "error")
=============================================================================
