---------------------------- MODULE MCModelAccess ----------------------------
(***************************************************************************)
(* Bounded instances of what stands between the agent and a model: the     *)
(* provider clients, the roster of models and its reload, discovery, the   *)
(* OAuth tokens, and the secrets the containers read. The components share *)
(* no state here, so a behaviour follows one of them (focus) and leaves    *)
(* the others where they start.                                            *)
(***************************************************************************)
EXTENDS ProviderWire, ModelRoster, ModelDiscovery, OAuthTokens, SecretStore

CONSTANT Focuses    \* the components the run explores
VARIABLE focus

accessVars == <<focus, pwVars, mrVars, mdVars, oaVars, ssVars>>

mUser == Message("user", <<Text(<<71>>, "")>>)
mSystem == Message("system", <<Text(<<70>>, "")>>)
mPrompts == <<Message("system", <<Text(<<0>>, "")>>), mSystem>>
mDelivered == <<mSystem, Message("assistant", <<Text(<<73>>, "")>>)>>
mHistory ==
    <<Message("user", <<Image(72), Text(<<71>>, "")>>),
      Message("assistant", <<Reasoning(<<74>>, "compatible"), Text(<<75>>, "commentary"), ToolCall(101, 55, <<>>), Image(77)>>),
      Message("tool", <<ToolResultPart(101)>>),
      Message("assistant", <<Reasoning(<<>>, "codex")>>), Message("assistant", <<Text(<<76>>, "final")>>), mUser>>
mStarts == {mPrompts, mDelivered, mHistory}

mModel(id, ref, kind) == [id |-> id, ref |-> ref, kind |-> kind]
mProvidersOf == [one |-> <<[name |-> "p", key |-> "k1"], [name |-> "q", key |-> "k"]>>,
                 two |-> <<[name |-> "p", key |-> "k2"]>>, bad |-> <<>>]
mOffers == [p |-> {<<>>, <<mModel("m:cloud", "m", "full"), mModel("d", "d", "decision")>>, <<mModel("m", "m", "chat")>>},
            q |-> {<<mModel("m", "m", "chat")>>}]
mSelected == {[provider |-> "p", ref |-> "m"], [provider |-> "p", ref |-> "d"]}

mId(t, d) == [base |-> "b", tag |-> t, dep |-> d]
mEntries == [id : {mId("", ""), mId("t", ""), mId("t", "cloud"), mId("cloud", "")}, says : {"chat", "nothing", "speech"}]
mLists == {<<>>} \cup {<<e>> : e \in mEntries}
          \cup {s \in [1..2 -> mEntries] : s[1].id # s[2].id /\ s[1].says = "chat" /\ s[2].id.tag = "t"}
mCatalogs == UNION {[K -> [times : {1, 2}, type : {"embed"}]] :
                       K \in {{}, {mId("", "")}, {mId("t", ""), mId("", "")}, {mId("t", "cloud"), mId("t", "")}, {mId("cloud", "")}}}
mOverridden == [embed |-> 0]
mExcluded == {mId("cloud", "")}

AccessInit ==
    /\ focus \in Focuses
    /\ AuthInit
    /\ WireInit /\ (focus # "wire" => conv = mPrompts)
    /\ RosterInit /\ (focus # "roster" => file = "two" /\ Len(endpoint["p"]) = 1)
    /\ DiscoveryInit /\ (focus # "discovery" => list = <<>> /\ DOMAIN catalog = {})
    /\ SecretInit /\ (focus # "secret" => host.seals /\ host.hands)

OnlyWire      == focus = "wire" /\ UNCHANGED <<focus, mrVars, mdVars, oaVars, ssVars>>
OnlyRoster    == focus = "roster" /\ UNCHANGED <<focus, pwVars, mdVars, oaVars, ssVars>>
OnlyDiscovery == focus = "discovery" /\ UNCHANGED <<focus, pwVars, mrVars, oaVars, ssVars>>
OnlyAuth      == focus = "auth" /\ UNCHANGED <<focus, pwVars, mrVars, mdVars, ssVars>>
OnlySecret    == focus = "secret" /\ UNCHANGED <<focus, pwVars, mrVars, mdVars, oaVars>>

AccessNext ==
    \/ OnlyWire /\ WireNext
    \/ OnlyRoster /\ RosterNext
    \/ OnlyDiscovery /\ DiscoveryNext
    \/ OnlyAuth /\ AuthNext
    \/ OnlySecret /\ SecretNext

\* RosterFairness and AuthFairness, of the component in focus.
AccessFairness ==
    /\ \A c \in Callers : SF_accessVars(OnlyAuth /\ resolve(c))
    /\ \A c \in Callers : WF_accessVars(OnlyAuth /\ CallStep(c))
    /\ WF_accessVars((OnlyAuth /\ LoginStep) \/ (OnlyRoster /\ (Tick \/ DiscoverNext \/ DiscoverEnds \/ Report)))

AccessSpec == AccessInit /\ [][AccessNext]_accessVars
AccessFairSpec == AccessSpec /\ AccessFairness

Unfinished ==
    \/ focus = "roster" /\ EditPending
    \/ focus = "auth" /\ TokenPending

\* Who asks is answered: every call for a token returns and every login ends, whoever holds the lock and however
\* the issuer fails, and every edit of the configuration is applied or refused aloud.
AccessIsAnswered == Unfinished ~> ~Unfinished

\* The providers: only a finished answer is committed, the preview is the answer, every result meets its call, the
\* stored turn is replayed without a loss, and a model's metadata is its own, from the best source.
ProvidersSafe ==
    /\ CommittedIsWhole /\ PreviewIsTheAnswer /\ CallsMeetTheirResults /\ NothingIsLostInReplay
    /\ BestSourceDecides /\ MetadataIsItsOwn /\ OutageUsesTheCache

\* The roster: it is the one of the applied configuration, what is selected is saved, and requests use the
\* credentials they were resolved to.
ModelsSafe == RosterIsTheAppliedConfig /\ LiveSelectionsAreSaved /\ RequestsUseTheirCredentials

\* Tokens and secrets: a token is refreshed once and served while it lives, a container reads the secret that was
\* set, a host that can seal succeeds, and provision brings back every secret.
CredentialsSafe ==
    /\ RefreshedOnce /\ ServedTokenIsLive
    /\ ContainersReadTheirSecret /\ CapableHostsSucceed /\ ProvisionRestores

\* What no step does: serve another model under a ref that was resolved before (completeModel), or give up a
\* login for anything but a rejection (refreshTokenRejected).
AccessSteps == [][RefsAreNotReused /\ LoginOutlivesTrouble]_accessVars
=============================================================================
