---------------------------- MODULE ModelDiscovery ----------------------------
(***************************************************************************)
(* One provider's discovery: its own model list (discovery.go of the       *)
(* providers), the models.dev metadata behind a cache file                 *)
(* (discovery/modelsdev.go), how the two are merged and filtered (modelcatalog/merge.go, with the    *)
(* ranked capabilities of capabilities.go), and the overrides the registry *)
(* puts on top. A model id "base:tag-cloud" is [base, tag, dep]; the name  *)
(* of a catalog entry is such an id too.                                   *)
(***************************************************************************)
EXTENDS Integers, Sequences, SequencesExt

CONSTANTS Lists,        \* the model lists the provider may have: sequences of [id, says]
          Catalogs,     \* models.dev contents: id -> [times, type]; times: spellings that differ in case
          Overridden,   \* capability_overrides: capability -> 0 or 1, of every model
          Excluded      \* the ids the exclude patterns match
Names == {"chat", "embed"}

VARIABLES list,         \* what the provider serves
          catalog,      \* what models.dev serves
          memory,       \* modelsDevClient.cached: [file, fresh]
          cache,        \* the cache file: [body, fresh]
          discovered,   \* the models of the last Discover
          outcome       \* how its fetch of models.dev went
mdVars == <<list, catalog, memory, cache, discovered, outcome>>

NoFile == "none"
Corrupt == "corrupt"
Good == "good"
DiscoveryInit ==
    /\ list \in Lists /\ catalog \in Catalogs
    /\ memory = [file |-> NoFile, fresh |-> FALSE] /\ cache = [body |-> NoFile, fresh |-> FALSE]
    /\ discovered = <<>> /\ outcome = "none"

-----------------------------------------------------------------------------
(* Capabilities: each is [on, from], from the source that set it *)

provenanceRank(source) == CASE source = "override" -> 3 [] source = "derived" -> 2 [] source = "declared" -> 1 [] OTHER -> 0
Set(c, name, on, from) ==
    IF provenanceRank(from) < provenanceRank(c[name].from) THEN c
    ELSE [c EXCEPT ![name] = [on |-> on, from |-> IF from = "" THEN @.from ELSE from]]
\* WithProvenance marks what a source affirmed; what it did not mention has no provenance.
WithProvenance(said, source) == [n \in Names |-> [on |-> n \in said, from |-> IF n \in said THEN source ELSE ""]]
\* An /api/show that fails leaves the model without any of them (defaultRosterCapabilities).
Derived(entry) == IF entry.says = "nothing" THEN WithProvenance({}, "") ELSE WithProvenance({entry.says}, "derived")

-----------------------------------------------------------------------------
(* Names *)

\* The OpenAI-compatible list leaves out the models tagged for something else than chat; Ollama's names all.
Listed(models) == LET chats(e) == e.says # "speech" IN SelectSeq(models, chats)

\* The exact id, then without the deployment suffix of its tag, then the bare base.
CandidateKeys(id) ==
    LET plain == [id EXCEPT !.dep = ""] IN
    <<id>> \o (IF id.tag # "" /\ plain # id THEN <<plain>> ELSE <<>>)
           \o (IF id.tag # "" THEN <<[plain EXCEPT !.tag = ""]>> ELSE <<>>)
\* The first key of an id that a set of entries has.
MatchIn(id, entries) ==
    LET has(k) == k \in entries
        hits == SelectSeq(CandidateKeys(id), has)
    IN IF hits = <<>> THEN {} ELSE {hits[1]}
\* Entries whose spellings differ only in case are ambiguous and match nothing.
Unambiguous == {k \in DOMAIN catalog : catalog[k].times = 1}

\* Enrich: the catalog entries matched by some model of the list.
Enrich(models) == UNION {MatchIn(models[k].id, Unambiguous) : k \in DOMAIN models}
modelFromModelsDev(k) == WithProvenance({catalog[k].type}, "declared")

-----------------------------------------------------------------------------
(* Merge, filters, overrides *)

\* fault: what models.dev says replaces what the provider said.
mergeReplaces(base, more) == more
mergeCapabilities(base, more) ==
    FoldLeft(LAMBDA c, n : IF more[n].from # "" \/ more[n].on THEN Set(c, n, more[n].on, more[n].from) ELSE c,
             base, SetToSeq(Names))
\* fault: models.dev is looked up by the bare base first.
MatchBare(id, entries) == IF [id EXCEPT !.tag = "", !.dep = ""] \in entries THEN {[id EXCEPT !.tag = "", !.dep = ""]} ELSE MatchIn(id, entries)
MergeMatch(id, entries) == MatchIn(id, entries)
Merge(models, entries) ==
    [k \in DOMAIN models |->
        LET own == MergeMatch(models[k].id, entries) IN
        IF own = {} THEN [id |-> models[k].id, caps |-> Derived(models[k]), entry |-> own]
        ELSE [id |-> models[k].id, entry |-> own,
              caps |-> mergeCapabilities(Derived(models[k]), modelFromModelsDev(CHOOSE e \in own : TRUE))]]
ApplyFilters(models) == LET kept(m) == m.id \notin Excluded IN SelectSeq(models, kept)
\* The registry's part: the overrides of the config, whichever model they name.
Override(models) ==
    [k \in DOMAIN models |->
        [models[k] EXCEPT !.caps =
            FoldLeft(LAMBDA c, n : Set(c, n, Overridden[n] = 1, "override"), @, SetToSeq(DOMAIN Overridden))]]

-----------------------------------------------------------------------------
(* loadFile: memory, then a fresh cache file, then the network, then the stale file *)

\* fault: without the network there is no catalog.
loadStaleNone == NoFile
loadStale == IF cache.body = Good THEN Good ELSE NoFile
Finish(file) ==
    discovered' = Override(ApplyFilters(Merge(Listed(list), IF file = Good THEN Enrich(Listed(list)) ELSE {})))
\* writeCache replaces the file in one rename; its failure is ignored.
writeCache(body) == cache' \in {[body |-> body, fresh |-> TRUE], cache}
readCache == cache.fresh /\ cache.body = Good
Load(fetched) ==
    IF memory.file = Good /\ memory.fresh
    THEN UNCHANGED <<memory, cache>> /\ outcome' = "memory" /\ Finish(Good)
    ELSE IF readCache
    THEN memory' = [file |-> Good, fresh |-> TRUE] /\ UNCHANGED cache /\ outcome' = "cache" /\ Finish(Good)
    ELSE /\ outcome' = fetched
         /\ CASE fetched = "ok" ->
                   /\ memory' = [file |-> Good, fresh |-> TRUE] /\ Finish(Good)
                   /\ writeCache(Good)
              \* The body is saved before it is parsed.
              [] fetched = "corrupt" ->
                   /\ UNCHANGED memory /\ Finish(NoFile)
                   /\ writeCache(Corrupt)
              [] fetched = "fails" ->
                   /\ memory' = IF loadStale = Good THEN [file |-> Good, fresh |-> TRUE] ELSE memory
                   /\ Finish(loadStale) /\ UNCHANGED cache

Discover == (\E fetched \in {"ok", "corrupt", "fails"} : Load(fetched)) /\ UNCHANGED <<list, catalog>>
\* The time to live passes.
Expire ==
    /\ memory.fresh \/ cache.fresh
    /\ memory' = [memory EXCEPT !.fresh = FALSE] /\ cache' = [cache EXCEPT !.fresh = FALSE]
    /\ UNCHANGED <<list, catalog, discovered, outcome>>
RestartDiscovery ==
    /\ memory.file # NoFile /\ memory' = [file |-> NoFile, fresh |-> FALSE]
    /\ UNCHANGED <<list, catalog, cache, discovered, outcome>>
DiscoveryNext == Discover \/ Expire \/ RestartDiscovery
DiscoverySpec == DiscoveryInit /\ [][DiscoveryNext]_mdVars

-----------------------------------------------------------------------------
(* Properties *)

\* What a model can do is decided by the best source that said something about it, in whichever order the
\* sources were applied (Capabilities.Set): the config, then the provider, then models.dev.
BestSourceDecides ==
    \A k \in DOMAIN discovered : \A n \in Names :
        LET said == {e.says : e \in {x \in Range(list) : x.id = discovered[k].id}}
            declared == {catalog[e].type : e \in discovered[k].entry}
        IN discovered[k].caps[n].on = CASE n \in DOMAIN Overridden -> Overridden[n] = 1
                                    [] n \notin DOMAIN Overridden /\ n \in said -> TRUE
                                    [] OTHER -> n \in declared
\* The two lookups agree: Merge gives a model the metadata of the entry Enrich matched for it, the most specific
\* unambiguous one, although Merge looks among the entries matched for all models.
MetadataIsItsOwn ==
    \A k \in DOMAIN discovered : outcome \in {"memory", "cache", "ok"} => discovered[k].entry = MatchIn(discovered[k].id, Unambiguous)
\* An outage of models.dev costs nothing once its catalog was saved (loadFile falls back to the stale file).
OutageUsesTheCache ==
    outcome = "fails" /\ cache.body = Good => \A k \in DOMAIN discovered : discovered[k].entry = MatchIn(discovered[k].id, Unambiguous)
=============================================================================
