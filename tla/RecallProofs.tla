----------------------------- MODULE RecallProofs -----------------------------
(***************************************************************************)
(* Proofs about the memory: the turn store with its deliveries, bootstrap, *)
(* commands and indexers (HistoryStore), the context of a run              *)
(* (HistoryContext) and the embedding service (EmbedIndex), for every      *)
(* number of turns, documents, attempts, edits and faults.  HistInv,       *)
(* ContextInv, IndexInv and, with it, SettleInv are inductive; the         *)
(* composition moves one of them at a time.                                *)
(***************************************************************************)
EXTENDS MCRecall, FiniteSetTheorems, WellFoundedInduction, TLAPS

\* A nonempty set of naturals has a least element.
LEMMA LeastOf ==
    ASSUME NEW T, T \subseteq Nat, T # {}
    PROVE  \E x \in T : \A y \in T : x <= y
  <1>1. PICK x \in T : \A y \in T : ~(<<y, x>> \in OpToRel(<, Nat))
    BY NatLessThanWellFounded, WFMin
  <1>2. \A y \in T : ~(y < x)
    BY <1>1 DEF OpToRel
  <1> QED  BY <1>2

LEMMA ConcatHolds ==
    ASSUME NEW S, NEW a \in Seq(S), NEW b \in Seq(S)
    PROVE  ToSet(a) \subseteq ToSet(a \o b) /\ ToSet(b) \subseteq ToSet(a \o b)
  <1>1. \A k \in 1..Len(a) : k \in 1..Len(a \o b) /\ (a \o b)[k] = a[k]
    OBVIOUS
  <1>2. \A k \in 1..Len(b) : Len(a) + k \in 1..Len(a \o b) /\ (a \o b)[Len(a) + k] = b[k]
    OBVIOUS
  <1>3. DOMAIN a = 1..Len(a) /\ DOMAIN b = 1..Len(b) /\ DOMAIN (a \o b) = 1..Len(a \o b)
    OBVIOUS
  <1> QED  BY <1>1, <1>2, <1>3 DEF ToSet

\* FlattenSeq returns a sequence of what its parts hold, and all of it.  The recursive function in its definition exists: a first
\* place up to which it does not would have a predecessor up to which it does.
LEMMA FlattenIs ==
    ASSUME NEW S, NEW ss \in Seq(Seq(S))
    PROVE  /\ FlattenSeq(ss) \in Seq(S)
           /\ \A k \in 1..Len(ss) : ToSet(ss[k]) \subseteq ToSet(FlattenSeq(ss))
  <1> DEFINE L == Len(ss)
             E(f, i) == IF i = 1 THEN ss[i] ELSE f[i - 1] \o ss[i]
             Good(n) == \E f \in [1..n -> Seq(S)] : f = [i \in 1..n |-> E(f, i)]
             T == {n \in 0..L : ~Good(n)}
             flat == CHOOSE f : f = [i \in 1..L |-> E(f, i)]
  <1>0. L \in Nat /\ \A i \in 1..L : ss[i] \in Seq(S)
    OBVIOUS
  <1>a. \A a, b \in Seq(S) : a \o b \in Seq(S)
    OBVIOUS
  <1>b. \A f, i : (i = 1 => ss[i] \in Seq(S)) /\ (i # 1 => f[i - 1] \in Seq(S) /\ ss[i] \in Seq(S)) => E(f, i) \in Seq(S)
    BY <1>a
  <1>c. \A n \in 0..L : n \in Nat
    BY <1>0
  <1> HIDE DEF E
  <1>1. T = {}
    <2>1. SUFFICES ASSUME T # {}  PROVE FALSE
      OBVIOUS
    <2>2. PICK n \in T : \A y \in T : n <= y
      <3> HIDE DEF Good
      <3>1. T \subseteq Nat
        BY <1>c
      <3> QED  BY ONLY <3>1, <2>1, LeastOf
    <2>3. n \in 0..L /\ ~Good(n)
      BY <2>2
    <2>4. CASE n = 0
      <3> DEFINE g == [i \in 1..0 |-> <<>>]
      <3>1. g \in [1..0 -> Seq(S)]
        OBVIOUS
      <3>2. g = [i \in 1..0 |-> E(g, i)]
        OBVIOUS
      <3>3. Good(0)
        BY <3>1, <3>2
      <3> QED  BY <3>3, <2>3, <2>4
    <2>5. CASE n # 0
      <3>1. n - 1 \in 0..L /\ n \in 1..L /\ ~(n <= n - 1)
        BY <2>3, <2>5, <1>0
      <3>2. Good(n - 1)
        <4> HIDE DEF Good
        <4> QED  BY <3>1, <2>2
      <3>3. PICK f \in [1..(n - 1) -> Seq(S)] : f = [i \in 1..(n - 1) |-> E(f, i)]
        BY <3>2
      <3> DEFINE g == [i \in 1..n |-> IF i = n THEN E(f, n) ELSE f[i]]
      <3>4. ss[n] \in Seq(S) /\ (n # 1 => f[n - 1] \in Seq(S))
        BY <3>1, <3>3, <1>0
      <3>5. E(f, n) \in Seq(S)
        BY <3>4, <1>b
      <3>6. g \in [1..n -> Seq(S)]
        <4>1. \A i \in 1..n : i # n => i \in 1..(n - 1)
          BY <3>1
        <4>2. \A i \in 1..n : g[i] \in Seq(S)
          BY <4>1, <3>3, <3>5
        <4> QED  BY <4>2
      <3>7. ASSUME NEW i \in 1..n  PROVE g[i] = E(g, i)
        <4> USE DEF E
        <4>1. CASE i = n
          <5>1. n # 1 => g[n - 1] = f[n - 1]
            BY <3>1
          <5> QED  BY <5>1, <4>1, <3>1
        <4>2. CASE i # n
          <5>1. i \in 1..(n - 1) /\ g[i] = f[i]
            BY <4>2, <3>1
          <5>2. f[i] = E(f, i)
            BY <5>1, <3>3
          <5>3. i # 1 => g[i - 1] = f[i - 1]
            BY <5>1, <3>1
          <5> QED  BY <5>1, <5>2, <5>3
        <4> QED  BY <4>1, <4>2
      <3>8. g = [i \in 1..n |-> E(g, i)]
        BY <3>7
      <3>9. Good(n)
        BY <3>6, <3>8
      <3> QED  BY <3>9, <2>3
    <2> QED  BY <2>4, <2>5
  <1>2. Good(L)
    <2> HIDE DEF Good
    <2>1. L \in 0..L
      BY <1>0
    <2> QED  BY <2>1, <1>1
  <1>3. flat = [i \in 1..L |-> E(flat, i)]
    BY <1>2
  <1> HIDE DEF flat
  <1> DEFINE U == {n \in 1..L : ~(flat[n] \in Seq(S))}
  <1>4. U = {}
    <2>1. SUFFICES ASSUME U # {}  PROVE FALSE
      OBVIOUS
    <2>2. PICK n \in U : \A y \in U : n <= y
      <3>1. U \subseteq Nat
        BY <1>c, <1>0
      <3> QED  BY ONLY <3>1, <2>1, LeastOf
    <2>3. n \in 1..L /\ ~(flat[n] \in Seq(S))
      BY <2>2
    <2>4. flat[n] = E(flat, n)
      BY <1>3, <2>3
    <2>5. n # 1 => n - 1 \in 1..L /\ ~(n <= n - 1)
      BY <2>3, <1>0
    <2>7. n # 1 => flat[n - 1] \in Seq(S)
      BY <2>5, <2>2
    <2>6. ss[n] \in Seq(S)
      BY <2>3, <1>0
    <2> QED  BY <2>3, <2>4, <2>7, <2>6, <1>b
  <1>5. L # 0 => flat[L] \in Seq(S)
    BY <1>4, <1>0
  <1>6. FlattenSeq(ss) = IF L = 0 THEN ss ELSE flat[L]
    BY DEF FlattenSeq, flat, E
  <1>7. L = 0 => ss \in Seq(S)
    OBVIOUS
  <1> DEFINE V == {n \in 1..L : \E k \in 1..n : ~(ToSet(ss[k]) \subseteq ToSet(flat[n]))}
  <1>8. V = {}
    <2>1. SUFFICES ASSUME V # {}  PROVE FALSE
      OBVIOUS
    <2>2. PICK n \in V : \A y \in V : n <= y
      <3>1. V \subseteq Nat
        BY <1>c, <1>0
      <3> QED  BY ONLY <3>1, <2>1, LeastOf
    <2>3. n \in 1..L /\ \E k \in 1..n : ~(ToSet(ss[k]) \subseteq ToSet(flat[n]))
      BY <2>2
    <2>4. PICK k \in 1..n : ~(ToSet(ss[k]) \subseteq ToSet(flat[n]))
      BY <2>3
    <2>5. flat[n] = E(flat, n)
      BY <1>3, <2>3
    <2>6. n # 1 => n - 1 \in 1..L /\ ~(n <= n - 1) /\ (k = n \/ k \in 1..(n - 1))
      BY <2>3, <2>4, <1>0
    <2>7. n # 1 => \A j \in 1..(n - 1) : ToSet(ss[j]) \subseteq ToSet(flat[n - 1])
      BY <2>6, <2>2
    <2>8. ss[n] \in Seq(S) /\ (n # 1 => flat[n - 1] \in Seq(S)) /\ (n = 1 => k = n)
      <3>1. ss[n] \in Seq(S)
        BY <2>3, <1>0
      <3>2. n = 1 => k = n
        BY ONLY <2>4
      <3>3. \A j \in 1..L : flat[j] \in Seq(S)
        BY <1>4
      <3> QED  BY <3>1, <3>2, <3>3, <2>6
    <2>9. \A a, b \in Seq(S) : ToSet(a) \subseteq ToSet(a \o b) /\ ToSet(b) \subseteq ToSet(a \o b)
      BY ConcatHolds
    <2>10. CASE n = 1
      BY <2>10, <2>4, <2>5, <2>8 DEF E
    <2>11. CASE n # 1
      <3>1. flat[n] = flat[n - 1] \o ss[n]
        BY <2>11, <2>5 DEF E
      <3>2. ToSet(flat[n - 1]) \subseteq ToSet(flat[n]) /\ ToSet(ss[n]) \subseteq ToSet(flat[n])
        BY <3>1, <2>8, <2>9, <2>11
      <3> QED  BY <3>2, <2>4, <2>6, <2>7, <2>11
    <2> QED  BY <2>10, <2>11
  <1>9. L # 0 => \A k \in 1..L : ToSet(ss[k]) \subseteq ToSet(flat[L])
    <2>1. L # 0 => L \in 1..L
      BY <1>0
    <2> HIDE DEF L
    <2> QED  BY <2>1, <1>8
  <1> QED  BY <1>0, <1>5, <1>6, <1>7, <1>9

(* The turn store. *)
TurnRecords ==
    [st : {"none", "reserved", "done"}, kind : {"none", "user", "delivery", "import"}, chunk : BOOLEAN, cemb : BOOLEAN,
     dig : Nat, demb : Nat, wait : {"no", "delayed"}]
Boots == [row : BOOLEAN, ids : SUBSET Ids, prepared : Nat]
Units == [id : Ids, dig : Nat]
IndexerPcs == {"idle", "chunk", "digest", "embed"}
Batches == [pc : IndexerPcs, units : SUBSET Units, did : BOOLEAN, err : BOOLEAN]
Commands ==
    [op : {"none", "import", "backfill"}, snap : SUBSET Ids, todo : SUBSET Ids,
     pc : {"none", "turns", "record", "batches", "prepare"}]

HistTyped ==
    /\ turns \in [Ids -> TurnRecords] /\ seq \in Nat /\ boot \in Boots /\ source \in SUBSET Ids /\ ver \in Nat \ {0}
    /\ up \in BOOLEAN /\ run \in {0} \cup Ids /\ idx \in [Indexers -> Batches] /\ lock \in {"none"} \cup Indexers
    /\ cmd \in Commands /\ rec \in [Writers -> {"idle", "writing", "recorded"}]

\* What a stored turn t may hold when the digests are of release v: an incomplete one is a user's, nothing is newer
\* than the release, and a vector is the one of the digest beside it.
TurnOK(t, v) ==
    /\ t.st # "done" => t.kind \in {"none", "user"}
    /\ t.dig <= v /\ t.demb \in {0, t.dig}

\* The identity is past every turn that is not imported.
Numbered == \A i \in Ids : turns[i].st # "none" /\ turns[i].kind # "import" => i <= seq

OneDelivery ==
    /\ \A i, j \in FindDelivery : i = j
    /\ (\E w \in Writers : rec[w] = "recorded") => FindDelivery # {}

\* What the bootstrap row says of the import.
BootOK ==
    /\ boot.prepared <= ver
    /\ \A i \in boot.ids : turns[i].st = "done" /\ i <= seq
    /\ boot.prepared = ver => \A i \in boot.ids : Indexed(i)
    /\ up => boot.prepared = ver

\* An import runs while the agent is down; before it is recorded all its turns are there.
CommandOK ==
    /\ cmd.op = "import" => ~up /\ cmd.snap # {}
    /\ cmd.op = "import" /\ cmd.pc = "record" => \A i \in cmd.snap : turns[i].st = "done" /\ i <= seq

\* An indexer within a batch holds the lock and is alive.
LocksOK ==
    \A p \in Indexers : idx[p].pc # "idle" => lock = p /\ (p = "agent" => up) /\ (p = "cli" => cmd.op = "backfill" /\ cmd.pc = "batches")

\* What an indexer read for Embed is still so.
UnitsOK ==
    \A p \in Indexers : idx[p].pc = "embed" =>
        \A u \in idx[p].units : turns[u.id].st = "done" /\ (u.dig # 0 => turns[u.id].dig = u.dig)

HistInv ==
    /\ HistTyped /\ (\A i \in Ids : TurnOK(turns[i], ver))
    /\ Numbered /\ OneDelivery /\ BootOK /\ CommandOK /\ LocksOK /\ UnitsOK

\* A step never takes back a complete turn or what was derived from it.
TurnKept(t, u) ==
    t.st = "done" =>
      /\ u.st = "done" /\ u.kind = t.kind /\ (t.chunk => u.chunk) /\ (t.cemb => u.cemb)
      /\ \/ u.dig = t.dig /\ (t.demb # 0 => u.demb = t.demb)
         \/ u.dig = ver /\ t.dig < ver

\* Only an indexer in its Digest replaces digests.
DigestsStay ==
    \/ \E p \in Indexers : idx[p].pc = "digest" /\ Digest(p)
    \/ \A i \in Ids : turns[i].st = "done" => turns'[i].dig = turns[i].dig

\* What a step does to the turns.
TurnStep ==
    /\ turns' \in [Ids -> TurnRecords] /\ seq' \in Nat /\ seq <= seq'
    /\ \A i \in Ids : TurnOK(turns'[i], ver) /\ TurnKept(turns[i], turns'[i])
    /\ \A i \in Ids : turns'[i].st # "none" /\ turns'[i].kind # "import"
                        => (turns[i].st # "none" /\ turns[i].kind # "import") \/ i <= seq'
    /\ FindDelivery' = FindDelivery \/ (FindDelivery = {} /\ \E k \in Ids : FindDelivery' = {k})
    /\ DigestsStay

LEMMA FreshTurns ==
    ASSUME NEW kind \in {"user", "delivery", "import"}, NEW st \in {"reserved", "done"}
    PROVE  /\ [NoTurn EXCEPT !.st = st, !.kind = kind] \in TurnRecords
           /\ [NoTurn EXCEPT !.st = st, !.kind = kind].st = st
           /\ [NoTurn EXCEPT !.st = st, !.kind = kind].kind = kind
           /\ [NoTurn EXCEPT !.st = st, !.kind = kind].dig = 0
           /\ [NoTurn EXCEPT !.st = st, !.kind = kind].demb = 0
  BY DEF NoTurn, TurnRecords

LEMMA TurnsStay == HistInv /\ UNCHANGED <<turns, seq>> => TurnStep
  <1> SUFFICES ASSUME HistInv, UNCHANGED <<turns, seq>>  PROVE TurnStep
    OBVIOUS
  <1>1. \A i \in Ids : TurnOK(turns'[i], ver) /\ TurnKept(turns[i], turns'[i])
    BY DEF HistInv, TurnKept
  <1>2. FindDelivery' = FindDelivery
    BY DEF FindDelivery, Done
  <1>3. DigestsStay
    BY DEF DigestsStay
  <1> QED  BY <1>1, <1>2, <1>3 DEF TurnStep, HistInv, HistTyped

\* One turn that was not complete is written.
LEMMA TurnWritten ==
    ASSUME HistInv, NEW k \in Ids, turns[k].st # "done", NEW t \in TurnRecords, TurnOK(t, ver),
           turns' = [turns EXCEPT ![k] = t], seq' \in Nat, seq <= seq',
           t.kind = "import" \/ k <= seq',
           t.st # "done" \/ t.kind # "delivery" \/ FindDelivery = {}
    PROVE  TurnStep
  <1>1. turns' \in [Ids -> TurnRecords] /\ turns'[k] = t /\ \A i \in Ids : i # k => turns'[i] = turns[i]
    BY DEF HistInv, HistTyped
  <1>2. \A i \in Ids : TurnOK(turns'[i], ver) /\ TurnKept(turns[i], turns'[i])
    BY <1>1 DEF HistInv, TurnKept
  <1>3. \A i \in Ids : turns'[i].st # "none" /\ turns'[i].kind # "import"
                        => (turns[i].st # "none" /\ turns[i].kind # "import") \/ i <= seq'
    BY <1>1
  <1>4. \A i \in Ids : i \in FindDelivery' <=> turns'[i].st = "done" /\ turns'[i].kind = "delivery"
    BY DEF FindDelivery, Done
  <1>5. \A i \in Ids : i \in FindDelivery <=> turns[i].st = "done" /\ turns[i].kind = "delivery"
    BY DEF FindDelivery, Done
  <1>6. FindDelivery \subseteq Ids /\ FindDelivery' \subseteq Ids /\ ~(k \in FindDelivery)
    BY DEF FindDelivery, Done
  <1>9. DigestsStay
    BY <1>1 DEF DigestsStay
  <1>7. CASE t.st = "done" /\ t.kind = "delivery"
    <2>1. FindDelivery = {} /\ FindDelivery' = {k}
      BY <1>7, <1>1, <1>4, <1>5, <1>6
    <2> QED  BY <2>1, <1>1, <1>2, <1>3, <1>9 DEF TurnStep
  <1>8. CASE ~(t.st = "done" /\ t.kind = "delivery")
    <2>1. FindDelivery' = FindDelivery
      BY <1>8, <1>1, <1>4, <1>5, <1>6
    <2> QED  BY <2>1, <1>1, <1>2, <1>3, <1>9 DEF TurnStep
  <1> QED  BY <1>7, <1>8

LEMMA ReserveStep ==
    ASSUME HistInv, NEW kind \in {"user", "delivery"}, NEW st \in {"reserved", "done"}, Reserve(kind, st),
           st = "reserved" => kind = "user", kind = "delivery" => FindDelivery = {}
    PROVE  TurnStep
  <1>1. seq + 1 \in Ids /\ seq' \in Nat /\ seq <= seq' /\ seq' = seq + 1
    BY HistoryAssumption DEF HistInv, HistTyped, Reserve, Ids
  <1>2. CASE turns[seq + 1].st = "none"
    <2> DEFINE t == [NoTurn EXCEPT !.st = st, !.kind = kind]
    <2>1. t \in TurnRecords /\ t.st = st /\ t.kind = kind /\ t.dig = 0 /\ t.demb = 0
      BY FreshTurns
    <2>2. turns' = [turns EXCEPT ![seq + 1] = t]
      BY <1>2 DEF Reserve
    <2> HIDE DEF t
    <2>3. TurnOK(t, ver)
      BY <2>1 DEF TurnOK, HistInv, HistTyped
    <2>4. turns[seq + 1].st # "done" /\ seq + 1 <= seq'
      BY <1>1, <1>2 DEF HistInv, HistTyped
    <2>5. t.st # "done" \/ t.kind # "delivery" \/ FindDelivery = {}
      BY <2>1
    <2> QED  BY <1>1, <2>1, <2>2, <2>3, <2>4, <2>5, TurnWritten
  <1>3. CASE turns[seq + 1].st # "none"
    <2>1. turns' = turns
      BY <1>3 DEF Reserve
    <2>2. \A i \in Ids : TurnOK(turns'[i], ver) /\ TurnKept(turns[i], turns'[i])
      BY <2>1 DEF HistInv, TurnKept
    <2>3. FindDelivery' = FindDelivery
      BY <2>1 DEF FindDelivery, Done
    <2>4. DigestsStay
      BY <2>1 DEF DigestsStay
    <2> QED  BY <2>1, <2>2, <2>3, <2>4, <1>1 DEF TurnStep, HistInv, HistTyped
  <1> QED  BY <1>2, <1>3

LEMMA AppendStep == HistInv /\ AppendTurnAtSeq => TurnStep
  <1> SUFFICES ASSUME HistInv, AppendTurnAtSeq  PROVE TurnStep
    OBVIOUS
  <1> DEFINE t == Complete("user")
  <1>1. t \in TurnRecords /\ t.st = "done" /\ t.kind = "user" /\ t.dig = 0 /\ t.demb = 0
    BY FreshTurns DEF Complete
  <1>2. run \in Ids /\ turns[run].st = "reserved" /\ turns' = [turns EXCEPT ![run] = t] /\ seq' = seq /\ seq \in Nat
    BY DEF AppendTurnAtSeq, HistInv, HistTyped
  <1> HIDE DEF t
  <1>3. TurnOK(t, ver)
    BY <1>1 DEF TurnOK, HistInv, HistTyped
  <1>4. turns[run].kind # "import"
    BY <1>2 DEF HistInv, TurnOK
  <1>5. run <= seq
    BY <1>2, <1>4 DEF HistInv, Numbered
  <1>6. turns[run].st # "done" /\ seq' \in Nat /\ seq <= seq' /\ run <= seq'
    BY <1>2, <1>5
  <1>7. t.st # "done" \/ t.kind # "delivery" \/ FindDelivery = {}
    BY <1>1
  <1> QED  BY <1>1, <1>2, <1>3, <1>6, <1>7, TurnWritten

LEMMA ImportStep == HistInv /\ ImportTurn => TurnStep
  <1> SUFFICES ASSUME HistInv, ImportTurn  PROVE TurnStep
    OBVIOUS
  <1> DEFINE t == Complete("import")
  <1>1. t \in TurnRecords /\ t.st = "done" /\ t.kind = "import" /\ t.dig = 0 /\ t.demb = 0
    BY FreshTurns DEF Complete
  <1>2. PICK i : turns' = (IF turns[i].st = "none" THEN [turns EXCEPT ![i] = t] ELSE turns) /\ seq' = seq
    BY DEF ImportTurn
  <1> HIDE DEF t
  <1>3. CASE i \in Ids /\ turns[i].st = "none"
    <2>1. TurnOK(t, ver)
      BY <1>1 DEF TurnOK, HistInv, HistTyped
    <2>2. turns[i].st # "done" /\ seq' \in Nat /\ seq <= seq' /\ turns' = [turns EXCEPT ![i] = t]
      BY <1>2, <1>3 DEF HistInv, HistTyped
    <2>3. t.kind = "import" /\ (t.st # "done" \/ t.kind # "delivery" \/ FindDelivery = {})
      BY <1>1
    <2> QED  BY <1>1, <1>3, <2>1, <2>2, <2>3, TurnWritten
  <1>4. CASE ~(i \in Ids /\ turns[i].st = "none")
    <2>1. turns' = turns
      BY <1>2, <1>4 DEF HistInv, HistTyped
    <2> QED  BY <2>1, <1>2, TurnsStay
  <1> QED  BY <1>3, <1>4

\* A step of an indexer derives from complete turns and leaves what they are.
LEMMA Derived ==
    ASSUME HistInv, turns' \in [Ids -> TurnRecords], seq' = seq,
           \A i \in Ids : turns'[i].st = turns[i].st /\ turns'[i].kind = turns[i].kind,
           \A i \in Ids : TurnOK(turns'[i], ver) /\ TurnKept(turns[i], turns'[i]),
           DigestsStay
    PROVE  TurnStep
  <1>1. \A i \in Ids : i \in FindDelivery' <=> i \in FindDelivery
    BY DEF FindDelivery, Done
  <1>2. FindDelivery' = FindDelivery
    BY <1>1 DEF FindDelivery, Done
  <1> QED  BY <1>2 DEF TurnStep, HistInv, HistTyped

LEMMA ChunkStep ==
    ASSUME HistInv, NEW p \in Indexers, Chunk(p)
    PROVE  TurnStep
  <1> DEFINE N(i) == [turns[i] EXCEPT !.chunk = @ \/ i \in Done]
  <1>1. turns' = [i \in Ids |-> N(i)] /\ seq' = seq
    BY DEF Chunk
  <1>2. ASSUME NEW i \in Ids
        PROVE  /\ N(i) \in TurnRecords /\ N(i).st = turns[i].st /\ N(i).kind = turns[i].kind
               /\ TurnOK(N(i), ver) /\ TurnKept(turns[i], N(i)) /\ N(i).dig = turns[i].dig
    <2>1. turns[i] \in TurnRecords /\ TurnOK(turns[i], ver)
      BY DEF HistInv, HistTyped
    <2>2. (turns[i].chunk \/ i \in Done) \in BOOLEAN
      OBVIOUS
    <2>3. PICK c \in BOOLEAN : N(i) = [turns[i] EXCEPT !.chunk = c] /\ (turns[i].chunk => c)
      BY <2>2, Zenon
    <2> HIDE DEF N
    <2>4. /\ N(i) \in TurnRecords /\ N(i).st = turns[i].st /\ N(i).kind = turns[i].kind /\ N(i).dig = turns[i].dig
          /\ N(i).demb = turns[i].demb /\ N(i).chunk = c /\ N(i).cemb = turns[i].cemb
      BY <2>1, <2>3 DEF TurnRecords
    <2>5. TurnOK(N(i), ver)
      BY <2>1, <2>4 DEF TurnOK
    <2>6. TurnKept(turns[i], N(i))
      BY <2>4, <2>3, Zenon DEF TurnKept
    <2> QED  BY <2>4, <2>5, <2>6
  <1> HIDE DEF N
  <1>3. DigestsStay
    BY <1>1, <1>2 DEF DigestsStay
  <1> QED  BY <1>1, <1>2, <1>3, Derived

LEMMA AttemptStep ==
    ASSUME HistInv, NEW k \in Ids, NextAttempt(k)
    PROVE  TurnStep
  <1>1. turns' = [turns EXCEPT ![k].wait = "no"] /\ seq' = seq
    BY DEF NextAttempt
  <1>2. ASSUME NEW i \in Ids
        PROVE  /\ turns'[i] \in TurnRecords /\ turns'[i].st = turns[i].st /\ turns'[i].kind = turns[i].kind
               /\ turns'[i].dig = turns[i].dig /\ turns'[i].demb = turns[i].demb /\ turns'[i].chunk = turns[i].chunk
               /\ turns'[i].cemb = turns[i].cemb
    <2>1. turns[i] \in TurnRecords /\ turns'[i] = (IF i = k THEN [turns[i] EXCEPT !.wait = "no"] ELSE turns[i])
      BY <1>1 DEF HistInv, HistTyped
    <2> QED  BY <2>1 DEF TurnRecords
  <1>3. \A i \in Ids : TurnOK(turns'[i], ver) /\ TurnKept(turns[i], turns'[i])
    BY <1>2 DEF HistInv, TurnOK, TurnKept
  <1>4. turns' \in [Ids -> TurnRecords]
    BY <1>1, <1>2 DEF HistInv, HistTyped
  <1>5. DigestsStay
    BY <1>2 DEF DigestsStay
  <1> QED  BY <1>1, <1>2, <1>3, <1>4, <1>5, Derived

Saved(t, v) == [t EXCEPT !.dig = v, !.demb = 0, !.wait = "no"]
LEMMA SavedIs ==
    ASSUME NEW t \in TurnRecords, NEW v \in Nat
    PROVE  /\ Saved(t, v) \in TurnRecords /\ Saved(t, v).dig = v /\ Saved(t, v).demb = 0
           /\ Saved(t, v).st = t.st /\ Saved(t, v).kind = t.kind
           /\ Saved(t, v).chunk = t.chunk /\ Saved(t, v).cemb = t.cemb
  BY DEF Saved, TurnRecords

LEMMA DigestStep ==
    ASSUME HistInv, NEW p \in Indexers, Digest(p)
    PROVE  TurnStep
  <1> DEFINE N(failed, i) == IF i \notin PendingDigests THEN turns[i]
                             ELSE IF i \in failed THEN [turns[i] EXCEPT !.wait = DigestDelay] ELSE saveDigest(turns[i])
  <1>1. PICK failed \in SUBSET PendingDigests : turns' = [i \in Ids |-> N(failed, i)] /\ seq' = seq
    BY DEF Digest
  <1>2. ASSUME NEW i \in Ids
        PROVE  /\ N(failed, i) \in TurnRecords /\ N(failed, i).st = turns[i].st /\ N(failed, i).kind = turns[i].kind
               /\ TurnOK(N(failed, i), ver) /\ TurnKept(turns[i], N(failed, i))
    <2>1. turns[i] \in TurnRecords /\ TurnOK(turns[i], ver) /\ ver \in Nat
      BY DEF HistInv, HistTyped
    <2>2. CASE i \notin PendingDigests
      BY <2>1, <2>2 DEF TurnKept
    <2>3. CASE i \in PendingDigests /\ i \in failed
      <3>1. N(failed, i) = [turns[i] EXCEPT !.wait = "delayed"]
        BY <2>3 DEF DigestDelay
      <3> HIDE DEF N
      <3> QED  BY <2>1, <3>1 DEF TurnRecords, TurnOK, TurnKept
    <2>4. CASE i \in PendingDigests /\ i \notin failed
      <3>1. N(failed, i) = Saved(turns[i], ver) /\ turns[i].st = "done" /\ turns[i].dig # ver
        BY <2>4 DEF Saved, saveDigest, PendingDigests, Done
      <3> HIDE DEF N
      <3>2. /\ N(failed, i) \in TurnRecords /\ N(failed, i).dig = ver /\ N(failed, i).demb = 0
            /\ N(failed, i).st = turns[i].st /\ N(failed, i).kind = turns[i].kind
            /\ N(failed, i).chunk = turns[i].chunk /\ N(failed, i).cemb = turns[i].cemb
        BY <2>1, <3>1, SavedIs
      <3>3. turns[i].dig < ver
        BY <2>1, <3>1 DEF TurnOK, TurnRecords
      <3> QED  BY <2>1, <3>2, <3>3, <3>1 DEF TurnOK, TurnKept
    <2> QED  BY <2>2, <2>3, <2>4
  <1> HIDE DEF N
  <1>3. idx[p].pc = "digest"
    BY DEF Digest
  <1>4. DigestsStay
    BY <1>3 DEF DigestsStay
  <1> QED  BY <1>1, <1>2, <1>4, Derived

LEMMA EmbedStepTurns ==
    ASSUME HistInv, NEW p \in Indexers, Embed(p)
    PROVE  TurnStep
  <1> DEFINE Has(i) == turns[i].demb = 0 /\ turns[i].dig # 0 /\ \E u \in idx[p].units : u.id = i /\ u.dig # 0
             D(i) == IF Has(i) THEN (CHOOSE u \in idx[p].units : u.id = i /\ u.dig # 0).dig ELSE turns[i].demb
             N(i) == [turns[i] EXCEPT !.demb = D(i), !.cemb = @ \/ [id |-> i, dig |-> 0] \in idx[p].units]
  <1>1. turns' = [i \in Ids |-> N(i)] /\ seq' = seq
    BY DEF Embed
  <1>2. ASSUME NEW i \in Ids
        PROVE  /\ N(i) \in TurnRecords /\ N(i).st = turns[i].st /\ N(i).kind = turns[i].kind
               /\ TurnOK(N(i), ver) /\ TurnKept(turns[i], N(i)) /\ N(i).dig = turns[i].dig
    <2>1. turns[i] \in TurnRecords /\ TurnOK(turns[i], ver)
      BY DEF HistInv, HistTyped
    <2>2. D(i) = (IF Has(i) THEN turns[i].dig ELSE turns[i].demb)
      <3>1. CASE Has(i)
        <4>1. PICK u \in idx[p].units : u = (CHOOSE v \in idx[p].units : v.id = i /\ v.dig # 0) /\ u.id = i /\ u.dig # 0
          BY <3>1
        <4>2. idx[p].pc = "embed"
          BY DEF Embed
        <4>3. turns[i].dig = u.dig
          BY <4>1, <4>2 DEF HistInv, UnitsOK
        <4> QED  BY <3>1, <4>1, <4>3
      <3> QED  BY <3>1
    <2>3. (turns[i].cemb \/ [id |-> i, dig |-> 0] \in idx[p].units) \in BOOLEAN
      OBVIOUS
    <2>4. PICK c \in BOOLEAN : N(i) = [turns[i] EXCEPT !.demb = D(i), !.cemb = c] /\ (turns[i].cemb => c)
      BY <2>3, Zenon
    <2>5. Has(i) => turns[i].demb = 0
      OBVIOUS
    <2> HIDE DEF N, D, Has
    <2>6. PICK d \in Nat : d = D(i) /\ (d = turns[i].demb \/ (turns[i].demb = 0 /\ d = turns[i].dig))
      BY <2>1, <2>2, <2>5 DEF TurnRecords
    <2>7. N(i) = [turns[i] EXCEPT !.demb = d, !.cemb = c]
      BY <2>4, <2>6
    <2>8. /\ N(i) \in TurnRecords /\ N(i).st = turns[i].st /\ N(i).kind = turns[i].kind /\ N(i).dig = turns[i].dig
          /\ N(i).demb = d /\ N(i).cemb = c /\ N(i).chunk = turns[i].chunk
      BY <2>1, <2>7 DEF TurnRecords
    <2>9. TurnOK(N(i), ver)
      BY <2>1, <2>6, <2>8 DEF TurnOK
    <2>10. TurnKept(turns[i], N(i))
      BY <2>6, <2>8, <2>4, Zenon DEF TurnKept
    <2> QED  BY <2>8, <2>9, <2>10
  <1> HIDE DEF N, D, Has
  <1>3. DigestsStay
    BY <1>1, <1>2 DEF DigestsStay
  <1> QED  BY <1>1, <1>2, <1>3, Derived

\* The largest of a bounded set of naturals.
LEMMA MaxIs ==
    ASSUME NEW S, S \subseteq Nat, S # {}, NEW n \in Nat, \A x \in S : x <= n
    PROVE  Max(S) \in S /\ \A x \in S : x <= Max(S)
  <1> DEFINE T == {n - x : x \in S}
  <1>0. \A x \in S : n - x \in Nat
    OBVIOUS
  <1>1. T \subseteq Nat /\ T # {}
    BY <1>0
  <1>2. PICK t \in T : \A y \in T : t <= y
    BY <1>1, LeastOf
  <1>3. PICK x \in S : t = n - x
    BY <1>2
  <1>4. \A y \in S : n - x <= n - y
    BY <1>2, <1>3
  <1>5. ASSUME NEW y \in S  PROVE y <= x
    <2>1. n - x <= n - y /\ x \in Nat /\ y \in Nat
      BY <1>4
    <2> QED  BY ONLY <2>1, n \in Nat
  <1>6. \A y \in S : x >= y
    BY <1>5
  <1> QED  BY <1>6 DEF Max

LEMMA AdvanceIs ==
    ASSUME HistInv, ImportAdvance
    PROVE  /\ seq' \in Nat /\ seq <= seq'
           /\ cmd'.pc = "record" => \A i \in cmd.snap : turns[i].st = "done" /\ i <= seq'
           /\ cmd' = NoCmd \/ cmd' = [cmd EXCEPT !.pc = "record"]
  <1>0. seq \in Nat /\ MaxTurns \in Nat /\ cmd \in Commands /\ NoCmd.pc # "record"
    BY HistoryAssumption DEF HistInv, HistTyped, NoCmd
  <1>1. CASE Done = cmd.snap /\ source = cmd.snap
    <2> DEFINE head == Max(cmd.snap)
               S == {seq, head} \cup {i \in Ids : turns[i].st # "none"}
               n == IF seq > MaxTurns THEN seq ELSE MaxTurns
    <2>1. seq' = Max(S) /\ cmd' = [cmd EXCEPT !.pc = "record"]
      BY <1>1 DEF ImportAdvance, AdvanceTurnIdentity
    <2>2. cmd.snap \subseteq 1..MaxTurns
      BY <1>0 DEF Commands, Ids
    <2>3. CASE cmd.snap # {}
      <3>1. head \in cmd.snap
        <4>1. cmd.snap \subseteq Nat /\ \A x \in cmd.snap : x <= MaxTurns
          BY <1>0, <2>2
        <4> QED  BY <4>1, <2>3, <1>0, MaxIs
      <3> HIDE DEF head
      <3>2. S \subseteq Nat /\ n \in Nat /\ (\A x \in S : x <= n) /\ S # {} /\ seq \in S
        BY <1>0, <2>2, <3>1 DEF Ids
      <3> HIDE DEF n, S
      <3>3. Max(S) \in S /\ \A x \in S : x <= Max(S)
        BY <3>2, MaxIs
      <3>4. \A i \in cmd.snap : turns[i].st = "done" /\ i \in S
        BY <1>1, <2>2 DEF Done, Ids, S
      <3> QED  BY <2>1, <3>2, <3>3, <3>4
    <2>4. CASE cmd.snap = {}
      BY <2>4 DEF HistInv, CommandOK, ImportAdvance
    <2> QED  BY <2>3, <2>4
  <1>2. CASE ~(Done = cmd.snap /\ source = cmd.snap)
    BY <1>2, <1>0 DEF ImportAdvance
  <1> QED  BY <1>1, <1>2

LEMMA TurnsStep == HistInv /\ HistNext => TurnStep
  <1> SUFFICES ASSUME HistInv, HistNext  PROVE TurnStep
    OBVIOUS
  <1>1. CASE ReserveTurnSeq
    <2>1. Reserve("user", "reserved")
      BY <1>1 DEF ReserveTurnSeq
    <2> QED  BY <2>1, ReserveStep
  <1>2. CASE AppendTurnAtSeq
    BY <1>2, AppendStep
  <1>3. CASE ImportTurn
    BY <1>3, ImportStep
  <1>4. CASE \E w \in Writers : WriteDelivery(w)
    <2>1. PICK w \in Writers : WriteDelivery(w)
      BY <1>4
    <2>2. CASE KeyTaken
      <3>1. turns' = turns /\ seq' = seq + 1
        BY <2>1, <2>2 DEF WriteDelivery
      <3>2. \A i \in Ids : TurnOK(turns'[i], ver) /\ TurnKept(turns[i], turns'[i])
        BY <3>1 DEF HistInv, TurnKept
      <3>3. FindDelivery' = FindDelivery
        BY <3>1 DEF FindDelivery, Done
      <3>4. DigestsStay
        BY <3>1 DEF DigestsStay
      <3> QED  BY <3>1, <3>2, <3>3, <3>4 DEF TurnStep, HistInv, HistTyped
    <2>3. CASE ~KeyTaken
      <3>1. Reserve("delivery", "done") /\ FindDelivery = {}
        BY <2>1, <2>3 DEF WriteDelivery, KeyTaken
      <3> QED  BY <3>1, ReserveStep
    <2> QED  BY <2>2, <2>3
  <1>5. CASE \E w \in Writers : CommitLost(w)
    <2>1. Reserve("delivery", "done") /\ FindDelivery = {}
      BY <1>5 DEF CommitLost, KeyTaken
    <2> QED  BY <2>1, ReserveStep
  <1>6. CASE \E p \in Indexers : Chunk(p) \/ Digest(p) \/ Embed(p)
    BY <1>6, ChunkStep, DigestStep, EmbedStepTurns
  <1>7. CASE \E i \in Ids : NextAttempt(i)
    BY <1>7, AttemptStep
  <1>8. CASE ImportAdvance
    <2>1. turns' = turns
      BY <1>8 DEF ImportAdvance
    <2>2. seq' \in Nat /\ seq <= seq'
      BY <1>8, AdvanceIs
    <2>3. \A i \in Ids : TurnOK(turns'[i], ver) /\ TurnKept(turns[i], turns'[i])
      BY <2>1 DEF HistInv, TurnKept
    <2>4. FindDelivery' = FindDelivery
      BY <2>1 DEF FindDelivery, Done
    <2>5. DigestsStay
      BY <2>1 DEF DigestsStay
    <2> QED  BY <2>1, <2>2, <2>3, <2>4, <2>5 DEF TurnStep, HistInv, HistTyped
  <1>9. CASE UNCHANGED <<turns, seq>>
    BY <1>9, TurnsStay
  <1>10. HistNext => \/ UNCHANGED <<turns, seq>> \/ ReserveTurnSeq \/ AppendTurnAtSeq \/ ImportTurn \/ ImportAdvance
                     \/ (\E w \in Writers : WriteDelivery(w)) \/ (\E w \in Writers : CommitLost(w))
                     \/ (\E p \in Indexers : Chunk(p) \/ Digest(p) \/ Embed(p)) \/ (\E i \in Ids : NextAttempt(i))
    BY DEF HistNext, IndexStep, RunFails, RecordDelivery, RunBatch, EmbedFails, Start, ImportRecord, PrepareCutover, CommandStops,
           AgentStarts, AgentStops, Upgrade, SourceGrows
  <1> QED  BY <1>1, <1>2, <1>3, <1>4, <1>5, <1>6, <1>7, <1>8, <1>9, <1>10

LEMMA NumberedStep == HistInv /\ HistNext => Numbered'
  <1> SUFFICES ASSUME HistInv, HistNext  PROVE Numbered'
    OBVIOUS
  <1>1. TurnStep
    BY TurnsStep
  <1>2. \A i \in Ids : i \in Nat /\ (turns[i].st # "none" /\ turns[i].kind # "import" => i <= seq)
    BY DEF HistInv, Numbered, Ids
  <1>3. seq \in Nat /\ seq' \in Nat /\ seq <= seq'
    BY <1>1 DEF TurnStep, HistInv, HistTyped
  <1> QED  BY <1>1, <1>2, <1>3 DEF TurnStep, Numbered

\* A recorder is told that the delivery is recorded only when it is.
LEMMA DeliveryStep == HistInv /\ HistNext => OneDelivery'
  <1> SUFFICES ASSUME HistInv, HistNext  PROVE OneDelivery'
    OBVIOUS
  <1>1. FindDelivery' = FindDelivery \/ (FindDelivery = {} /\ \E k \in Ids : FindDelivery' = {k})
    BY TurnsStep DEF TurnStep
  <1>2. \A i, j \in FindDelivery' : i = j
    BY <1>1 DEF HistInv, OneDelivery
  <1>3. (\E w \in Writers : rec[w] = "recorded") => FindDelivery' # {}
    BY <1>1 DEF HistInv, OneDelivery
  <1>4. CASE \E w \in Writers : RecordDelivery(w)
    <2>1. PICK w \in Writers : RecordDelivery(w)
      BY <1>4
    <2>2. rec' = [rec EXCEPT ![w] = IF FindDelivery # {} THEN "recorded" ELSE "writing"] /\ rec \in [Writers -> {"idle", "writing", "recorded"}]
      BY <2>1 DEF RecordDelivery, HistInv, HistTyped
    <2>3. (\E v \in Writers : rec'[v] = "recorded") => FindDelivery # {} \/ \E v \in Writers : rec[v] = "recorded"
      BY <2>2
    <2>4. FindDelivery # {} => FindDelivery' # {}
      BY <1>1
    <2> QED  BY <1>2, <1>3, <2>3, <2>4 DEF OneDelivery
  <1>5. CASE \E w \in Writers : WriteDelivery(w)
    <2>1. PICK w \in Writers : WriteDelivery(w)
      BY <1>5
    <2>2. \A v \in Writers : v # w => rec'[v] = rec[v]
      BY <2>1 DEF WriteDelivery, HistInv, HistTyped
    <2>3. rec'[w] = "recorded" => FindDelivery' # {}
      <3>1. CASE KeyTaken
        BY <3>1, <1>1 DEF KeyTaken
      <3>2. CASE ~KeyTaken
        <4>1. Reserve("delivery", "done") /\ rec'[w] = (IF turns[seq + 1].st = "none" THEN "recorded" ELSE "idle")
          BY <2>1, <3>2 DEF WriteDelivery, HistInv, HistTyped
        <4>2. seq + 1 \in Ids
          BY <4>1, HistoryAssumption DEF Reserve, HistInv, HistTyped, Ids
        <4>3. turns[seq + 1].st = "none" => turns'[seq + 1].st = "done" /\ turns'[seq + 1].kind = "delivery"
          BY <4>1, <4>2, FreshTurns DEF Reserve, HistInv, HistTyped
        <4> QED  BY <4>1, <4>2, <4>3 DEF FindDelivery, Done
      <3> QED  BY <3>1, <3>2
    <2> QED  BY <1>2, <1>3, <2>2, <2>3 DEF OneDelivery
  <1>6. CASE \E w \in Writers : CommitLost(w)
    <2>1. PICK w \in Writers : rec' = [rec EXCEPT ![w] = "idle"]
      BY <1>6 DEF CommitLost
    <2>2. \A v \in Writers : rec'[v] = "recorded" => rec[v] = "recorded"
      BY <2>1 DEF HistInv, HistTyped
    <2> QED  BY <1>2, <1>3, <2>2 DEF OneDelivery
  <1>7. CASE AgentStarts
    <2>1. \A v \in Writers : rec'[v] = "recorded" => rec[v] = "recorded"
      BY <1>7 DEF AgentStarts
    <2> QED  BY <1>2, <1>3, <2>1 DEF OneDelivery
  <1>8. CASE UNCHANGED rec
    BY <1>2, <1>3, <1>8 DEF OneDelivery
  <1>9. \/ UNCHANGED rec \/ AgentStarts
        \/ \E w \in Writers : RecordDelivery(w) \/ WriteDelivery(w) \/ CommitLost(w)
    BY DEF HistNext, IndexStep, ReserveTurnSeq, AppendTurnAtSeq, RunFails, NextAttempt, RunBatch, Chunk, Digest, Embed, EmbedFails,
           Start, ImportTurn, ImportAdvance, ImportRecord, PrepareCutover, CommandStops, AgentStops, Upgrade, SourceGrows
  <1> QED  BY <1>4, <1>5, <1>6, <1>7, <1>8, <1>9

\* The steps of the release, of the agent's state and of the bootstrap row.
LEMMA WhoChanges ==
    ASSUME HistNext
    PROVE  /\ UNCHANGED ver \/ Upgrade
           /\ UNCHANGED up \/ AgentStarts \/ AgentStops
           /\ UNCHANGED boot \/ ImportRecord \/ PrepareCutover \/ AgentStarts
           /\ UNCHANGED source \/ SourceGrows
           /\ UNCHANGED run \/ ReserveTurnSeq \/ AppendTurnAtSeq \/ RunFails \/ AgentStops
  BY DEF HistNext, IndexStep, ReserveTurnSeq, AppendTurnAtSeq, RunFails, NextAttempt, RunBatch, Chunk, Digest, Embed, EmbedFails,
         Start, ImportTurn, ImportAdvance, ImportRecord, PrepareCutover, CommandStops, AgentStarts, AgentStops, Upgrade, SourceGrows,
         RecordDelivery, WriteDelivery, CommitLost

\* What was indexed for the release stays so until the next release.
LEMMA IndexedStays ==
    ASSUME HistInv, TurnStep, NEW i \in Ids, turns[i].st = "done"
    PROVE  turns'[i].st = "done" /\ (Indexed(i) /\ UNCHANGED ver => Indexed(i)')
  <1>1. TurnKept(turns[i], turns'[i])
    BY DEF TurnStep
  <1>2. turns'[i].st = "done"
    BY <1>1 DEF TurnKept
  <1>3. ASSUME Indexed(i), UNCHANGED ver  PROVE Indexed(i)'
    <2>1. turns[i].chunk /\ turns[i].cemb /\ turns[i].dig = ver /\ turns[i].demb = ver /\ ver' = ver
      BY <1>3 DEF Indexed
    <2>2. turns'[i].chunk /\ turns'[i].cemb
      BY <2>1, <1>1, Zenon DEF TurnKept
    <2>3. ~(turns[i].dig < ver) /\ turns[i].demb # 0
      BY <2>1 DEF HistInv, HistTyped
    <2>4. turns'[i].dig = turns[i].dig /\ turns'[i].demb = turns[i].demb
      BY <2>3, <1>1 DEF TurnKept
    <2> QED  BY <2>1, <2>2, <2>4, Zenon DEF Indexed
  <1> QED  BY <1>2, <1>3

\* The bootstrap row: readiness is for one release and one import.
LEMMA BootStep == HistInv /\ HistNext => BootOK'
  <1> SUFFICES ASSUME HistInv, HistNext  PROVE BootOK'
    OBVIOUS
  <1>1. TurnStep /\ seq \in Nat /\ seq' \in Nat /\ seq <= seq' /\ ver \in Nat \ {0} /\ boot \in Boots
    BY TurnsStep DEF TurnStep, HistInv, HistTyped
  <1>2. \A i \in Ids : turns[i].st = "done" => turns'[i].st = "done"
    BY <1>1, IndexedStays
  <1>3. \A i \in Ids : turns[i].st = "done" /\ Indexed(i) /\ UNCHANGED ver => Indexed(i)'
    BY <1>1, IndexedStays
  <1>4. boot.ids \subseteq Ids /\ boot.prepared \in Nat
    BY <1>1 DEF Boots
  <1>5. boot.prepared <= ver /\ (up => boot.prepared = ver) /\ (boot.prepared = ver => \A i \in boot.ids : Indexed(i))
    BY DEF HistInv, BootOK
  <1>6. \A i \in boot.ids : turns[i].st = "done" /\ turns'[i].st = "done" /\ i \in Nat /\ i <= seq /\ i <= seq'
    BY <1>1, <1>2, <1>4 DEF HistInv, BootOK, Ids
  <1>7. CASE AgentStarts
    <2>1. ver' = ver /\ turns' = turns
      BY <1>7 DEF AgentStarts
    <2>2. CASE Ready /\ boot' = boot
      <3>1. boot.prepared = ver
        BY <2>2 DEF Ready
      <3>2. \A i \in boot.ids : Indexed(i)'
        BY <3>1, <1>3, <1>4, <1>5, <1>6, <2>1
      <3>3. boot'.prepared = ver' /\ boot'.ids = boot.ids /\ ver' \in Nat
        BY <2>1, <2>2, <3>1, <1>1
      <3> QED  BY <3>2, <3>3, <1>6 DEF BootOK
    <2>3. CASE boot' = [row |-> TRUE, ids |-> {}, prepared |-> ver]
      <3>1. boot'.prepared = ver' /\ boot'.ids = {} /\ ver' \in Nat
        BY <2>1, <2>3, <1>1
      <3> QED  BY <3>1 DEF BootOK
    <2> QED  BY <1>7, <2>2, <2>3 DEF AgentStarts
  <1>8. CASE ImportRecord
    <2>1. ver' = ver /\ turns' = turns /\ up' = up /\ cmd.op = "import" /\ cmd.pc = "record" /\ boot' = RecordImport(cmd.snap)
      BY <1>8 DEF ImportRecord
    <2>2. ~up /\ \A i \in cmd.snap : turns[i].st = "done" /\ i <= seq
      BY <2>1 DEF HistInv, CommandOK
    <2>3. cmd.snap \subseteq Ids
      BY DEF HistInv, HistTyped, Commands
    <2>4. boot'.ids = cmd.snap /\ (boot'.prepared = 0 \/ (boot'.prepared = boot.prepared /\ boot.ids = cmd.snap))
      BY <2>1 DEF RecordImport
    <2>5. \A i \in boot'.ids : turns'[i].st = "done" /\ i <= seq'
      <3>1. seq' = seq
        BY <1>8 DEF ImportRecord
      <3> QED  BY <2>1, <2>2, <2>4, <3>1
    <2>6. boot'.prepared <= ver' /\ (boot'.prepared = ver' => boot.prepared = ver /\ boot'.ids = boot.ids)
      BY <2>4, <2>1, <1>1, <1>4, <1>5
    <2>7. boot'.prepared = ver' => \A i \in boot'.ids : Indexed(i)'
      BY <2>6, <1>3, <1>4, <1>5, <1>6, <2>1
    <2> QED  BY <2>1, <2>2, <2>5, <2>6, <2>7 DEF BootOK
  <1>9. CASE PrepareCutover
    <2>1. ver' = ver /\ turns' = turns /\ up' = up /\ seq' = seq
      BY <1>9 DEF PrepareCutover
    <2>2. CASE (\A i \in Done : Indexed(i)) /\ boot' = [boot EXCEPT !.prepared = ver]
      <3>1. boot'.ids = boot.ids /\ boot'.prepared = ver' /\ ver' \in Nat
        BY <2>1, <2>2, <1>1 DEF Boots
      <3>2. \A i \in boot.ids : Indexed(i)'
        BY <2>1, <2>2, <1>3, <1>4, <1>6 DEF Done
      <3> QED  BY <3>1, <3>2, <1>6 DEF BootOK
    <2>3. CASE boot' = boot
      <3>1. boot'.prepared = ver' => \A i \in boot'.ids : Indexed(i)'
        BY <2>1, <2>3, <1>3, <1>4, <1>5, <1>6
      <3> QED  BY <2>1, <2>3, <3>1, <1>5, <1>6 DEF BootOK
    <2> QED  BY <1>9, <2>2, <2>3 DEF PrepareCutover
  <1>10. CASE Upgrade
    <2>1. ver' = ver + 1 /\ turns' = turns /\ up' = up /\ ~up /\ boot' = boot
      BY <1>10 DEF Upgrade
    <2> QED  BY <2>1, <1>1, <1>4, <1>5, <1>6 DEF BootOK
  <1>11. CASE boot' = boot /\ ver' = ver /\ (up' = up \/ up' = FALSE)
    <2>1. boot'.prepared = ver' => \A i \in boot'.ids : Indexed(i)'
      BY <1>11, <1>3, <1>4, <1>5, <1>6
    <2> QED  BY <1>11, <2>1, <1>5, <1>6 DEF BootOK
  <1>12. AgentStops => up' = FALSE
    BY DEF AgentStops
  <1> QED  BY <1>7, <1>8, <1>9, <1>10, <1>11, <1>12, WhoChanges

LEMMA CommandStep == HistInv /\ HistNext => CommandOK'
  <1> SUFFICES ASSUME HistInv, HistNext  PROVE CommandOK'
    OBVIOUS
  <1>1. TurnStep /\ seq \in Nat /\ seq' \in Nat /\ seq <= seq' /\ cmd \in Commands
    BY TurnsStep DEF TurnStep, HistInv, HistTyped
  <1>2. \A i \in Ids : i \in Nat /\ (turns[i].st = "done" => turns'[i].st = "done")
    BY <1>1, IndexedStays DEF Ids
  <1>3. cmd.snap \subseteq Ids
    BY <1>1 DEF Commands
  <1>4. CASE cmd' = cmd /\ (cmd.op = "import" => ~up')
    <2>1. cmd.op = "import" /\ cmd.pc = "record" => \A i \in cmd.snap : turns'[i].st = "done" /\ i <= seq'
      BY <1>1, <1>2, <1>3 DEF HistInv, CommandOK
    <2>2. cmd.op = "import" => cmd.snap # {}
      BY DEF HistInv, CommandOK
    <2> QED  BY <2>1, <2>2, <1>4 DEF CommandOK
  <1>5. CASE cmd' = NoCmd \/ cmd'.op = "backfill"
    BY <1>5 DEF CommandOK, NoCmd
  <1>6. CASE \E op \in {"import", "backfill"} : Start(op)
    <2>1. PICK op \in {"import", "backfill"} : Start(op)
      BY <1>6
    <2>2. cmd' = [op |-> op, snap |-> source, todo |-> source, pc |-> IF op = "import" THEN "turns" ELSE "batches"]
          /\ (op = "import" => source # {} /\ ~up) /\ up' = up
      BY <2>1 DEF Start
    <2> QED  BY <2>2 DEF CommandOK
  <1>7. CASE ImportTurn
    <2>1. cmd.op = "import" /\ cmd.pc = "turns" /\ up' = up
      BY <1>7 DEF ImportTurn
    <2>2. cmd' = NoCmd \/ \E i : cmd' = [cmd EXCEPT !.todo = @ \ {i}]
      BY <1>7 DEF ImportTurn
    <2>3. (\E i : cmd' = [cmd EXCEPT !.todo = @ \ {i}]) => cmd'.pc = "turns" /\ cmd'.snap = cmd.snap
      BY <1>1, <2>1 DEF Commands
    <2> QED  BY <2>1, <2>2, <2>3, <1>5 DEF CommandOK, HistInv
  <1>8. CASE ImportAdvance
    <2>1. cmd.op = "import" /\ up' = up /\ turns' = turns
      BY <1>8 DEF ImportAdvance
    <2>2. cmd'.pc = "record" => \A i \in cmd.snap : turns[i].st = "done" /\ i <= seq'
      BY <1>8, AdvanceIs
    <2>3. cmd' = NoCmd \/ cmd' = [cmd EXCEPT !.pc = "record"]
      BY <1>8, AdvanceIs
    <2>4. cmd' = [cmd EXCEPT !.pc = "record"] => cmd'.pc = "record" /\ cmd'.snap = cmd.snap
      BY <1>1 DEF Commands
    <2> QED  BY <2>1, <2>2, <2>3, <2>4, <1>5 DEF CommandOK, HistInv
  <1>9. CASE \E p \in Indexers : RunBatch(p) \/ Embed(p) \/ EmbedFails(p)
    <2>1. PICK p \in Indexers : RunBatch(p) \/ Embed(p) \/ EmbedFails(p)
      BY <1>9
    <2>2. up' = up
      BY <2>1 DEF RunBatch, Embed, EmbedFails
    <2>3. cmd' = cmd \/ cmd' = NoCmd \/ (p = "cli" /\ cmd' = [cmd EXCEPT !.pc = "prepare"])
      BY <2>1 DEF RunBatch, Embed, EmbedFails, BatchOver, Indexers
    <2>4. p = "cli" => cmd.op = "backfill"
      BY <2>1 DEF RunBatch, Embed, EmbedFails, Alive
    <2>5. cmd' = [cmd EXCEPT !.pc = "prepare"] => cmd'.op = cmd.op
      BY <1>1 DEF Commands
    <2> QED  BY <2>2, <2>3, <2>4, <2>5, <1>4, <1>5 DEF HistInv, CommandOK
  <1>10. \/ cmd' = NoCmd \/ (\E op \in {"import", "backfill"} : Start(op)) \/ ImportTurn \/ ImportAdvance
         \/ (\E p \in Indexers : RunBatch(p) \/ Embed(p) \/ EmbedFails(p))
         \/ (cmd' = cmd /\ (up' = up \/ AgentStarts \/ AgentStops))
    BY DEF HistNext, IndexStep, ReserveTurnSeq, AppendTurnAtSeq, RunFails, NextAttempt, Chunk, Digest, ImportRecord, PrepareCutover,
           CommandStops, AgentStarts, AgentStops, Upgrade, SourceGrows, RecordDelivery, WriteDelivery, CommitLost
  <1>11. AgentStarts => ~(cmd.op = "import")
    BY DEF AgentStarts
  <1>12. AgentStops => up' = FALSE
    BY DEF AgentStops
  <1> QED  BY <1>4, <1>5, <1>6, <1>7, <1>8, <1>9, <1>10, <1>11, <1>12 DEF HistInv, CommandOK

\* The steps of the indexers, of the lock and of the command.
LEMMA WhoIndexes ==
    ASSUME HistNext
    PROVE  \/ UNCHANGED <<idx, lock, cmd>> /\ (up' = up \/ AgentStarts)
           \/ UNCHANGED <<idx, lock, up>> /\ ((\E op \in {"import", "backfill"} : Start(op)) \/ ImportTurn \/ ImportAdvance
                                               \/ ImportRecord \/ PrepareCutover)
           \/ CommandStops \/ AgentStops
           \/ UNCHANGED up /\ \E p \in Indexers : RunBatch(p) \/ Chunk(p) \/ Digest(p) \/ Embed(p) \/ EmbedFails(p)
  <1>1. (UNCHANGED <<idx, lock, cmd>> /\ (up' = up \/ AgentStarts)) \/ (\E op \in {"import", "backfill"} : Start(op)) \/ ImportTurn
        \/ ImportAdvance \/ ImportRecord \/ PrepareCutover \/ CommandStops \/ AgentStops
        \/ \E p \in Indexers : RunBatch(p) \/ Chunk(p) \/ Digest(p) \/ Embed(p) \/ EmbedFails(p)
    BY DEF HistNext, IndexStep, ReserveTurnSeq, AppendTurnAtSeq, RunFails, NextAttempt, AgentStarts, Upgrade, SourceGrows,
           RecordDelivery, WriteDelivery, CommitLost
  <1> QED  BY <1>1 DEF Start, ImportTurn, ImportAdvance, ImportRecord, PrepareCutover, RunBatch, Chunk, Digest, Embed, EmbedFails

\* The end of a batch frees its lock; the indexer of the command goes on only in its batches.
LEMMA BatchEnds ==
    ASSUME HistInv, NEW p \in Indexers, NEW did, NEW err, BatchOver(p, did, err)
    PROVE  /\ idx'[p].pc = "idle" /\ \A q \in Indexers : q # p => idx'[q] = idx[q]
           /\ lock # p => lock' = lock
           /\ cmd' = cmd \/ p = "cli"
  <1>1. idx \in [Indexers -> Batches]
    BY DEF HistInv, HistTyped
  <1> QED  BY <1>1 DEF BatchOver, Step, IdleIdx, Indexers

LEMMA LocksStep == HistInv /\ HistNext => LocksOK'
  <1> SUFFICES ASSUME HistInv, HistNext, NEW q \in Indexers, idx'[q].pc # "idle"
               PROVE  lock' = q /\ (q = "agent" => up') /\ (q = "cli" => cmd'.op = "backfill" /\ cmd'.pc = "batches")
    BY DEF LocksOK
  <1>1. idx \in [Indexers -> Batches] /\ lock \in {"none"} \cup Indexers /\ Indexers = {"agent", "cli"}
    BY DEF HistInv, HistTyped, Indexers
  <1>2. idx[q].pc # "idle" => lock = q /\ (q = "agent" => up) /\ (q = "cli" => cmd.op = "backfill" /\ cmd.pc = "batches")
    BY DEF HistInv, LocksOK
  <1>3. CASE UNCHANGED <<idx, lock, cmd>> /\ (up' = up \/ AgentStarts)
    <2>1. AgentStarts => up'
      BY DEF AgentStarts
    <2> QED  BY <1>2, <1>3, <2>1
  <1>4. CASE UNCHANGED <<idx, lock, up>> /\ ((\E op \in {"import", "backfill"} : Start(op)) \/ ImportTurn \/ ImportAdvance
                                              \/ ImportRecord \/ PrepareCutover)
    <2>1. ~(cmd.op = "backfill" /\ cmd.pc = "batches")
      BY <1>4 DEF Start, ImportTurn, ImportAdvance, ImportRecord, PrepareCutover, NoCmd
    <2> QED  BY <1>1, <1>2, <1>4, <2>1
  <1>5. CASE CommandStops
    <2>1. idx' = [idx EXCEPT !["cli"] = IdleIdx] /\ lock' = (IF lock = "cli" THEN "none" ELSE lock) /\ up' = up
      BY <1>5 DEF CommandStops
    <2>2. q = "agent" /\ idx[q].pc # "idle"
      BY <1>1, <2>1 DEF IdleIdx
    <2> QED  BY <1>2, <2>1, <2>2
  <1>6. CASE AgentStops
    <2>1. idx' = [idx EXCEPT !["agent"] = IdleIdx] /\ lock' = (IF lock = "agent" THEN "none" ELSE lock) /\ cmd' = cmd
      BY <1>6 DEF AgentStops
    <2>2. q = "cli" /\ idx[q].pc # "idle"
      BY <1>1, <2>1 DEF IdleIdx
    <2> QED  BY <1>2, <2>1, <2>2
  <1>7. ASSUME UNCHANGED up, NEW p \in Indexers, RunBatch(p) \/ Chunk(p) \/ Digest(p) \/ Embed(p) \/ EmbedFails(p)
        PROVE  lock' = q /\ (q = "agent" => up') /\ (q = "cli" => cmd'.op = "backfill" /\ cmd'.pc = "batches")
    <2>1. Alive(p)
      BY <1>7 DEF RunBatch, Chunk, Digest, Embed, EmbedFails
    <2>2. (p = "agent" => up) /\ (p = "cli" => cmd.op = "backfill" /\ cmd.pc = "batches")
      BY <2>1 DEF Alive
    <2>3. CASE MayRun(p) /\ lock' = p /\ Step(p, [IdleIdx EXCEPT !.pc = "chunk"]) /\ UNCHANGED cmd
      <3>1. q # p => idx'[q] = idx[q] /\ lock = "none"
        BY <2>3, <1>1 DEF Step, MayRun
      <3>2. q = p
        BY <3>1, <1>2, <1>1
      <3> QED  BY <3>2, <2>2, <2>3, <1>7
    <2>4. CASE \E did, err : BatchOver(p, did, err)
      <3>1. idx'[p].pc = "idle" /\ (q # p => idx'[q] = idx[q]) /\ (lock # p => lock' = lock) /\ (cmd' = cmd \/ p = "cli")
        BY <2>4, BatchEnds
      <3> QED  BY <3>1, <1>1, <1>2, <1>7
    <2>5. CASE Chunk(p) \/ Digest(p)
      <3>1. lock' = lock /\ cmd' = cmd /\ idx[p].pc # "idle"
        BY <2>5 DEF Chunk, Digest
      <3>2. q # p => idx'[q] = idx[q]
        BY <2>5, <1>1 DEF Chunk, Digest, Step
      <3> QED  BY <3>1, <3>2, <1>2, <1>7
    <2>6. RunBatch(p) => (MayRun(p) /\ lock' = p /\ Step(p, [IdleIdx EXCEPT !.pc = "chunk"]) /\ UNCHANGED cmd) \/ \E did, err : BatchOver(p, did, err)
      BY DEF RunBatch
    <2>7. Embed(p) \/ EmbedFails(p) => \E did, err : BatchOver(p, did, err)
      BY DEF Embed, EmbedFails
    <2> QED  BY <1>7, <2>3, <2>4, <2>5, <2>6, <2>7
  <1> QED  BY <1>3, <1>4, <1>5, <1>6, <1>7, WhoIndexes

\* Digest, with what it makes of the turns and what it found for Embed named.
DigestNow(failed) ==
    [i \in Ids |-> IF i \notin PendingDigests THEN turns[i]
                   ELSE IF i \in failed THEN [turns[i] EXCEPT !.wait = DigestDelay] ELSE saveDigest(turns[i])]
NoVector(now) ==
    {[id |-> i, dig |-> now[i].dig] : i \in {j \in Done : now[j].dig # 0 /\ now[j].demb = 0}}
      \cup {[id |-> i, dig |-> 0] : i \in {j \in Done : now[j].chunk /\ ~now[j].cemb}}
LEMMA DigestIs ==
    ASSUME NEW p \in Indexers, Digest(p)
    PROVE  \E failed, d, e : /\ turns' = DigestNow(failed) /\ d \in BOOLEAN /\ e \in BOOLEAN
                            /\ idx' = [idx EXCEPT ![p] = [pc |-> "embed", did |-> d, err |-> e, units |-> NoVector(turns')]]
  <1>1. PICK failed \in SUBSET PendingDigests :
             /\ turns' = DigestNow(failed)
             /\ idx' = [idx EXCEPT ![p] = [pc |-> "embed", did |-> idx[p].did \/ failed # PendingDigests, err |-> failed # {},
                                         units |-> NoVector(DigestNow(failed))]]
    BY DEF Digest, Step, DigestNow, NoVector
  <1>2. PICK d \in BOOLEAN : d = (idx[p].did \/ failed # PendingDigests)
    BY Zenon
  <1>3. PICK e \in BOOLEAN : e = (failed # {})
    BY Zenon
  <1>4. idx' = [idx EXCEPT ![p] = [pc |-> "embed", did |-> d, err |-> e, units |-> NoVector(turns')]]
    BY <1>1, <1>2, <1>3, Zenon
  <1> QED  BY <1>1, <1>4

LEMMA UnitsStep == HistInv /\ HistNext => UnitsOK'
  <1> SUFFICES ASSUME HistInv, HistNext, NEW q \in Indexers, idx'[q].pc = "embed", NEW u \in idx'[q].units
               PROVE  turns'[u.id].st = "done" /\ (u.dig # 0 => turns'[u.id].dig = u.dig)
    BY DEF UnitsOK
  <1>1. idx \in [Indexers -> Batches] /\ TurnStep
    BY TurnsStep DEF HistInv, HistTyped
  <1>2. CASE Digest(q)
    <2>1. idx'[q].units = NoVector(turns')
      <3>1. PICK failed, d, e : turns' = DigestNow(failed) /\ d \in BOOLEAN /\ e \in BOOLEAN
                /\ idx' = [idx EXCEPT ![q] = [pc |-> "embed", did |-> d, err |-> e, units |-> NoVector(turns')]]
        BY <1>2, DigestIs
      <3>2. idx'[q] = [pc |-> "embed", did |-> d, err |-> e, units |-> NoVector(turns')]
        BY <3>1, <1>1
      <3> QED  BY ONLY <3>2
    <2>2. u.id \in Done /\ (u.dig # 0 => u.dig = turns'[u.id].dig)
      BY <2>1 DEF NoVector
    <2>3. turns'[u.id].st = "done"
      BY <2>2, <1>1, IndexedStays DEF Done
    <2> QED  BY <2>2, <2>3
  <1>3. CASE idx'[q] = idx[q] /\ ~Digest(q)
    <2>1. turns[u.id].st = "done" /\ (u.dig # 0 => turns[u.id].dig = u.dig) /\ u.id \in Ids /\ idx[q].pc = "embed"
      <3>1. u \in idx[q].units /\ idx[q].units \subseteq Units
        BY <1>1, <1>3 DEF Batches
      <3> QED  BY <3>1, <1>3 DEF HistInv, UnitsOK, Units
    <2>2. lock = q
      BY <2>1 DEF HistInv, LocksOK
    <2>3. \A p \in Indexers : idx[p].pc = "digest" => p = q
      BY <2>2 DEF HistInv, LocksOK
    <2>4. turns'[u.id].st = "done"
      BY <2>1, <1>1, IndexedStays
    <2>5. turns'[u.id].dig = turns[u.id].dig
      BY <2>1, <2>3, <1>1 DEF TurnStep, DigestsStay
    <2> QED  BY <2>1, <2>4, <2>5
  <1>4. idx'[q] = idx[q] \/ Digest(q) \/ idx'[q].pc # "embed"
    <2>1. CASE UNCHANGED idx
      BY <2>1
    <2>2. CASE CommandStops \/ AgentStops
      BY <2>2, <1>1 DEF CommandStops, AgentStops, IdleIdx
    <2>3. ASSUME NEW p \in Indexers, RunBatch(p) \/ Chunk(p) \/ Digest(p) \/ Embed(p) \/ EmbedFails(p)
          PROVE  idx'[q] = idx[q] \/ Digest(q) \/ idx'[q].pc # "embed"
      <3>1. Embed(p) \/ EmbedFails(p) => \E did, err : BatchOver(p, did, err)
        BY DEF Embed, EmbedFails
      <3>2. CASE Embed(p) \/ EmbedFails(p)
        BY <3>1, <3>2, BatchEnds
      <3>3. CASE RunBatch(p)
        <4>1. CASE Step(p, [IdleIdx EXCEPT !.pc = "chunk"])
          BY <4>1, <1>1 DEF Step, IdleIdx
        <4>2. CASE BatchOver(p, FALSE, TRUE)
          BY <4>2, BatchEnds
        <4> QED  BY <3>3, <4>1, <4>2 DEF RunBatch
      <3>4. CASE Chunk(p)
        <4>1. q # p => idx'[q] = idx[q]
          BY <3>4, <1>1 DEF Chunk, Step
        <4>2. idx'[p].pc = "digest"
          BY <3>4, <1>1 DEF Chunk, Step, Batches
        <4> QED  BY <4>1, <4>2
      <3>5. CASE Digest(p)
        <4>1. \E r : idx' = [idx EXCEPT ![p] = r]
          BY <3>5 DEF Digest, Step
        <4>2. q # p => idx'[q] = idx[q]
          BY <4>1, <1>1
        <4> QED  BY <4>2, <3>5
      <3> QED  BY <2>3, <3>2, <3>3, <3>4, <3>5
    <2> QED  BY <2>1, <2>2, <2>3, WhoIndexes
  <1> QED  BY <1>2, <1>3, <1>4

\* Every kind of step keeps the types.
LEMMA TypedStep == HistInv /\ HistNext => HistTyped'
  <1> SUFFICES ASSUME HistInv, HistNext  PROVE HistTyped'
    OBVIOUS
  <1>0. /\ turns \in [Ids -> TurnRecords] /\ seq \in Nat /\ boot \in Boots /\ source \in SUBSET Ids /\ ver \in Nat \ {0}
        /\ up \in BOOLEAN /\ run \in {0} \cup Ids /\ idx \in [Indexers -> Batches] /\ lock \in {"none"} \cup Indexers
        /\ cmd \in Commands /\ rec \in [Writers -> {"idle", "writing", "recorded"}]
    BY DEF HistInv, HistTyped
  <1>1. turns' \in [Ids -> TurnRecords] /\ seq' \in Nat
    BY TurnsStep DEF TurnStep
  <1>2. ver' \in Nat \ {0}
    <2>1. Upgrade => ver' = ver + 1
      BY DEF Upgrade
    <2> QED  BY <2>1, <1>0, WhoChanges
  <1>3. up' \in BOOLEAN
    <2>1. (AgentStarts => up' = TRUE) /\ (AgentStops => up' = FALSE)
      BY DEF AgentStarts, AgentStops
    <2> QED  BY <2>1, <1>0, WhoChanges
  <1>4. source' \in SUBSET Ids
    <2>1. CASE SourceGrows
      <3>1. source # {} /\ source \subseteq Nat /\ MaxTurns \in Nat /\ \A x \in source : x <= MaxTurns
        BY <2>1, <1>0, HistoryAssumption DEF SourceGrows, Ids
      <3>2. Max(source) \in source
        BY <3>1, MaxIs
      <3>3. Max(source) + 1 \in Ids
        <4>1. PICK m \in source : m = Max(source)
          BY <3>2
        <4>2. m < MaxTurns /\ m \in 1..MaxTurns
          BY <2>1, <4>1, <1>0 DEF SourceGrows, Ids
        <4>3. m + 1 \in 1..MaxTurns
          BY <4>2, <3>1
        <4> QED  BY <4>1, <4>3 DEF Ids
      <3> QED  BY <2>1, <3>3, <1>0 DEF SourceGrows
    <2> QED  BY <2>1, <1>0, WhoChanges
  <1>5. run' \in {0} \cup Ids
    <2>1. CASE ReserveTurnSeq
      BY <2>1, <1>0, HistoryAssumption DEF ReserveTurnSeq, Reserve, Ids
    <2>2. AppendTurnAtSeq \/ RunFails \/ AgentStops => run' = 0
      BY DEF AppendTurnAtSeq, RunFails, AgentStops
    <2> QED  BY <2>1, <2>2, <1>0, WhoChanges
  <1>6. boot' \in Boots
    <2>1. CASE ImportRecord
      <3>1. boot' = [row |-> TRUE, ids |-> cmd.snap, prepared |-> IF boot.row /\ boot.ids = cmd.snap THEN boot.prepared ELSE 0]
        BY <2>1 DEF ImportRecord, RecordImport
      <3>2. cmd.snap \in SUBSET Ids /\ boot.prepared \in Nat
        BY <1>0 DEF Commands, Boots
      <3> QED  BY <3>1, <3>2 DEF Boots
    <2>2. CASE PrepareCutover
      <3>1. boot' = [boot EXCEPT !.prepared = ver] \/ boot' = boot
        BY <2>2 DEF PrepareCutover
      <3> QED  BY <3>1, <1>0 DEF Boots
    <2>3. CASE AgentStarts
      <3>1. boot' = boot \/ boot' = [row |-> TRUE, ids |-> {}, prepared |-> ver]
        BY <2>3 DEF AgentStarts
      <3>2. [row |-> TRUE, ids |-> {}, prepared |-> ver] \in Boots
        BY <1>0 DEF Boots
      <3> QED  BY <3>1, <3>2, <1>0
    <2> QED  BY <2>1, <2>2, <2>3, <1>0, WhoChanges
  <1>7. rec' \in [Writers -> {"idle", "writing", "recorded"}]
    <2>1. CASE \E w \in Writers, s \in {"idle", "writing", "recorded"} : rec' = [rec EXCEPT ![w] = s]
      BY <2>1, <1>0
    <2>2. CASE AgentStarts
      BY <2>2, <1>0 DEF AgentStarts
    <2>3. UNCHANGED rec \/ AgentStarts \/ \E w \in Writers : RecordDelivery(w) \/ WriteDelivery(w) \/ CommitLost(w)
      BY DEF HistNext, IndexStep, ReserveTurnSeq, AppendTurnAtSeq, RunFails, NextAttempt, RunBatch, Chunk, Digest, Embed, EmbedFails,
             Start, ImportTurn, ImportAdvance, ImportRecord, PrepareCutover, CommandStops, AgentStops, Upgrade, SourceGrows
    <2>4. (\E w \in Writers : RecordDelivery(w) \/ WriteDelivery(w) \/ CommitLost(w))
            => \E w \in Writers, s \in {"idle", "writing", "recorded"} : rec' = [rec EXCEPT ![w] = s]
      BY Zenon DEF RecordDelivery, WriteDelivery, CommitLost
    <2> QED  BY <2>1, <2>2, <2>3, <2>4, <1>0
  <1>8. lock' \in {"none"} \cup Indexers
    <2>1. CASE CommandStops \/ AgentStops
      BY <2>1, <1>0 DEF CommandStops, AgentStops
    <2>2. ASSUME NEW p \in Indexers, RunBatch(p) \/ Chunk(p) \/ Digest(p) \/ Embed(p) \/ EmbedFails(p)
          PROVE  lock' \in {"none"} \cup Indexers
      <3>1. lock' = lock \/ lock' = p \/ lock' = "none"
        BY <2>2 DEF RunBatch, Chunk, Digest, Embed, EmbedFails, BatchOver
      <3> QED  BY <3>1, <1>0
    <2> QED  BY <2>1, <2>2, <1>0, WhoIndexes
  <1>9. cmd' \in Commands
    <2>1. NoCmd \in Commands
      BY DEF NoCmd, Commands
    <2>2. CASE \E op \in {"import", "backfill"} : Start(op)
      BY <2>2, <1>0 DEF Start, Commands
    <2>3. ASSUME \E i : cmd' = [cmd EXCEPT !.todo = @ \ {i}]  PROVE cmd' \in Commands
      <3>1. PICK i : cmd' = [cmd EXCEPT !.todo = @ \ {i}]
        BY <2>3
      <3> QED  BY <3>1, <1>0 DEF Commands
    <2>4. ASSUME NEW c \in {"record", "prepare"}, cmd' = [cmd EXCEPT !.pc = c]  PROVE cmd' \in Commands
      BY <2>4, <1>0 DEF Commands
    <2>5. ImportTurn => cmd' = NoCmd \/ \E i : cmd' = [cmd EXCEPT !.todo = @ \ {i}]
      BY DEF ImportTurn
    <2>6. ImportAdvance => cmd' = NoCmd \/ cmd' = [cmd EXCEPT !.pc = "record"]
      BY AdvanceIs
    <2>7. (\E p \in Indexers : RunBatch(p) \/ Chunk(p) \/ Digest(p) \/ Embed(p) \/ EmbedFails(p))
            => cmd' = cmd \/ cmd' = NoCmd \/ cmd' = [cmd EXCEPT !.pc = "prepare"]
      BY DEF RunBatch, Chunk, Digest, Embed, EmbedFails, BatchOver
    <2>8. cmd' = cmd \/ cmd' = NoCmd \/ (\E op \in {"import", "backfill"} : Start(op)) \/ ImportTurn \/ ImportAdvance
          \/ (\E p \in Indexers : RunBatch(p) \/ Chunk(p) \/ Digest(p) \/ Embed(p) \/ EmbedFails(p))
      BY WhoIndexes DEF ImportRecord, PrepareCutover, CommandStops, AgentStops
    <2> QED  BY <2>1, <2>2, <2>3, <2>4, <2>5, <2>6, <2>7, <2>8, <1>0
  <1>10. idx' \in [Indexers -> Batches]
    <2>1. IdleIdx \in Batches
      BY DEF IdleIdx, Batches, IndexerPcs
    <2>2. ASSUME NEW p \in Indexers, NEW b \in Batches, idx' = [idx EXCEPT ![p] = b]  PROVE idx' \in [Indexers -> Batches]
      BY <2>2, <1>0
    <2>3. CASE CommandStops \/ AgentStops
      BY <2>1, <2>2, <2>3 DEF CommandStops, AgentStops, Indexers
    <2>4. ASSUME NEW p \in Indexers, RunBatch(p) \/ Chunk(p) \/ Digest(p) \/ Embed(p) \/ EmbedFails(p)
          PROVE  idx' \in [Indexers -> Batches]
      <3>1. idx[p] \in Batches
        BY <1>0
      <3>2. CASE idx' = [idx EXCEPT ![p] = IdleIdx]
        BY <3>2, <2>1, <2>2
      <3>3. CASE Step(p, [IdleIdx EXCEPT !.pc = "chunk"])
        <4>1. [IdleIdx EXCEPT !.pc = "chunk"] \in Batches
          BY DEF IdleIdx, Batches, IndexerPcs
        <4> QED  BY <3>3, <4>1, <2>2 DEF Step
      <3>4. CASE Chunk(p)
        <4>1. PICK d \in BOOLEAN : d = (\E i \in Done : ~turns[i].chunk)
          BY Zenon
        <4>2. idx' = [idx EXCEPT ![p] = [idx[p] EXCEPT !.pc = "digest", !.did = d]]
          BY <3>4, <4>1 DEF Chunk, Step
        <4>3. [idx[p] EXCEPT !.pc = "digest", !.did = d] \in Batches
          BY <3>1 DEF Batches, IndexerPcs
        <4> QED  BY <4>2, <4>3, <2>2
      <3>5. CASE Digest(p)
        <4>1. PICK failed, d, e : turns' = DigestNow(failed) /\ d \in BOOLEAN /\ e \in BOOLEAN
                /\ idx' = [idx EXCEPT ![p] = [pc |-> "embed", did |-> d, err |-> e, units |-> NoVector(turns')]]
          BY <3>5, DigestIs
        <4>2. NoVector(turns') \in SUBSET Units
          <5>1. PICK now : now = turns'
            OBVIOUS
          <5>2. \A i \in Done : i \in Ids /\ now[i].dig \in Nat
            BY <5>1, <1>1 DEF Done, TurnRecords
          <5> QED  BY <5>1, <5>2 DEF NoVector, Units
        <4>3. PICK us \in SUBSET Units : us = NoVector(turns')
          BY <4>2
        <4>4. [pc |-> "embed", did |-> d, err |-> e, units |-> us] \in Batches
          BY <4>1 DEF Batches, IndexerPcs
        <4> QED  BY <4>1, <4>3, <4>4, <2>2
      <3>6. RunBatch(p) \/ Embed(p) \/ EmbedFails(p) => idx' = [idx EXCEPT ![p] = IdleIdx] \/ Step(p, [IdleIdx EXCEPT !.pc = "chunk"])
        BY DEF RunBatch, Embed, EmbedFails, BatchOver, Step
      <3> QED  BY <2>4, <3>2, <3>3, <3>4, <3>5, <3>6
    <2> QED  BY <2>3, <2>4, <1>0, WhoIndexes
  <1> QED  BY <1>1, <1>2, <1>3, <1>4, <1>5, <1>6, <1>7, <1>8, <1>9, <1>10 DEF HistTyped

\* A newer release makes every digest of the older ones old.
LEMMA TurnsOKStep == HistInv /\ HistNext => \A i \in Ids : TurnOK(turns[i], ver)'
  <1> SUFFICES ASSUME HistInv, HistNext, NEW i \in Ids  PROVE TurnOK(turns[i], ver)'
    OBVIOUS
  <1>1. TurnOK(turns'[i], ver) /\ turns'[i] \in TurnRecords
    BY TurnsStep DEF TurnStep
  <1>2. ver \in Nat /\ (ver' = ver \/ ver' = ver + 1)
    BY WhoChanges DEF Upgrade, HistInv, HistTyped
  <1> QED  BY <1>1, <1>2 DEF TurnOK, TurnRecords

LEMMA HistStep == HistInv /\ [HistNext]_hsVars => HistInv'
  <1> SUFFICES ASSUME HistInv, [HistNext]_hsVars  PROVE HistInv'
    OBVIOUS
  <1>1. CASE HistNext
    BY <1>1, TypedStep, TurnsOKStep, NumberedStep, DeliveryStep, BootStep, CommandStep, LocksStep, UnitsStep DEF HistInv
  <1>2. CASE UNCHANGED hsVars
    BY <1>2 DEF HistInv, hsVars, HistTyped, Numbered, OneDelivery, BootOK, CommandOK, LocksOK, UnitsOK, FindDelivery, Done, Indexed, TurnOK
  <1> QED  BY <1>1, <1>2

LEMMA HistStart == HistInit => HistInv
  <1> SUFFICES ASSUME HistInit  PROVE HistInv
    OBVIOUS
  <1>1. HistTyped
    <2>1. NoTurn \in TurnRecords /\ NoBoot \in Boots /\ IdleIdx \in Batches /\ NoCmd \in Commands
      BY DEF NoTurn, NoBoot, IdleIdx, NoCmd, TurnRecords, Boots, Batches, IndexerPcs, Commands
    <2>2. source \in SUBSET Ids
      BY HistoryAssumption DEF HistInit, Ids
    <2>3. turns \in [Ids -> TurnRecords] /\ idx \in [Indexers -> Batches] /\ rec \in [Writers -> {"idle", "writing", "recorded"}]
      BY <2>1 DEF HistInit
    <2>4. boot \in Boots /\ cmd \in Commands /\ lock \in {"none"} \cup Indexers
      BY <2>1 DEF HistInit
    <2>5. seq = 0 /\ ver = 1 /\ run = 0
      BY DEF HistInit
    <2>6. up \in BOOLEAN
      BY DEF HistInit
    <2>7. seq \in Nat /\ ver \in Nat \ {0} /\ run \in {0} \cup Ids
      BY ONLY <2>5
    <2> QED  BY <2>2, <2>3, <2>4, <2>6, <2>7 DEF HistTyped
  <1>2. \A i \in Ids : TurnOK(turns[i], ver) /\ turns[i].st = "none"
    BY DEF HistInit, NoTurn, TurnOK
  <1>3. FindDelivery = {} /\ \A w \in Writers : rec[w] # "recorded"
    BY <1>2 DEF HistInit, FindDelivery, Done
  <1>4. BootOK /\ CommandOK /\ LocksOK /\ UnitsOK
    BY DEF HistInit, NoBoot, NoCmd, IdleIdx, BootOK, CommandOK, LocksOK, UnitsOK
  <1> QED  BY <1>1, <1>2, <1>3, <1>4 DEF HistInv, Numbered, OneDelivery

\* In every reachable state a turn is complete before anything is derived from it, a number below the next identity is
\* the only one handed out, a delivery has at most one turn, a lock is held by whom its commands and indexers say, and
\* what an indexer is about to embed still stands in the store (RecordDeliveredAssistantEvent, AdvanceTurnIdentity,
\* Bootstrap, Indexer.RunBatch).
THEOREM HistoryInvariant == MemorySpec => []HistInv
  <1>1. MemoryInit => HistInv
    BY HistStart DEF MemoryInit
  <1>2. HistInv /\ [MemoryNext]_recallVars => HistInv'
    <2>1. [MemoryNext]_recallVars => [HistNext]_hsVars
      BY DEF MemoryNext, OnlyHistory, OnlyContext, OnlyRecall, OnlyEmbed, OnlySearch, recallVars
    <2> QED  BY <2>1, HistStep
  <1> QED  BY <1>1, <1>2, PTL DEF MemorySpec

LEMMA HistMeans == HistInv => HistorySafe
  <1> SUFFICES ASSUME HistInv  PROVE HistorySafe
    OBVIOUS
  <1>1. ASSUME NEW S, \A i, j \in S : i = j  PROVE Cardinality(S) <= 1
    <2>1. CASE S = {}
      BY <2>1, FS_EmptySet
    <2>2. CASE S # {}
      <3>1. PICK x \in S : S = {x}
        BY <1>1, <2>2
      <3> QED  BY <3>1, FS_Singleton
    <2> QED  BY <2>1, <2>2
  <1>2. OneTurnPerDelivery
    BY <1>1 DEF HistInv, OneDelivery, OneTurnPerDelivery
  <1>3. ReadyMeansIndexed
    BY DEF HistInv, BootOK, ReadyMeansIndexed
  <1>4. IdentitiesAreFresh
    <2> SUFFICES ASSUME {i \in Done : turns[i].kind = "import"} = boot.ids, NEW i \in Ids, turns[i].st # "none"  PROVE i <= seq
      BY DEF IdentitiesAreFresh
    <2>1. CASE turns[i].kind # "import"
      BY <2>1 DEF HistInv, Numbered
    <2>2. CASE turns[i].kind = "import"
      <3>1. TurnOK(turns[i], ver)
        BY DEF HistInv
      <3>2. turns[i].st = "done"
        BY <2>2, <3>1 DEF TurnOK
      <3>3. i \in boot.ids
        BY <2>2, <3>2 DEF Done
      <3> QED  BY <3>3 DEF HistInv, BootOK
    <2> QED  BY <2>1, <2>2
  <1>5. BatchesAreSerial
    <2> DEFINE S == {p \in Indexers : idx[p].pc \in {"chunk", "digest", "embed"}}
    <2>1. \A p, q \in S : p = q
      BY DEF HistInv, LocksOK
    <2> HIDE DEF S
    <2>2. Cardinality(S) <= 1
      BY <2>1, <1>1
    <2> QED  BY <2>2 DEF S, BatchesAreSerial
  <1> QED  BY <1>2, <1>3, <1>4, <1>5 DEF HistorySafe

\* A delivery that is recorded again joins its turn (RecordDeliveredAssistantEvent), the agent starts only on a store
\* whose complete turns are indexed (RequireReady), no identity names two turns although imports and deletions change
\* the store (AdvanceTurnIdentity), and the indexers of the agent and of the command line never batch at once.
THEOREM HistorySafeCorrect == MemorySpec => []HistorySafe
  BY HistoryInvariant, HistMeans, PTL

LEMMA TurnsAreImmutable == HistInv /\ [HistNext]_hsVars => HistoryIsImmutable
  <1> SUFFICES ASSUME HistInv, [HistNext]_hsVars, NEW i \in Ids, turns[i].st = "done"
               PROVE  /\ turns'[i].st = "done" /\ turns'[i].kind = turns[i].kind
                      /\ turns'[i].dig # turns[i].dig => turns'[i].dig = ver /\ turns[i].dig < ver
                      /\ turns'[i].demb \in {0, turns'[i].dig}
    BY DEF HistoryIsImmutable
  <1>1. TurnStep
    BY TurnsStep, TurnsStay DEF hsVars
  <1>2. TurnKept(turns[i], turns'[i]) /\ TurnOK(turns'[i], ver)
    BY <1>1 DEF TurnStep
  <1> QED  BY <1>2 DEF TurnKept, TurnOK

(* The context of a run. *)
\* A snapshot holds the selection that was made from its groups, and none before it is ready.
Snapshots(g, i, r) == [groups : {g}, initial : {i}, ready : {r}]
IsSnapshot(s, r) == \E g, i : s \in Snapshots(g, i, r) /\ (~r => i = <<>>)
ContextInv == \E r \in BOOLEAN : IsSnapshot(snapshot, r)

LEMMA SameSnapshot ==
    ASSUME NEW g, NEW i, NEW r, NEW s \in Snapshots(g, i, r), NEW t \in Snapshots(g, i, r)
    PROVE  s = t
  BY DEF Snapshots

\* The snapshot after an attempt with the selection groups.
After(s, groups, r, ok) == Unfreeze([s EXCEPT !.initial = groups, !.ready = TRUE], ~r, ok)

LEMMA UnfreezeIs ==
    ASSUME NEW s, NEW r \in BOOLEAN, NEW ok \in BOOLEAN, NEW groups, IsSnapshot(s, r)
    PROVE  /\ \E b \in BOOLEAN : IsSnapshot(After(s, groups, r, ok), b)
           /\ ~ok /\ ~r => After(s, groups, r, ok) = s
  <1>1. PICK g, i : s \in Snapshots(g, i, r) /\ (~r => i = <<>>)
    BY DEF IsSnapshot
  <1>2. PICK t \in Snapshots(g, groups, TRUE) : t = [s EXCEPT !.initial = groups, !.ready = TRUE]
    BY <1>1 DEF Snapshots
  <1>3. CASE ~ok /\ ~r
    <2>1. After(s, groups, r, ok) = [t EXCEPT !.initial = <<>>, !.ready = FALSE]
      BY <1>2, <1>3, Zenon DEF After, Unfreeze
    <2>2. [t EXCEPT !.initial = <<>>, !.ready = FALSE] \in Snapshots(g, <<>>, FALSE)
      BY <1>2 DEF Snapshots
    <2>3. s \in Snapshots(g, <<>>, FALSE)
      BY <1>1, <1>3 DEF Snapshots
    <2>4. After(s, groups, r, ok) \in Snapshots(g, <<>>, FALSE)
      BY <2>1, <2>2, Zenon
    <2>5. After(s, groups, r, ok) = s
      BY ONLY <2>3, <2>4, SameSnapshot
    <2> QED  BY <2>3, <2>5 DEF IsSnapshot
  <1>4. CASE ok \/ r
    <2>1. After(s, groups, r, ok) = t
      BY <1>2, <1>4, Zenon DEF After, Unfreeze
    <2> QED  BY <2>1, <1>2, <1>4 DEF IsSnapshot
  <1> QED  BY <1>3, <1>4

\* One attempt of fitRequest: a selection is in place, and a failed first attempt leaves none behind.
LEMMA FitIs ==
    ASSUME ContextInv, NEW model, fitRequest(model)
    PROVE  /\ hcPhase = "prepared" /\ ContextInv'
           /\ lastFit'.first /\ ~lastFit'.ok => snapshot' = snapshot
  <1>1. PICK r \in BOOLEAN : IsSnapshot(snapshot, r)
    BY DEF ContextInv
  <1>2. PICK g, i : snapshot \in Snapshots(g, i, r)
    BY <1>1 DEF IsSnapshot
  <1>3. snapshot.ready = r
    BY ONLY <1>2 DEF Snapshots
  <1>4. PICK asm, f : Attempted(model, ~snapshot.ready, asm, f)
    BY DEF fitRequest
  <1>5. PICK ok \in BOOLEAN : ok = (asm.ok /\ f.ok)
    BY Zenon
  <1>6. /\ lastFit' = [ok |-> ok, model |-> model, first |-> ~r, tokens |-> f.tokens, groups |-> selectedGroups(f.groups)]
        /\ snapshot' = After(snapshot, asm.groups, r, ok)
    BY <1>3, <1>4, <1>5, Zenon DEF Attempted, After
  <1>7. (lastFit'.first <=> ~r) /\ (lastFit'.ok <=> ok)
    BY ONLY <1>6
  <1>8. /\ \E b \in BOOLEAN : IsSnapshot(snapshot', b)
        /\ ~ok /\ ~r => snapshot' = snapshot
    BY <1>1, <1>6, UnfreezeIs, Zenon
  <1>9. hcPhase = "prepared"
    BY DEF fitRequest
  <1>10. ContextInv'
    BY <1>8 DEF ContextInv, IsSnapshot
  <1> QED  BY <1>7, <1>8, <1>9, <1>10

LEMMA ContextStep == ContextInv /\ [HistoryContextNext]_hcVars => ContextInv' /\ SelectionIsStable
  <1> SUFFICES ASSUME ContextInv, [HistoryContextNext]_hcVars  PROVE ContextInv' /\ SelectionIsStable
    OBVIOUS
  <1>0. ASSUME NEW g, snapshot' = [groups |-> g, initial |-> <<>>, ready |-> FALSE]  PROVE ContextInv'
    <2>1. snapshot' \in Snapshots(g, <<>>, FALSE)
      BY <1>0 DEF Snapshots
    <2> QED  BY <2>1 DEF ContextInv, IsSnapshot
  <1>1. CASE \E n, older, tool, found, useful, valid, input : PrepareContext(n, older, tool, found, useful, valid, input)
    <2>1. PICK n, older, tool, found, useful, valid, input : PrepareContext(n, older, tool, found, useful, valid, input)
      BY <1>1
    <2>2. hcPhase = "idle" /\ \E g : snapshot' = [groups |-> g, initial |-> <<>>, ready |-> FALSE]
      BY <2>1 DEF PrepareContext
    <2> QED  BY <2>2, <1>0 DEF SelectionIsStable
  <1>2. CASE \E model \in DOMAIN Windows : fitRequest(model)
    <2>1. PICK model \in DOMAIN Windows : fitRequest(model)
      BY <1>2
    <2>2. /\ hcPhase = "prepared" /\ ContextInv'
          /\ lastFit'.first /\ ~lastFit'.ok => snapshot' = snapshot
      BY <2>1, FitIs
    <2> QED  BY <2>2 DEF SelectionIsStable
  <1>3. CASE ProviderFails \/ (\E size \in {1, 3} : ToolResults(size)) \/ UNCHANGED hcVars
    <2>1. snapshot' = snapshot
      BY <1>3 DEF ProviderFails, ToolResults, hcVars
    <2> QED  BY <2>1 DEF ContextInv, SelectionIsStable
  <1>4. CASE RunOver
    <2>1. hcPhase' = "idle" /\ snapshot' = [groups |-> <<>>, initial |-> <<>>, ready |-> FALSE] /\ ~lastFit'.first
      BY <1>4 DEF RunOver, NoSnapshot, NoFit
    <2> QED  BY <2>1, <1>0 DEF SelectionIsStable
  <1>5. \/ \E n, older, tool, found, useful, valid, input : PrepareContext(n, older, tool, found, useful, valid, input)
        \/ (\E model \in DOMAIN Windows : fitRequest(model)) \/ ProviderFails
        \/ (\E size \in {1, 3} : ToolResults(size)) \/ RunOver \/ UNCHANGED hcVars
    BY DEF HistoryContextNext
  <1> QED  BY <1>1, <1>2, <1>3, <1>4, <1>5

LEMMA ContextStart == HistoryContextInit => ContextInv
  <1> SUFFICES ASSUME HistoryContextInit  PROVE ContextInv
    OBVIOUS
  <1>1. snapshot \in Snapshots(<<>>, <<>>, FALSE)
    BY DEF HistoryContextInit, NoSnapshot, Snapshots
  <1> QED  BY <1>1 DEF ContextInv, IsSnapshot

(* The embedding service. *)
Recs == [doc : Paths \cup {"none"}, c : Nat]
DocRecs == {r \in Recs : r.doc \in Paths /\ r.c # 0}
Records == [Paths -> Recs]
Counts == [edits : Nat, moves : Nat, copies : Nat, syncs : Nat, faults : Nat]
JobPcs == {"none", "sources", "forget", "scan", "ensure", "clear", "classify", "checkpoint", "prune", "store", "finish"}
Jobs == [pc : JobPcs, scan : Records, todo : Seq(Paths), batch : Seq(DocRecs), full : BOOLEAN, cancel : BOOLEAN, stale : BOOLEAN]
FoundIn(scan) == {p \in Paths : scan[p].c # 0}

\* The job works on the documents of its scan: each under its path, and only those that are there.
JobOK ==
    /\ job \in Jobs
    /\ job.pc \in {"ensure", "clear", "classify", "checkpoint"} => \A p \in Paths : job.scan[p].doc = p
    /\ job.pc \in {"clear", "classify", "checkpoint"} => job.todo \in Seq(FoundIn(job.scan))
    /\ job.pc = "checkpoint" => job.batch # <<>>

IndexTyped ==
    /\ docs \in [Paths -> Nat] /\ points \in Records /\ mem \in Records /\ disk \in Records /\ coll \in BOOLEAN
    /\ quiet \in Nat /\ ecount \in Counts /\ paid \subseteq DocRecs

\* Only points that no record describes are left.
Pruned == \A i \in Paths : points[i] = Nothing \/ i \in orphan

\* A point that is no orphan has a record, in memory and in the file; none is in a collection that is gone.
PointsDescribed ==
    /\ \A i \in Paths : points[i] # Nothing => i \in orphan \/ mem[i] # Nothing
    /\ \A i \in Paths : points[i] # Nothing => i \in orphan \/ disk[i] # Nothing
    /\ ~coll => points = Empty
    /\ job.pc = "prune" => \A i \in Unseen : points[i] = Nothing
    /\ job.pc = "forget" => Pruned

\* A text that was paid for has a record, in memory and in the file.
PaidIsRecorded == \A r \in paid : (\E i \in Paths : mem[i].c = r.c) /\ (\E i \in Paths : disk[i].c = r.c)

\* A job that began after the source was removed only prunes, and then the points are gone.
RemovalSeen ==
    /\ job.stale => quiet = 0
    /\ reg = "absent" /\ quiet >= 1 => Pruned
    /\ reg = "absent" /\ ~job.stale /\ job.pc \notin {"none", "sources"} => job.pc \in {"forget", "finish"} /\ Pruned

IndexInv == IndexTyped /\ JobOK /\ PointsDescribed /\ PaidIsRecorded /\ RemovalSeen

LEMMA NothingIs == Nothing \in Recs /\ Nothing.c = 0 /\ Empty \in Records
  BY DEF Nothing, Empty, Recs, Records

LEMMA NoJobIs == NoJob \in Jobs /\ NoJob.pc = "none" /\ ~NoJob.stale
  BY NothingIs DEF NoJob, Jobs, JobPcs

LEMMA SeqParts == ASSUME NEW S, NEW s \in Seq(S), s # <<>>  PROVE Head(s) \in S /\ Tail(s) \in Seq(S)
  OBVIOUS
LEMMA SeqLonger == ASSUME NEW S, NEW s \in Seq(S), NEW x \in S  PROVE Append(s, x) \in Seq(S) /\ Len(Append(s, x)) = Len(s) + 1 /\ Last(Append(s, x)) = x
  BY DEF Last

\* A change of the documents or of the registry.
Outside == (\E p \in Paths : Edit(p) \/ Delete(p) \/ \E q \in Paths \ {p} : Move(p, q) \/ Copy(p, q)) \/ \E s \in {"enabled", "disabled", "absent"} : SetSource(s)
Drops == DropVectors \/ DropState
JobEnds == SyncFails \/ VectorsGone \/ Finish \/ Crash
JobGoesOn == Sources \/ Forget \/ Scan \/ Ensure \/ Clear \/ Classify \/ Upsert \/ Checkpoint \/ PruneVectors \/ PruneState \/ Store

LEMMA EmbedSteps ==
    EmbedNext => Outside \/ Drops \/ DropFails \/ (\E full \in BOOLEAN : StartSync(full)) \/ Cancel \/ JobEnds \/ JobGoesOn
  BY DEF EmbedNext, SyncStep, Outside, Drops, JobEnds, JobGoesOn

LEMMA OutsideIs ==
    Outside => Changed /\ UNCHANGED <<coll, points, mem, disk, jobStatus, orphan, lost, paid>>
  BY DEF Outside, Edit, Delete, Move, Copy, SetSource

\* A deletion of the collection drops the vectors, or clears the records of whatever is there by then.
LEMMA DropsAre ==
    Drops => /\ Changed /\ UNCHANGED <<docs, reg>> /\ paid' = {}
             /\ \/ /\ coll' = FALSE /\ points' = Empty /\ orphan' = {} /\ UNCHANGED <<mem, disk>>
                   /\ lost' = {p \in Paths : mem[p] # Nothing \/ disk[p] # Nothing}
                \/ /\ UNCHANGED <<coll, points>> /\ mem' = Empty /\ disk' = Empty /\ lost' = {}
                   /\ orphan' = {p \in Paths : points[p] # Nothing}
  BY DEF Drops, DropVectors, DropState, deleteCollection, Recorded

LEMMA DropFailsIs == DropFails => UNCHANGED <<docs, reg, coll, points, mem, disk, job, quiet, orphan, lost, paid>>
  BY DEF DropFails

LEMMA JobEndsIs ==
    JobEnds => /\ job' = NoJob /\ UNCHANGED <<docs, reg, coll, points, disk, orphan, lost, paid>>
               /\ UNCHANGED mem \/ mem' = disk
               /\ UNCHANGED quiet \/ Finish
  BY DEF JobEnds, SyncFails, VectorsGone, Finish, Crash, Ends

\* A job of which only the registers below change.
LEMMA JobMoves ==
    ASSUME JobOK, NEW pc \in JobPcs, job' = [job EXCEPT !.pc = pc],
           pc \notin {"ensure", "clear", "classify", "checkpoint"}
    PROVE  JobOK'
  <1>1. job' \in Jobs /\ job'.pc = pc /\ job'.scan = job.scan /\ job'.todo = job.todo /\ job'.batch = job.batch
    BY DEF JobOK, Jobs
  <1> QED  BY <1>1 DEF JobOK

LEMMA JobStep == IndexInv /\ EmbedNext => JobOK'
  <1> SUFFICES ASSUME IndexInv, EmbedNext  PROVE JobOK'
    OBVIOUS
  <1>1. job \in Jobs /\ JobOK
    BY DEF IndexInv, JobOK
  <1>2. CASE Outside \/ Drops
    <2>1. job' = [job EXCEPT !.stale = (job.pc # "none")]
      BY <1>2, OutsideIs, DropsAre DEF Changed
    <2>2. PICK s \in BOOLEAN : s = (job.pc # "none")
      BY Zenon
    <2>3. job' = [job EXCEPT !.stale = s]
      BY <2>1, <2>2, Zenon
    <2>4. job' \in Jobs /\ job'.pc = job.pc /\ job'.scan = job.scan /\ job'.todo = job.todo /\ job'.batch = job.batch
      BY <2>3, <1>1 DEF Jobs
    <2> QED  BY <2>4, <1>1 DEF JobOK
  <1>3. CASE \E full \in BOOLEAN : StartSync(full)
    <2>1. PICK full \in BOOLEAN : job' = [NoJob EXCEPT !.pc = "sources", !.full = full]
      BY <1>3 DEF StartSync
    <2>2. job' \in Jobs /\ job'.pc = "sources"
      BY <2>1, NoJobIs DEF Jobs, JobPcs
    <2> QED  BY <2>2 DEF JobOK
  <1>4. CASE Cancel
    <2>1. job' = [job EXCEPT !.cancel = TRUE]
      BY <1>4 DEF Cancel
    <2>2. job' \in Jobs /\ job'.pc = job.pc /\ job'.scan = job.scan /\ job'.todo = job.todo /\ job'.batch = job.batch
      BY <2>1, <1>1 DEF Jobs
    <2> QED  BY <2>2, <1>1 DEF JobOK
  <1>5. CASE JobEnds
    BY <1>5, JobEndsIs, NoJobIs DEF JobOK
  <1>6. CASE Sources
    <2>1. PICK pc \in {"forget", "scan", "finish"} : job' = [job EXCEPT !.pc = pc]
      BY <1>6 DEF Sources
    <2> QED  BY <2>1, <1>1, JobMoves DEF JobPcs
  <1>7. CASE Forget \/ PruneVectors \/ PruneState \/ Store
    <2>1. PICK pc \in {"prune", "store", "finish"} : job' = [job EXCEPT !.pc = pc]
      BY <1>7 DEF Forget, PruneVectors, PruneState, Store
    <2> QED  BY <2>1, <1>1, JobMoves DEF JobPcs
  <1>8. CASE Scan
    <2>1. job' = [job EXCEPT !.pc = "ensure", !.scan = [p \in Paths |-> documentsFromMarkdownFile(p)]]
      BY <1>8 DEF Scan
    <2>2. [p \in Paths |-> documentsFromMarkdownFile(p)] \in Records
      BY DEF documentsFromMarkdownFile, Records, Recs, IndexInv, IndexTyped
    <2>3. PICK scan \in Records : scan = [p \in Paths |-> documentsFromMarkdownFile(p)]
      BY <2>2
    <2>4. \A p \in Paths : scan[p].doc = p
      BY <2>3 DEF documentsFromMarkdownFile
    <2>5. job' \in Jobs /\ job'.pc = "ensure" /\ job'.scan = scan
      BY <2>1, <2>3, <1>1 DEF Jobs, JobPcs
    <2> QED  BY <2>4, <2>5 DEF JobOK
  <1>9. CASE Ensure
    <2>1. PICK pc \in {"classify", "clear"} : job' = [job EXCEPT !.pc = pc, !.todo = Scanned(job.scan)]
      BY <1>9 DEF Ensure
    <2>2. job.pc = "ensure"
      BY <1>9 DEF Ensure, At
    <2>3. Scanned(job.scan) \in Seq(FoundIn(job.scan))
      <3> DEFINE S == FoundIn(job.scan)
                 ss == [k \in DOMAIN Docs |-> IF job.scan[Docs[k]].c # 0 THEN <<Docs[k]>> ELSE <<>>]
      <3>1. Docs \in Seq(Paths) /\ DOMAIN Docs = 1..Len(Docs) /\ Len(Docs) \in Nat
        BY EmbedAssumption DEF Paths
      <3>2. \A k \in 1..Len(Docs) : Docs[k] \in Paths
        BY <3>1
      <3>3. ASSUME NEW k \in 1..Len(Docs)  PROVE (IF job.scan[Docs[k]].c # 0 THEN <<Docs[k]>> ELSE <<>>) \in Seq(S)
        <4>1. CASE job.scan[Docs[k]].c # 0
          <5>1. Docs[k] \in S
            BY <4>1, <3>2 DEF FoundIn
          <5> HIDE DEF S
          <5> QED  BY <5>1, <4>1
        <4>2. CASE ~(job.scan[Docs[k]].c # 0)
          BY <4>2
        <4> QED  BY <4>1, <4>2
      <3> HIDE DEF S
      <3>4. ss \in [1..Len(Docs) -> Seq(S)]
        BY <3>1, <3>3
      <3> HIDE DEF ss
      <3>5. ss \in Seq(Seq(S))
        BY <3>4, <3>1
      <3>6. FlattenSeq(ss) \in Seq(S)
        BY <3>5, FlattenIs
      <3> QED  BY <3>6 DEF Scanned, ss, S
    <2>4. PICK left \in Seq(FoundIn(job.scan)) : left = Scanned(job.scan)
      BY <2>3
    <2>5. left \in Seq(Paths)
      BY <2>4 DEF FoundIn
    <2>6. job' \in Jobs /\ job'.pc \in {"classify", "clear"} /\ job'.scan = job.scan /\ job'.todo = left
      BY <2>1, <2>4, <2>5, <1>1 DEF Jobs, JobPcs
    <2> QED  BY <2>6, <2>4, <2>2, <1>1 DEF JobOK
  <1>10. CASE Classify
    <2> DEFINE doc == job.scan[Head(job.todo)]
    <2>1. job.pc = "classify" /\ job.todo # <<>> /\ job.todo \in Seq(FoundIn(job.scan)) /\ \A p \in Paths : job.scan[p].doc = p
      BY <1>10, <1>1 DEF Classify, At, JobOK
    <2>2. job' = [job EXCEPT !.todo = Tail(@)] \/ job' = [[job EXCEPT !.todo = Tail(@)] EXCEPT !.batch = Append(@, doc)]
      BY <1>10 DEF Classify
    <2>3. Tail(job.todo) \in Seq(FoundIn(job.scan)) /\ Head(job.todo) \in FoundIn(job.scan)
      BY <2>1, SeqParts
    <2>4. doc \in DocRecs /\ Tail(job.todo) \in Seq(Paths)
      BY <2>1, <2>3, <1>1 DEF FoundIn, DocRecs, Jobs, Records
    <2> HIDE DEF doc
    <2>5. PICK left \in Seq(Paths) : left = Tail(job.todo)
      BY <2>4
    <2>9. job.batch \in Seq(DocRecs)
      BY <1>1 DEF Jobs
    <2>6. PICK batch \in Seq(DocRecs) : batch = Append(job.batch, doc)
      BY <2>4, <2>9, SeqLonger
    <2>7. job' = [job EXCEPT !.todo = left] \/ job' = [[job EXCEPT !.todo = left] EXCEPT !.batch = batch]
      BY <2>2, <2>5, <2>6, <1>1 DEF Jobs
    <2>8. job' \in Jobs /\ job'.pc = "classify" /\ job'.scan = job.scan /\ job'.todo = left
      BY <2>7, <2>1, <1>1 DEF Jobs, JobPcs
    <2> QED  BY <2>1, <2>3, <2>5, <2>8 DEF JobOK
  <1>11. CASE Upsert
    <2>1. job' = [job EXCEPT !.pc = "checkpoint"] /\ job.pc = "classify" /\ job.batch # <<>>
      BY <1>11 DEF Upsert, At
    <2>2. job' \in Jobs /\ job'.pc = "checkpoint" /\ job'.scan = job.scan /\ job'.todo = job.todo /\ job'.batch = job.batch
      BY <2>1, <1>1 DEF Jobs, JobPcs
    <2> QED  BY <2>1, <2>2, <1>1 DEF JobOK
  <1>12. CASE Checkpoint
    <2>1. job' = [job EXCEPT !.pc = "classify", !.batch = Tail(@)] /\ job.pc = "checkpoint" /\ job.batch # <<>>
      BY <1>12, <1>1 DEF Checkpoint, At, JobOK
    <2>4. job.batch \in Seq(DocRecs)
      BY <1>1 DEF Jobs
    <2>2. PICK batch \in Seq(DocRecs) : batch = Tail(job.batch)
      BY <2>1, <2>4, SeqParts
    <2>3. job' \in Jobs /\ job'.pc = "classify" /\ job'.scan = job.scan /\ job'.todo = job.todo
      BY <2>1, <2>2, <1>1 DEF Jobs, JobPcs
    <2> QED  BY <2>1, <2>3, <1>1 DEF JobOK
  <1>13. CASE Clear
    <2>1. job' = [job EXCEPT !.pc = "classify", !.full = TRUE] /\ job.pc = "clear"
      BY <1>13 DEF Clear, At
    <2>2. job' \in Jobs /\ job'.pc = "classify" /\ job'.scan = job.scan /\ job'.todo = job.todo
      BY <2>1, <1>1 DEF Jobs, JobPcs
    <2> QED  BY <2>1, <2>2, <1>1 DEF JobOK
  <1>14. CASE DropFails
    BY <1>14, <1>1, DropFailsIs DEF JobOK
  <1> QED  BY <1>2, <1>3, <1>4, <1>5, <1>6, <1>7, <1>8, <1>9, <1>10, <1>11, <1>12, <1>13, <1>14, EmbedSteps DEF JobGoesOn

\* The record of a point, when there is room for it: the other records with its identity are gone.
LEMMA PutPointIs ==
    ASSUME IndexTyped, NEW i \in Paths, NEW new \in DocRecs
    PROVE  /\ putPoint(i, new) \in Records /\ putPoint(i, new)[i] = new
           /\ \A j \in Paths : j # i => putPoint(i, new)[j] = IF mem[j].doc = new.doc THEN Nothing ELSE mem[j]
  <1>1. new \in Recs /\ mem \in Records
    BY DEF DocRecs, IndexTyped
  <1> QED  BY <1>1, NothingIs DEF putPoint, Records

\* What Classify does to the records: it leaves them, or a document that moved takes over the record of its text.
Adopted(i, doc) ==
    /\ i \in Paths /\ doc \in DocRecs /\ findByIdentity(doc.doc) = {} /\ mem[i].c = doc.c /\ mem' = putPoint(i, doc)
    /\ points' = IF points[i] = Nothing THEN points ELSE [points EXCEPT ![i].doc = doc.doc]
LEMMA ClassifyIs ==
    ASSUME IndexInv, Classify
    PROVE  /\ (UNCHANGED <<points, mem>>) \/ \E i, doc : Adopted(i, doc)
           /\ UNCHANGED <<docs, reg, coll, disk, jobStatus, quiet, orphan, lost, paid, ecount>> /\ job.pc = "classify" /\ job'.pc = "classify"
  <1> DEFINE p == Head(job.todo)
             doc == job.scan[p]
  <1>0. job.pc = "classify" /\ job.todo # <<>> /\ job.todo \in Seq(FoundIn(job.scan)) /\ (\A q \in Paths : job.scan[q].doc = q) /\ job \in Jobs
    BY DEF Classify, At, IndexInv, JobOK
  <1>1. p \in FoundIn(job.scan)
    BY <1>0, SeqParts
  <1>2. doc \in DocRecs /\ doc.doc = p
    BY <1>0, <1>1 DEF FoundIn, DocRecs, Jobs, Records
  <1>3. \/ UNCHANGED <<points, mem>>
        \/ /\ findByIdentity(p) = {}
           /\ \E i \in findByContentHash(doc.c) :
                /\ points' = IF points[i] = Nothing THEN points ELSE [points EXCEPT ![i].doc = p]
                /\ mem' = putPoint(i, doc)
    BY DEF Classify
  <1>4. UNCHANGED <<docs, reg, coll, disk, jobStatus, quiet, orphan, lost, paid, ecount>>
    BY DEF Classify
  <1>5. job' = [job EXCEPT !.todo = Tail(@)] \/ job' = [[job EXCEPT !.todo = Tail(@)] EXCEPT !.batch = Append(@, doc)]
    BY DEF Classify
  <1> HIDE DEF p, doc
  <1>6. job'.pc = "classify"
    BY <1>0, <1>5 DEF Jobs
  <1>7. \A i : i \in findByContentHash(doc.c) => i \in Paths /\ mem[i].c = doc.c
    BY DEF findByContentHash
  <1> QED  BY <1>0, <1>2, <1>3, <1>4, <1>6, <1>7 DEF Adopted

\* What Checkpoint does: the record of the batch's document is written, in memory and in the file.
Written(doc) ==
    /\ doc \in DocRecs /\ mem' = putPoint(doc.doc, doc) /\ disk' = mem'
    /\ paid' = {doc} \cup {r \in paid : \A j \in {doc.doc} \cup Dropped(putPoint(doc.doc, doc)) : r.c # mem[j].c}
    /\ orphan' = (orphan \cup Dropped(putPoint(doc.doc, doc))) \ {doc.doc}
    /\ lost' = IF points[doc.doc] = doc THEN lost \ {doc.doc} ELSE lost \cup {doc.doc}
LEMMA CheckpointIs ==
    ASSUME IndexInv, Checkpoint
    PROVE  /\ \E doc : Written(doc)
           /\ UNCHANGED <<docs, reg, coll, points, jobStatus, quiet, ecount>> /\ job.pc = "checkpoint" /\ job'.pc = "classify"
  <1>1. job.pc = "checkpoint" /\ job.batch # <<>> /\ job \in Jobs
    BY DEF Checkpoint, At, IndexInv, JobOK
  <1>2. job.batch \in Seq(DocRecs)
    BY <1>1 DEF Jobs
  <1>3. Head(job.batch) \in DocRecs
    BY <1>1, <1>2, SeqParts
  <1>4. job' = [job EXCEPT !.pc = "classify", !.batch = Tail(@)]
    BY DEF Checkpoint
  <1>5. job'.pc = "classify"
    BY <1>1, <1>4 DEF Jobs
  <1> QED  BY <1>1, <1>3, <1>5 DEF Checkpoint, Checkpointed, Recorded, Written

\* Upsert writes the vector of the batch's document to the point of its path.
LEMMA UpsertIs ==
    ASSUME IndexInv, Upsert
    PROVE  /\ \E doc \in DocRecs : points' = [points EXCEPT ![doc.doc] = doc] /\ orphan' = orphan \cup {doc.doc}
           /\ UNCHANGED <<docs, reg, coll, mem, disk, jobStatus, quiet, lost, paid, ecount>> /\ coll /\ job.pc = "classify"
           /\ job'.pc = "checkpoint"
  <1>1. job.pc = "classify" /\ job.batch # <<>> /\ job \in Jobs /\ coll
    BY DEF Upsert, At, IndexInv, JobOK
  <1>2. job.batch \in Seq(DocRecs)
    BY <1>1 DEF Jobs
  <1>3. Head(job.batch) \in DocRecs
    BY <1>1, <1>2, SeqParts
  <1>4. job' = [job EXCEPT !.pc = "checkpoint"]
    BY DEF Upsert
  <1>5. job'.pc = "checkpoint"
    BY <1>1, <1>4 DEF Jobs
  <1> QED  BY <1>1, <1>3, <1>5 DEF Upsert, deterministicPointID

LEMMA CountIs ==
    ASSUME ecount \in Counts, NEW what \in {"edits", "moves", "copies", "syncs", "faults"}, NEW max, Count(what, max)
    PROVE  ecount' \in Counts
  BY DEF Counts, Count

LEMMA CountsStep == IndexInv /\ EmbedNext => ecount' \in Counts
  <1>1. IndexInv => ecount \in Counts
    BY DEF IndexInv, IndexTyped
  <1>2. EmbedNext => UNCHANGED ecount \/ \E max : \E what \in {"edits", "moves", "copies", "syncs", "faults"} : Count(what, max)
    <2>1. Outside \/ DropVectors \/ DropFails \/ Cancel \/ (\E full \in BOOLEAN : StartSync(full))
             => \E max : \E what \in {"edits", "moves", "copies", "syncs", "faults"} : Count(what, max)
      BY DEF Outside, Edit, Delete, Move, Copy, SetSource, DropVectors, DropFails, Cancel, StartSync
    <2>2. JobEnds => UNCHANGED ecount \/ \E max : \E what \in {"edits", "moves", "copies", "syncs", "faults"} : Count(what, max)
      BY DEF JobEnds, SyncFails, VectorsGone, Finish, Crash
    <2>3. DropState \/ JobGoesOn => UNCHANGED ecount
      BY DEF DropState, JobGoesOn, Sources, Forget, Scan, Ensure, Clear, Classify, Upsert, Checkpoint, PruneVectors, PruneState, Store
    <2> QED  BY <2>1, <2>2, <2>3, EmbedSteps DEF Drops
  <1> QED  BY <1>1, <1>2, CountIs

LEMMA IndexTypedStep == IndexInv /\ EmbedNext => IndexTyped'
  <1> SUFFICES ASSUME IndexInv, EmbedNext  PROVE IndexTyped'
    OBVIOUS
  <1>0. /\ docs \in [Paths -> Nat] /\ points \in Records /\ mem \in Records /\ disk \in Records /\ coll \in BOOLEAN
        /\ quiet \in Nat /\ ecount \in Counts /\ paid \subseteq DocRecs
    BY DEF IndexInv, IndexTyped
  <1>1. ecount' \in Counts
    BY CountsStep
  <1>2. CASE Outside
    <2>1. UNCHANGED <<coll, points, mem, disk, orphan, paid>> /\ quiet' = 0
      BY <1>2, OutsideIs DEF Changed
    <2>2. docs' \in [Paths -> Nat]
      <3>1. ecount.edits + 1 \in Nat
        BY <1>0 DEF Counts
      <3>2. ASSUME NEW p \in Paths, Edit(p)  PROVE docs' \in [Paths -> Nat]
        BY <3>1, <3>2, <1>0 DEF Edit
      <3>3. ASSUME NEW p \in Paths, Delete(p)  PROVE docs' \in [Paths -> Nat]
        BY <3>3, <1>0 DEF Delete
      <3>4. ASSUME NEW p \in Paths, NEW q \in Paths, Move(p, q) \/ Copy(p, q)  PROVE docs' \in [Paths -> Nat]
        BY <3>4, <1>0 DEF Move, Copy
      <3>5. (\E s \in {"enabled", "disabled", "absent"} : SetSource(s)) => docs' = docs
        BY DEF SetSource
      <3> QED  BY <1>2, <3>2, <3>3, <3>4, <3>5, <1>0 DEF Outside
    <2> QED  BY <1>0, <1>1, <2>1, <2>2 DEF IndexTyped
  <1>3. CASE Drops \/ DropFails
    <2>1. CASE Drops
      <3>1. /\ quiet' = 0 /\ UNCHANGED docs /\ points' \in {points, Empty} /\ mem' \in {mem, Empty} /\ disk' \in {disk, Empty}
            /\ coll' = FALSE \/ UNCHANGED coll
            /\ paid' = {}
        BY <2>1, DropsAre DEF Changed
      <3>2. coll' \in BOOLEAN
        BY <3>1, <1>0
      <3> QED  BY <1>0, <1>1, <3>1, <3>2, NothingIs DEF IndexTyped
    <2>2. CASE DropFails
      BY <2>2, <1>0, <1>1, DropFailsIs DEF IndexTyped
    <2> QED  BY <1>3, <2>1, <2>2
  <1>4. CASE (\E full \in BOOLEAN : StartSync(full)) \/ Cancel
    <2>1. quiet' \in {0, quiet} /\ UNCHANGED <<docs, coll, points, mem, disk, paid>>
      BY <1>4 DEF StartSync, Cancel
    <2> QED  BY <1>0, <1>1, <2>1 DEF IndexTyped
  <1>5. CASE JobEnds
    <2>2. Finish => quiet' \in {quiet, quiet + 1, Len(Docs)}
      BY DEF Finish
    <2>3. Len(Docs) \in Nat
      BY EmbedAssumption
    <2>1. quiet' \in Nat
      BY <1>0, <1>5, <2>2, <2>3, JobEndsIs
    <2> QED  BY <1>0, <1>1, <1>5, <2>1, JobEndsIs DEF IndexTyped
  <1>6. CASE Sources
    <2>1. pruneRemovedSources \in Records
      BY <1>0, NothingIs DEF pruneRemovedSources, Records
    <2>2. UNCHANGED <<docs, coll, quiet, mem, disk, paid>> /\ points' \in {points, pruneRemovedSources}
      BY <1>6 DEF Sources
    <2> QED  BY <1>0, <1>1, <2>1, <2>2 DEF IndexTyped
  <1>7. CASE Scan
    BY <1>0, <1>1, <1>7 DEF Scan, IndexTyped
  <1>8. CASE Ensure
    BY <1>0, <1>1, <1>8 DEF Ensure, IndexTyped
  <1>9. CASE Classify
    <2>1. ASSUME NEW i, NEW doc, Adopted(i, doc)  PROVE points' \in Records /\ mem' \in Records
      <3>1. mem' \in Records
        BY <2>1, PutPointIs DEF Adopted, IndexInv
      <3>2. doc.doc \in Paths /\ i \in Paths /\ points[i] \in Recs
        BY <2>1, <1>0 DEF Adopted, DocRecs, Records
      <3>3. [points[i] EXCEPT !.doc = doc.doc] \in Recs
        BY <3>2 DEF Recs
      <3>4. points' = points \/ points' = [points EXCEPT ![i] = [points[i] EXCEPT !.doc = doc.doc]]
        BY <2>1, <1>0, <3>2 DEF Adopted, Records
      <3> QED  BY <3>1, <3>2, <3>3, <3>4, <1>0 DEF Records
    <2> QED  BY <1>0, <1>1, <1>9, <2>1, ClassifyIs DEF IndexTyped
  <1>10. CASE Upsert
    <2>1. PICK doc \in DocRecs : points' = [points EXCEPT ![doc.doc] = doc]
      BY <1>10, UpsertIs
    <2>2. points' \in Records
      BY <2>1, <1>0 DEF DocRecs, Records
    <2> QED  BY <1>0, <1>1, <1>10, <2>2, UpsertIs DEF IndexTyped
  <1>11. CASE Checkpoint
    <2>1. PICK doc : Written(doc)
      BY <1>11, CheckpointIs
    <2>2. doc \in DocRecs /\ doc.doc \in Paths
      BY <2>1 DEF Written, DocRecs
    <2>3. mem' \in Records /\ disk' \in Records
      BY <2>1, <2>2, PutPointIs DEF Written, IndexInv
    <2>4. paid' \subseteq DocRecs
      BY <2>1, <2>2, <1>0 DEF Written
    <2> QED  BY <1>0, <1>1, <1>11, <2>3, <2>4, CheckpointIs DEF IndexTyped
  <1>12. CASE PruneVectors
    <2>1. points' \in Records
      BY <1>12, <1>0, NothingIs DEF PruneVectors, Records
    <2> QED  BY <1>0, <1>1, <1>12, <2>1 DEF PruneVectors, IndexTyped
  <1>13. CASE PruneState
    <2>1. mem' \in Records /\ paid' \subseteq DocRecs
      BY <1>13, <1>0, NothingIs DEF PruneState, Records
    <2> QED  BY <1>0, <1>1, <1>13, <2>1 DEF PruneState, IndexTyped
  <1>14. CASE Store
    BY <1>0, <1>1, <1>14 DEF Store, IndexTyped
  <1>15. CASE Forget \/ Clear
    <2>1. UNCHANGED <<docs, coll, points, quiet>> /\ mem' = Empty /\ disk' = Empty /\ paid' = {}
      BY <1>15 DEF Forget, Clear, deleteCollection, Recorded
    <2> QED  BY <1>0, <1>1, <2>1, NothingIs DEF IndexTyped
  <1> QED  BY <1>2, <1>3, <1>4, <1>5, <1>6, <1>7, <1>8, <1>9, <1>10, <1>11, <1>12, <1>13, <1>14, <1>15, EmbedSteps DEF JobGoesOn

LEMMA PaidStep == IndexInv /\ EmbedNext => PaidIsRecorded'
  <1> SUFFICES ASSUME IndexInv, EmbedNext  PROVE PaidIsRecorded'
    OBVIOUS
  <1>0. /\ mem \in Records /\ disk \in Records /\ paid \subseteq DocRecs
        /\ \A r \in paid : (\E i \in Paths : mem[i].c = r.c) /\ (\E i \in Paths : disk[i].c = r.c)
    BY DEF IndexInv, IndexTyped, PaidIsRecorded
  <1>1. CASE paid' = {}
    BY <1>1 DEF PaidIsRecorded
  <1>2. CASE paid' = paid /\ (mem' = mem \/ mem' = disk) /\ (disk' = disk \/ disk' = mem)
    BY <1>0, <1>2 DEF PaidIsRecorded
  <1>3. CASE Classify
    <2>1. paid' = paid /\ disk' = disk
      BY <1>3, ClassifyIs
    <2>2. CASE UNCHANGED mem
      BY <2>1, <2>2, <1>2
    <2>3. ASSUME NEW i, NEW doc, Adopted(i, doc)  PROVE PaidIsRecorded'
      <3>1. i \in Paths /\ doc \in DocRecs /\ mem[i].c = doc.c /\ mem' = putPoint(i, doc) /\ IndexTyped
        BY <2>3 DEF Adopted, IndexInv
      <3>2. \A j \in Paths : mem[j].doc # doc.doc
        BY <2>3 DEF Adopted, findByIdentity
      <3>3. \A j \in Paths : mem'[j] = IF j = i THEN doc ELSE mem[j]
        BY <3>1, <3>2, PutPointIs
      <3>4. \A j \in Paths : mem'[j].c = mem[j].c
        BY <3>1, <3>3
      <3> QED  BY <3>4, <2>1, <1>0 DEF PaidIsRecorded
    <2> QED  BY <1>3, <2>2, <2>3, ClassifyIs
  <1>4. CASE Checkpoint
    <2>1. PICK doc : Written(doc)
      BY <1>4, CheckpointIs
    <2>2. doc \in DocRecs /\ doc.doc \in Paths /\ mem' = putPoint(doc.doc, doc) /\ disk' = mem' /\ IndexTyped
      BY <2>1 DEF Written, DocRecs, IndexInv
    <2>3. mem'[doc.doc] = doc /\ \A j \in Paths : j # doc.doc => mem'[j] = IF mem[j].doc = doc.doc THEN Nothing ELSE mem[j]
      BY <2>2, PutPointIs
    <2>4. ASSUME NEW r \in paid, \A j \in {doc.doc} \cup Dropped(putPoint(doc.doc, doc)) : r.c # mem[j].c
          PROVE  \E i \in Paths : mem'[i].c = r.c
      <3>1. PICK i \in Paths : mem[i].c = r.c
        BY <1>0
      <3>2. r.c # 0
        BY <1>0 DEF DocRecs
      <3>3. i # doc.doc /\ mem[i] # Nothing
        BY <3>1, <3>2, <2>4, NothingIs
      <3>4. i \notin Dropped(putPoint(doc.doc, doc))
        BY <3>1, <2>4
      <3>5. mem'[i] # Nothing
        BY <3>3, <3>4, <2>2 DEF Dropped
      <3>6. mem'[i] = mem[i]
        BY <3>3, <3>5, <2>3
      <3> QED  BY <3>1, <3>6
    <2>5. \A r \in paid' : r = doc \/ (r \in paid /\ \A j \in {doc.doc} \cup Dropped(putPoint(doc.doc, doc)) : r.c # mem[j].c)
      BY <2>1 DEF Written
    <2>6. \A r \in paid' : \E i \in Paths : mem'[i].c = r.c
      BY <2>2, <2>3, <2>4, <2>5
    <2> QED  BY <2>2, <2>6 DEF PaidIsRecorded
  <1>5. CASE PruneState
    <2>1. mem' = [p \in Paths |-> IF p \in Unseen THEN Nothing ELSE mem[p]] /\ disk' = disk
          /\ paid' = {r \in paid : \A p \in Unseen : r.c # mem[p].c}
      BY <1>5 DEF PruneState
    <2>2. ASSUME NEW r \in paid'  PROVE \E i \in Paths : mem'[i].c = r.c
      <3>1. r \in paid /\ \A p \in Unseen : r.c # mem[p].c
        BY <2>1
      <3>2. PICK i \in Paths : mem[i].c = r.c
        BY <3>1, <1>0
      <3>3. i \notin Unseen
        BY <3>1, <3>2
      <3> QED  BY <2>1, <3>2, <3>3
    <2> QED  BY <2>1, <2>2, <1>0 DEF PaidIsRecorded
  <1>6. Outside => paid' = paid /\ mem' = mem /\ disk' = disk
    BY OutsideIs
  <1>7. JobEnds => paid' = paid /\ (mem' = mem \/ mem' = disk) /\ disk' = disk
    BY JobEndsIs
  <1>8. Sources \/ Ensure \/ DropFails => paid' = paid /\ mem' = mem /\ disk' = disk
    BY DropFailsIs DEF Sources, Ensure
  <1>9. Scan \/ Upsert \/ PruneVectors \/ Store \/ Cancel \/ (\E full \in BOOLEAN : StartSync(full)) => paid' = paid /\ mem' = mem /\ (disk' = disk \/ disk' = mem)
    BY DEF Scan, Upsert, PruneVectors, Store, Cancel, StartSync
  <1>10. Drops \/ Forget \/ Clear => paid' = {}
    BY DropsAre DEF Forget, Clear, deleteCollection
  <1> QED  BY <1>1, <1>2, <1>3, <1>4, <1>5, <1>6, <1>7, <1>8, <1>9, <1>10, EmbedSteps DEF JobGoesOn

LEMMA PointsStep == IndexInv /\ EmbedNext => PointsDescribed'
  <1> SUFFICES ASSUME IndexInv, EmbedNext  PROVE PointsDescribed'
    OBVIOUS
  <1>0. /\ mem \in Records /\ disk \in Records /\ points \in Records /\ job \in Jobs
        /\ \A i \in Paths : points[i] # Nothing => i \in orphan \/ mem[i] # Nothing
        /\ \A i \in Paths : points[i] # Nothing => i \in orphan \/ disk[i] # Nothing
        /\ ~coll => points = Empty
        /\ job.pc = "prune" => \A i \in Unseen : points[i] = Nothing
        /\ job.pc = "forget" => Pruned
    BY DEF IndexInv, IndexTyped, JobOK, PointsDescribed
  <1>00. \A i \in Paths : Empty[i] = Nothing
    BY DEF Empty
  <1>1. ASSUME UNCHANGED <<coll, points, mem, disk, orphan>>, (job'.pc = job.pc /\ job'.scan = job.scan) \/ job'.pc \notin {"prune", "forget"}  PROVE PointsDescribed'
    <2>1. job'.pc = "prune" => Unseen' = Unseen /\ job.pc = "prune"
      BY <1>1 DEF Unseen
    <2>2. job'.pc = "forget" => Pruned'
      BY <1>0, <1>1 DEF Pruned
    <2> QED  BY <1>0, <1>1, <2>1, <2>2 DEF PointsDescribed
  <1>2. CASE Outside
    <2>1. job' = [job EXCEPT !.stale = (job.pc # "none")]
      BY <1>2, OutsideIs DEF Changed
    <2>2. PICK s \in BOOLEAN : s = (job.pc # "none")
      BY Zenon
    <2>3. job' = [job EXCEPT !.stale = s]
      BY <2>1, <2>2, Zenon
    <2>4. job'.pc = job.pc /\ job'.scan = job.scan
      BY <2>3, <1>0 DEF Jobs
    <2> QED  BY <2>4, <1>1, <1>2, OutsideIs
  <1>3. CASE Drops
    <2>1. CASE points' = Empty
      BY <2>1, <1>00 DEF PointsDescribed, Pruned, Unseen
    <2>2. CASE /\ UNCHANGED <<coll, points>> /\ mem' = Empty
               /\ orphan' = {p \in Paths : points[p] # Nothing}
      <3>1. Unseen' = {}
        BY <2>2, <1>00 DEF Unseen
      <3> QED  BY <2>2, <3>1, <1>0 DEF PointsDescribed, Pruned
    <2> QED  BY <1>3, <2>1, <2>2, DropsAre
  <1>4. CASE (\E full \in BOOLEAN : StartSync(full)) \/ Cancel
    <2>1. UNCHANGED <<coll, points, mem, disk, orphan>> /\ (job' = [job EXCEPT !.cancel = TRUE] \/ \E full \in BOOLEAN : job' = [NoJob EXCEPT !.pc = "sources", !.full = full])
      BY <1>4 DEF StartSync, Cancel
    <2>2. (job'.pc = job.pc /\ job'.scan = job.scan) \/ job'.pc = "sources"
      BY <2>1, <1>0, NoJobIs DEF Jobs
    <2> QED  BY <2>1, <2>2, <1>1
  <1>5. CASE JobEnds
    <2>1. job'.pc = "none" /\ UNCHANGED <<coll, points, disk, orphan>> /\ (mem' = mem \/ mem' = disk)
      BY <1>5, JobEndsIs, NoJobIs
    <2> QED  BY <2>1, <1>0 DEF PointsDescribed
  <1>6. CASE Sources
    <2>1. PICK pc \in {"forget", "scan", "finish"} :
            /\ job' = [job EXCEPT !.pc = pc]
            /\ (pc # "forget" /\ UNCHANGED points) \/ (pc = "forget" /\ points' = pruneRemovedSources)
      BY <1>6 DEF Sources
    <2>2. job'.pc = pc
      BY <2>1, <1>0 DEF Jobs
    <2>3. UNCHANGED <<coll, mem, disk, orphan>>
      BY <1>6 DEF Sources
    <2>4. CASE pc = "forget" /\ points' = pruneRemovedSources
      <3>1. \A i \in Paths : points'[i] = IF mem[i] # Nothing THEN Nothing ELSE points[i]
        BY <2>4 DEF pruneRemovedSources
      <3>2. ~coll => points' = Empty
        BY <2>4, <1>0, <1>00 DEF pruneRemovedSources, Empty
      <3>3. Pruned'
        BY <3>1, <2>3, <1>0 DEF Pruned
      <3> QED  BY <3>1, <3>2, <3>3, <2>2, <2>3, <2>4, <1>0 DEF PointsDescribed
    <2> QED  BY <2>1, <2>2, <2>3, <2>4, <1>1
  <1>7. CASE Scan
    <2>1. job' = [job EXCEPT !.pc = "ensure", !.scan = [p \in Paths |-> documentsFromMarkdownFile(p)]]
      BY <1>7 DEF Scan
    <2>2. job'.pc = "ensure"
      BY <2>1, <1>0 DEF Jobs
    <2> QED  BY <2>2, <1>1, <1>7 DEF Scan
  <1>8. CASE Ensure
    <2>1. PICK pc \in {"classify", "clear"} : job' = [job EXCEPT !.pc = pc, !.todo = Scanned(job.scan)]
      BY <1>8 DEF Ensure
    <2>2. job'.pc = pc
      BY <2>1, <1>0 DEF Jobs
    <2>3. UNCHANGED <<points, mem, disk, orphan>> /\ coll' = TRUE
      BY <1>8 DEF Ensure
    <2> QED  BY <2>2, <2>3, <1>0 DEF PointsDescribed
  <1>9. CASE Classify
    <2>1. UNCHANGED <<coll, disk, orphan>> /\ job'.pc = "classify"
      BY <1>9, ClassifyIs
    <2>2. CASE UNCHANGED <<points, mem>>
      BY <2>1, <2>2, <1>1
    <2>3. ASSUME NEW i, NEW doc, Adopted(i, doc)  PROVE PointsDescribed'
      <3>1. i \in Paths /\ doc \in DocRecs /\ mem[i].c = doc.c /\ mem' = putPoint(i, doc) /\ IndexTyped /\ doc # Nothing
        BY <2>3, NothingIs DEF Adopted, IndexInv, DocRecs
      <3>2. \A j \in Paths : mem[j].doc # doc.doc
        BY <2>3 DEF Adopted, findByIdentity
      <3>3. \A j \in Paths : mem'[j] = IF j = i THEN doc ELSE mem[j]
        BY <3>1, <3>2, PutPointIs
      <3>4. \A j \in Paths : points[j] = Nothing => points'[j] = Nothing
        BY <2>3, <1>0 DEF Adopted, Records
      <3>5. ~coll => points' = points
        BY <2>3, <3>1, <1>0, <1>00 DEF Adopted
      <3> QED  BY <3>1, <3>3, <3>4, <3>5, <2>1, <1>0 DEF PointsDescribed
    <2> QED  BY <1>9, <2>2, <2>3, ClassifyIs
  <1>10. CASE Upsert
    <2>1. PICK doc \in DocRecs : points' = [points EXCEPT ![doc.doc] = doc] /\ orphan' = orphan \cup {doc.doc}
      BY <1>10, UpsertIs
    <2>2. coll /\ UNCHANGED <<coll, mem, disk>> /\ job'.pc = "checkpoint"
      BY <1>10, UpsertIs
    <2>3. \A j \in Paths : j # doc.doc => points'[j] = points[j]
      BY <2>1, <1>0 DEF Records
    <2> QED  BY <2>1, <2>2, <2>3, <1>0 DEF PointsDescribed
  <1>11. CASE Checkpoint
    <2>1. PICK doc : Written(doc)
      BY <1>11, CheckpointIs
    <2>2. doc \in DocRecs /\ doc.doc \in Paths /\ mem' = putPoint(doc.doc, doc) /\ disk' = mem' /\ IndexTyped /\ doc # Nothing
      BY <2>1, NothingIs DEF Written, DocRecs, IndexInv
    <2>3. mem'[doc.doc] = doc
      BY <2>2, PutPointIs
    <2>4. orphan' = (orphan \cup Dropped(putPoint(doc.doc, doc))) \ {doc.doc} /\ UNCHANGED <<coll, points>> /\ job'.pc = "classify"
      BY <2>1, <1>11, CheckpointIs DEF Written
    <2>5. \A j \in Paths : mem[j] # Nothing /\ mem'[j] = Nothing => j \in Dropped(putPoint(doc.doc, doc))
      BY <2>2 DEF Dropped
    <2>6. \A j \in Paths : points'[j] # Nothing => j \in orphan' \/ mem'[j] # Nothing
      BY <2>2, <2>3, <2>4, <2>5, <1>0
    <2> QED  BY <2>2, <2>4, <2>6, <1>0 DEF PointsDescribed
  <1>12. CASE PruneVectors
    <2>1. points' = [p \in Paths |-> IF p \in Unseen THEN Nothing ELSE points[p]]
          /\ UNCHANGED <<coll, mem, disk, orphan>> /\ job' = [job EXCEPT !.pc = "prune"]
      BY <1>12 DEF PruneVectors
    <2>2. job'.scan = job.scan /\ job'.pc = "prune"
      BY <2>1, <1>0 DEF Jobs
    <2>3. Unseen' = Unseen /\ Unseen \subseteq Paths
      BY <2>1, <2>2 DEF Unseen
    <2>4. ~coll => points' = Empty
      BY <2>1, <1>0, <1>00 DEF Empty
    <2> QED  BY <2>1, <2>2, <2>3, <2>4, <1>0 DEF PointsDescribed
  <1>13. CASE PruneState
    <2>1. mem' = [p \in Paths |-> IF p \in Unseen THEN Nothing ELSE mem[p]] /\ UNCHANGED <<coll, points, disk, orphan>>
          /\ job.pc = "prune" /\ job' = [job EXCEPT !.pc = "store"]
      BY <1>13 DEF PruneState, At
    <2>2. job'.pc = "store"
      BY <2>1, <1>0 DEF Jobs
    <2> QED  BY <2>1, <2>2, <1>0 DEF PointsDescribed
  <1>14. CASE Store
    <2>1. disk' = mem /\ orphan' = {i \in orphan : points[i] # Nothing \/ mem[i] # Nothing} /\ UNCHANGED <<coll, points, mem>>
          /\ job' = [job EXCEPT !.pc = "finish"]
      BY <1>14 DEF Store
    <2>2. job'.pc = "finish"
      BY <2>1, <1>0 DEF Jobs
    <2> QED  BY <2>1, <2>2, <1>0 DEF PointsDescribed
  <1>15. CASE Forget
    <2>1. UNCHANGED <<coll, points, orphan>> /\ job.pc = "forget" /\ job' = [job EXCEPT !.pc = "finish"]
      BY <1>15 DEF Forget, At
    <2>2. job'.pc = "finish"
      BY <2>1, <1>0 DEF Jobs
    <2> QED  BY <2>1, <2>2, <1>0 DEF PointsDescribed, Pruned
  <1>16. CASE Clear
    <2>1. UNCHANGED <<coll, points>> /\ orphan' = {p \in Paths : points[p] # Nothing}
          /\ job' = [job EXCEPT !.pc = "classify", !.full = TRUE]
      BY <1>16 DEF Clear, deleteCollection
    <2>2. job'.pc = "classify"
      BY <2>1, <1>0 DEF Jobs
    <2> QED  BY <2>1, <2>2, <1>0 DEF PointsDescribed
  <1>17. CASE DropFails
    BY <1>17, <1>1, DropFailsIs
  <1> QED  BY <1>2, <1>3, <1>4, <1>5, <1>6, <1>7, <1>8, <1>9, <1>10, <1>11, <1>12, <1>13, <1>14, <1>15, <1>16, <1>17, EmbedSteps DEF JobGoesOn

\* While a job is beyond its list of sources, a step of it changes neither the registry nor what was noted of it.
LEMMA GoesOnIs ==
    ASSUME IndexInv, JobGoesOn, ~Sources
    PROVE  UNCHANGED <<reg, quiet>> /\ job.pc \notin {"none", "sources", "finish"} /\ (job'.stale <=> job.stale)
  <1>0. job \in Jobs /\ UNCHANGED <<reg, quiet>>
    BY DEF IndexInv, JobOK, JobGoesOn, Forget, Scan, Ensure, Clear, Classify, Upsert, Checkpoint, PruneVectors, PruneState, Store
  <1>1. CASE Scan
    <2>1. \E scan : job' = [job EXCEPT !.pc = "ensure", !.scan = scan]
      BY <1>1 DEF Scan
    <2> QED  BY <1>0, <1>1, <2>1 DEF Scan, At, Jobs
  <1>2. CASE Ensure
    <2>1. \E pc, left : job' = [job EXCEPT !.pc = pc, !.todo = left]
      BY <1>2 DEF Ensure
    <2> QED  BY <1>0, <1>2, <2>1 DEF Ensure, At, Jobs
  <1>3. CASE Classify
    <2>1. (\E left : job' = [job EXCEPT !.todo = left]) \/ \E left, batch : job' = [[job EXCEPT !.todo = left] EXCEPT !.batch = batch]
      BY <1>3 DEF Classify
    <2> QED  BY <1>0, <1>3, <2>1 DEF Classify, At, Jobs
  <1>4. CASE Checkpoint
    <2>1. \E batch : job' = [job EXCEPT !.pc = "classify", !.batch = batch]
      BY <1>4 DEF Checkpoint
    <2> QED  BY <1>0, <1>4, <2>1 DEF Checkpoint, At, Jobs
  <1>5. CASE Forget \/ Upsert \/ PruneVectors \/ PruneState \/ Store
    <2>1. \E pc \in JobPcs : job' = [job EXCEPT !.pc = pc]
      BY <1>5 DEF Forget, Upsert, PruneVectors, PruneState, Store, JobPcs
    <2> QED  BY <1>0, <1>5, <2>1 DEF Forget, Upsert, PruneVectors, PruneState, Store, At, Jobs
  <1>6. CASE Clear
    <2>1. job' = [job EXCEPT !.pc = "classify", !.full = TRUE]
      BY <1>6 DEF Clear
    <2> QED  BY <1>0, <1>6, <2>1 DEF Clear, At, Jobs
  <1> QED  BY <1>1, <1>2, <1>3, <1>4, <1>5, <1>6 DEF JobGoesOn

LEMMA RemovalStep == IndexInv /\ EmbedNext => RemovalSeen'
  <1> SUFFICES ASSUME IndexInv, EmbedNext  PROVE RemovalSeen'
    OBVIOUS
  <1>0. /\ job \in Jobs /\ quiet \in Nat
        /\ job.stale => quiet = 0
        /\ reg = "absent" /\ quiet >= 1 => Pruned
        /\ reg = "absent" /\ ~job.stale /\ job.pc \notin {"none", "sources"} => job.pc \in {"forget", "finish"} /\ Pruned
    BY DEF IndexInv, IndexTyped, JobOK, RemovalSeen
  <1>1. CASE Outside \/ Drops
    <2>1. quiet' = 0 /\ job' = [job EXCEPT !.stale = (job.pc # "none")]
      BY <1>1, OutsideIs, DropsAre DEF Changed
    <2>2. PICK s \in BOOLEAN : s = (job.pc # "none")
      BY Zenon
    <2>3. job' = [job EXCEPT !.stale = s]
      BY <2>1, <2>2, Zenon
    <2>4. job'.pc = job.pc /\ (job'.stale <=> s)
      BY <2>3, <1>0 DEF Jobs
    <2>5. job.pc # "none" => s
      BY <2>2, Zenon
    <2> QED  BY <2>1, <2>4, <2>5 DEF RemovalSeen
  <1>2. CASE \E full \in BOOLEAN : StartSync(full)
    <2>1. UNCHANGED <<reg, points, orphan>> /\ quiet' \in {0, quiet} /\ \E full \in BOOLEAN : job' = [NoJob EXCEPT !.pc = "sources", !.full = full]
      BY <1>2 DEF StartSync
    <2>2. job'.pc = "sources" /\ ~job'.stale
      BY <2>1, NoJobIs DEF Jobs
    <2> QED  BY <2>1, <2>2, <1>0 DEF RemovalSeen, Pruned
  <1>3. CASE Cancel
    <2>1. UNCHANGED <<reg, quiet, points, orphan>> /\ job' = [job EXCEPT !.cancel = TRUE]
      BY <1>3 DEF Cancel
    <2>2. job'.pc = job.pc /\ (job'.stale <=> job.stale)
      BY <2>1, <1>0 DEF Jobs
    <2> QED  BY <2>1, <2>2, <1>0 DEF RemovalSeen, Pruned
  <1>4. CASE JobEnds
    <2>1. job'.pc = "none" /\ ~job'.stale /\ UNCHANGED <<reg, points, orphan>>
      BY <1>4, JobEndsIs, NoJobIs
    <2>2. CASE quiet' = quiet
      BY <2>1, <2>2, <1>0 DEF RemovalSeen, Pruned
    <2>3. CASE Finish
      <3>1. job.stale => quiet' = quiet
        BY <2>3 DEF Finish
      <3>2. ~job.stale /\ reg = "absent" => Pruned
        BY <2>3, <1>0 DEF Finish
      <3> QED  BY <2>1, <3>1, <3>2, <1>0 DEF RemovalSeen, Pruned
    <2> QED  BY <1>4, <2>2, <2>3, JobEndsIs
  <1>5. CASE Sources
    <2>1. UNCHANGED <<reg, quiet, orphan>> /\ \E pc \in {"forget", "scan", "finish"} : job' = [job EXCEPT !.pc = pc] /\ (reg = "absent" => pc = "forget")
      BY <1>5 DEF Sources
    <2>2. (job'.stale <=> job.stale) /\ (reg = "absent" => job'.pc = "forget")
      BY <2>1, <1>0 DEF Jobs
    <2>3. reg = "absent" => Pruned'
      <3>1. SUFFICES ASSUME reg = "absent"  PROVE Pruned'
        OBVIOUS
      <3>2. points' = pruneRemovedSources
        BY <3>1, <1>5 DEF Sources
      <3>3. \A i \in Paths : points[i] # Nothing => i \in orphan \/ mem[i] # Nothing
        BY DEF IndexInv, PointsDescribed
      <3> QED  BY <3>2, <3>3, <2>1 DEF Pruned, pruneRemovedSources
    <2> QED  BY <2>1, <2>2, <2>3, <1>0 DEF RemovalSeen
  <1>6. CASE JobGoesOn /\ ~Sources /\ ~Forget
    <2>1. UNCHANGED <<reg, quiet>> /\ job.pc \notin {"none", "sources", "forget", "finish"} /\ (job'.stale <=> job.stale)
      BY <1>6, GoesOnIs DEF JobGoesOn, Scan, Ensure, Clear, Classify, Upsert, Checkpoint, PruneVectors, PruneState, Store, At
    <2>2. reg = "absent" => job.stale /\ quiet = 0
      BY <2>1, <1>0
    <2> QED  BY <2>1, <2>2, <1>0 DEF RemovalSeen
  <1>7. CASE Forget
    <2>1. UNCHANGED <<reg, quiet, points, orphan>> /\ job.pc = "forget" /\ job' = [job EXCEPT !.pc = "finish"]
      BY <1>7 DEF Forget, At
    <2>2. job'.pc = "finish" /\ (job'.stale <=> job.stale)
      BY <2>1, <1>0 DEF Jobs
    <2> QED  BY <2>1, <2>2, <1>0 DEF RemovalSeen, Pruned
  <1>8. CASE DropFails
    BY <1>8, <1>0, DropFailsIs DEF RemovalSeen, Pruned
  <1> QED  BY <1>1, <1>2, <1>3, <1>4, <1>5, <1>6, <1>7, <1>8, EmbedSteps

LEMMA IndexStart == EmbedInit => IndexInv
  <1> SUFFICES ASSUME EmbedInit  PROVE IndexInv
    OBVIOUS
  <1>1. IndexTyped
    BY NothingIs DEF EmbedInit, IndexTyped, Counts
  <1>2. JobOK
    BY NoJobIs DEF EmbedInit, JobOK
  <1>3. PointsDescribed
    BY NoJobIs DEF EmbedInit, PointsDescribed, Empty
  <1>4. PaidIsRecorded
    BY DEF EmbedInit, PaidIsRecorded
  <1>5. RemovalSeen
    BY NoJobIs DEF EmbedInit, RemovalSeen
  <1> QED  BY <1>1, <1>2, <1>3, <1>4, <1>5 DEF IndexInv

LEMMA IndexInvStep == IndexInv /\ [EmbedNext]_eiVars => IndexInv'
  <1>1. IndexInv /\ EmbedNext => IndexInv'
    BY IndexTypedStep, JobStep, PointsStep, PaidStep, RemovalStep DEF IndexInv
  <1>2. IndexInv /\ UNCHANGED eiVars => IndexInv'
    BY DEF eiVars, IndexInv, IndexTyped, JobOK, PointsDescribed, PaidIsRecorded, RemovalSeen, Pruned, Unseen, Empty
  <1> QED  BY <1>1, <1>2

\* Only Classify makes the batch longer, with a document whose text no record has or that takes over a place.
LEMMA PaidOnce == IndexInv /\ [EmbedNext]_eiVars => NothingPaidTwice
  <1> SUFFICES ASSUME IndexInv, [EmbedNext]_eiVars, job.pc = "classify", job'.pc = "classify", Len(job'.batch) > Len(job.batch), ~job.full
               PROVE  LET doc == Last(job'.batch)
                      IN doc.c \in {r.c : r \in paid} => \E i \in findByIdentity(doc.doc) : mem[i].c # doc.c
    BY DEF NothingPaidTwice
  <1>0. job \in Jobs /\ job.batch \in Seq(DocRecs) /\ Len(job.batch) \in Nat
    BY DEF IndexInv, JobOK, Jobs
  <1>1. Classify
    <2>1. job'.batch # job.batch
      BY <1>0
    <2>2. Outside \/ Drops \/ DropFails => job'.batch = job.batch
      <3>1. Outside \/ Drops => \E s : job' = [job EXCEPT !.stale = s]
        BY OutsideIs, DropsAre DEF Changed
      <3> QED  BY <3>1, <1>0, DropFailsIs DEF Jobs
    <2>3. Cancel => job'.batch = job.batch
      BY <1>0 DEF Cancel, Jobs
    <2>4. (\E full \in BOOLEAN : StartSync(full)) => job.pc = "none"
      BY DEF StartSync
    <2>5. JobEnds => job'.pc = "none"
      BY JobEndsIs, NoJobIs
    <2>6. Upsert => job'.pc = "checkpoint"
      BY UpsertIs
    <2>7. PruneVectors => job'.pc = "prune"
      BY <1>0 DEF PruneVectors, Jobs
    <2>8. Sources \/ Forget \/ Scan \/ Ensure \/ Clear \/ Checkpoint \/ PruneState \/ Store => job.pc # "classify"
      BY DEF Sources, Forget, Scan, Ensure, Clear, Checkpoint, PruneState, Store, At
    <2>9. UNCHANGED eiVars => job' = job
      BY DEF eiVars
    <2> QED  BY <2>1, <2>2, <2>3, <2>4, <2>5, <2>6, <2>7, <2>8, <2>9, EmbedSteps DEF JobGoesOn
  <1> DEFINE p == Head(job.todo)
             d == job.scan[p]
  <1>2. p \in Paths /\ d \in DocRecs /\ d.doc = p
    <2>1. job.todo # <<>> /\ job.todo \in Seq(FoundIn(job.scan)) /\ (\A q \in Paths : job.scan[q].doc = q)
      BY <1>1 DEF Classify, IndexInv, JobOK
    <2>2. p \in FoundIn(job.scan)
      BY <2>1, SeqParts
    <2> QED  BY <2>1, <2>2, <1>0 DEF FoundIn, DocRecs, Jobs, Records
  <1>3. \/ job' = [job EXCEPT !.todo = Tail(@)]
        \/ /\ (findByIdentity(p) = {} /\ findByContentHash(d.c) = {}) \/ \E i \in findByIdentity(p) : mem[i].c # d.c
           /\ job' = [[job EXCEPT !.todo = Tail(@)] EXCEPT !.batch = Append(@, d)]
    BY <1>1 DEF Classify
  <1> HIDE DEF p, d
  <1>4. job' = [job EXCEPT !.todo = Tail(@)] => job'.batch = job.batch
    BY <1>0 DEF Jobs
  <1>5. job' = [[job EXCEPT !.todo = Tail(@)] EXCEPT !.batch = Append(@, d)] => job'.batch = Append(job.batch, d)
    BY <1>0 DEF Jobs
  <1>6. job'.batch # job.batch
    BY <1>0
  <1>7. Last(Append(job.batch, d)) = d
    BY <1>0, <1>2, SeqLonger
  <1>8. /\ Last(job'.batch) = d
        /\ (findByIdentity(p) = {} /\ findByContentHash(d.c) = {}) \/ \E i \in findByIdentity(p) : mem[i].c # d.c
    BY <1>3, <1>4, <1>5, <1>6, <1>7
  <1>9. d.c \in {r.c : r \in paid} => findByContentHash(d.c) # {}
    BY DEF IndexInv, PaidIsRecorded, findByContentHash
  <1> QED  BY <1>2, <1>8, <1>9

(* The embedding service, when nobody changes anything any more. *)

\* The records of a file or of the memory: of documents, one for each.
Real(m) ==
    /\ m \in Records
    /\ \A i \in Paths : m[i] = Nothing \/ m[i] \in DocRecs
    /\ \A i, j \in Paths : m[i] # Nothing /\ m[i].doc = m[j].doc => i = j

\* A point has the vector of the text its record names, unless the record came to be without its point or the other
\* way round; a point that is about to be recorded has that of its document, if nothing overtook the job.
Matches(m) == \A i \in Paths \ (orphan \cup lost) : m[i] # Nothing => points[i].c = m[i].c
PointsMatch ==
    /\ Matches(mem) /\ Matches(disk)
    /\ job.pc = "checkpoint" /\ ~job.stale => points[Head(job.batch).doc] = Head(job.batch)

\* A job that nothing overtook has an enabled source, its present documents and a collection; a full one, or one that
\* made the collection, starts the count of syncs anew.
ScanPcs == {"ensure", "clear", "classify", "checkpoint", "prune", "store"}
JobIsCurrent ==
    /\ job.pc \in {"sources", "scan", "ensure", "clear"} => job.batch = <<>>
    /\ ~job.stale /\ job.pc = "clear" => coll /\ Present \subseteq ToSet(job.todo)
    /\ job.pc = "clear" => quiet = 0
    /\ ~job.stale /\ job.pc = "forget" => reg = "absent"
    /\ job.pc = "checkpoint" => job.todo = <<>>
    /\ ~job.stale /\ job.pc \in {"scan"} \cup ScanPcs => reg = "enabled"
    /\ ~job.stale /\ job.pc \in ScanPcs => \A p \in Paths : job.scan[p] = documentsFromMarkdownFile(p)
    /\ ~job.stale /\ job.pc \in {"classify", "checkpoint"} => \A b \in ToSet(job.batch) : b.c = docs[b.doc]
    /\ job.full /\ job.pc # "none" => quiet = 0

\* A job at work on the records, and the documents that are left to it.
Embedding == ~job.stale /\ reg = "enabled" /\ job.pc \in {"classify", "checkpoint", "prune", "store", "finish"}
Left == IF job.pc \in {"classify", "checkpoint"} THEN ToSet(job.todo) \cup {b.doc : b \in ToSet(job.batch)} ELSE {}

\* What it has dealt with is as it should be; in the end that is what the file has.
IsTrue(m) == \A i \in Paths : m[i] # Nothing => m[i].c = docs[m[i].doc]
JobRecords ==
    Embedding =>
      /\ coll
      /\ \A i \in Paths : mem[i] # Nothing =>
           mem[i].c = docs[mem[i].doc] \/ mem[i].doc \in Left \/ (docs[mem[i].doc] = 0 /\ job.pc \notin {"store", "finish"})
      /\ job.pc = "finish" => disk = mem

\* The texts that have a record, that of a document that is there, or that of the point where they belong.
Texts(m) == {m[i].c : i \in Paths}
LiveTexts(m) == {m[i].c : i \in {j \in Paths : m[j] # Nothing /\ docs[m[j].doc] # 0}}
HomeTexts(m) == {docs[p] : p \in {q \in Present : m[q].c = docs[q]}}
AllIn(m) == \A p \in Present : docs[p] \in Texts(m)

\* A full job writes and records every document at its own point. Another job may put a document where it belongs over another
\* one's record: then more texts are at home than syncs have ended.
Rose == IF quiet = 0 THEN \E p \in Present : mem[p] = documentsFromMarkdownFile(p) ELSE Cardinality(HomeTexts(mem)) > quiet
Home(p) == mem[p] = documentsFromMarkdownFile(p) /\ points[p] = documentsFromMarkdownFile(p) /\ p \notin orphan \cup lost
FullJob == Embedding /\ job.full => \A p \in Present : p \in Left \/ Home(p)
LeanJob ==
    Embedding /\ ~job.full =>
      /\ \A p \in Present : p \in Left \/ docs[p] \in LiveTexts(mem) \/ (job.todo = <<>> /\ Rose)
      /\ quiet >= 1 => \A b \in ToSet(job.batch) : b.c \notin Texts(mem) \/ Rose

\* After each sync that ended since the last change, every text is in the index or one more is at home for good.
Rising(m) == AllIn(m) \/ Cardinality(HomeTexts(m)) >= quiet
Settling == quiet >= 1 /\ reg = "enabled" => coll /\ IsTrue(mem) /\ IsTrue(disk) /\ Rising(mem) /\ Rising(disk)

SettleInv == Real(mem) /\ Real(disk) /\ PointsMatch /\ JobIsCurrent /\ JobRecords /\ FullJob /\ LeanJob /\ Settling

LEMMA NoneIsNoPath == "none" \notin Paths /\ Nothing.doc = "none" /\ Nothing \notin DocRecs
  BY EmbedAssumption, NothingIs DEF Paths, Nothing, DocRecs

LEMMA PathsFinite ==
    /\ IsFiniteSet(Paths) /\ Cardinality(Paths) <= Len(Docs) /\ Len(Docs) \in Nat
  <1>1. Docs \in Seq(Paths) /\ Len(Docs) \in Nat /\ DOMAIN Docs = 1..Len(Docs)
    BY EmbedAssumption DEF Paths
  <1>2. IsFiniteSet(1..Len(Docs)) /\ Cardinality(1..Len(Docs)) = Len(Docs)
    BY <1>1, FS_Interval
  <1>3. Paths = {Docs[k] : k \in 1..Len(Docs)}
    BY <1>1 DEF Paths, ToSet
  <1>4. Docs \in [1..Len(Docs) -> Paths]
    BY <1>1
  <1>5. Docs \in Surjection(1..Len(Docs), Paths)
    BY <1>3, <1>4 DEF Surjection
  <1> QED  BY <1>1, <1>2, <1>5, FS_Surjection

LEMMA EmptyIsReal == Real(Empty) /\ \A i \in Paths : Empty[i] = Nothing
  BY NothingIs DEF Real, Empty

\* The texts of the documents that are there: finitely many, no more than there are documents.
PresentTexts == {docs[p] : p \in Present}
LEMMA TextsFinite ==
    ASSUME docs \in [Paths -> Nat], NEW m
    PROVE  /\ IsFiniteSet(PresentTexts) /\ Cardinality(PresentTexts) <= Len(Docs) /\ Cardinality(PresentTexts) \in Nat
           /\ HomeTexts(m) \subseteq PresentTexts /\ IsFiniteSet(HomeTexts(m)) /\ Cardinality(HomeTexts(m)) \in Nat
  <1>1. IsFiniteSet(Present) /\ Cardinality(Present) <= Cardinality(Paths) /\ Cardinality(Paths) \in Nat /\ Cardinality(Present) \in Nat
    <2>1. Present \subseteq Paths
      BY DEF Present
    <2> QED  BY <2>1, PathsFinite, FS_Subset, FS_CardinalityType
  <1>2. [p \in Present |-> docs[p]] \in Surjection(Present, PresentTexts)
    BY DEF Surjection, PresentTexts
  <1>3. IsFiniteSet(PresentTexts) /\ Cardinality(PresentTexts) <= Cardinality(Present) /\ Cardinality(PresentTexts) \in Nat
    BY <1>1, <1>2, FS_Surjection, FS_CardinalityType
  <1>4. HomeTexts(m) \subseteq PresentTexts
    BY DEF HomeTexts, PresentTexts
  <1> QED  BY <1>1, <1>3, <1>4, PathsFinite, FS_Subset, FS_CardinalityType

\* What the invariant says of an index that nobody has changed for as many syncs as there are documents.
LEMMA SettledIndex ==
    ASSUME SettleInv, docs \in [Paths -> Nat], quiet \in Nat
    PROVE  SettledMeansIndexed
  <1> SUFFICES ASSUME quiet = Len(Docs), reg = "enabled"
               PROVE  /\ \A p \in Present : docs[p] \in {points[i].c : i \in Paths} \cup {mem[i].c : i \in orphan \cup lost}
                      /\ \A i \in Paths \ (orphan \cup lost) : mem[i] # Nothing => mem[i].c = points[i].c /\ mem[i].c = docs[mem[i].doc]
    BY DEF SettledMeansIndexed
  <1>1. CASE quiet = 0
    <2>1. Cardinality(Paths) = 0
      BY <1>1, PathsFinite, FS_CardinalityType
    <2>2. Paths = {}
      BY <2>1, PathsFinite, FS_EmptySet
    <2> QED  BY <2>2 DEF Present
  <1>2. CASE quiet >= 1
    <2>1. Matches(mem) /\ IsTrue(mem) /\ Rising(mem) /\ Real(mem)
      BY <1>2 DEF SettleInv, Settling, PointsMatch
    <2>2. AllIn(mem)
      <3>1. CASE Cardinality(HomeTexts(mem)) >= quiet
        <4>1. /\ IsFiniteSet(PresentTexts) /\ HomeTexts(mem) \subseteq PresentTexts
              /\ Cardinality(PresentTexts) <= Cardinality(HomeTexts(mem))
          BY <3>1, TextsFinite, PathsFinite
        <4>2. HomeTexts(mem) = PresentTexts
          BY <4>1, TextsFinite, FS_Subset
        <4>3. HomeTexts(mem) \subseteq Texts(mem)
          BY DEF HomeTexts, Texts, Present
        <4> QED  BY <4>2, <4>3 DEF PresentTexts, AllIn
      <3> QED  BY <3>1, <2>1 DEF Rising
    <2>3. ASSUME NEW p \in Present  PROVE docs[p] \in {points[i].c : i \in Paths} \cup {mem[i].c : i \in orphan \cup lost}
      <3>1. PICK i \in Paths : mem[i].c = docs[p]
        BY <2>2 DEF AllIn, Texts
      <3>2. mem[i] # Nothing
        BY <3>1, NothingIs DEF Present
      <3> QED  BY <3>1, <3>2, <2>1 DEF Matches
    <2> QED  BY <2>1, <2>3 DEF Matches, IsTrue
  <1> QED  BY <1>1, <1>2

\* What it says of a full job that completes.
LEMMA FullJobRepairs == SettleInv => FullSyncRepairs
  <1> SUFFICES ASSUME SettleInv, job.pc = "finish", job.full, ~job.stale, reg = "enabled", NEW p \in Present
               PROVE  points[p] = documentsFromMarkdownFile(p) /\ mem[p] = points[p] /\ disk[p] = points[p] /\ p \notin orphan \cup lost
    BY DEF FullSyncRepairs
  <1>1. Embedding /\ Left = {}
    BY DEF Embedding, Left
  <1>2. Home(p) /\ disk = mem
    BY <1>1 DEF SettleInv, FullJob, JobRecords
  <1> QED  BY <1>2 DEF Home

LEMMA NoWork == ~Embedding' => JobRecords' /\ FullJob' /\ LeanJob'
  BY DEF JobRecords, FullJob, LeanJob

\* What is looked up of a state that only other parts change.
LEMMA MatchesStay ==
    ASSUME PointsMatch, UNCHANGED <<points, orphan, lost>>, mem' \in {mem, disk}, disk' = disk,
           job'.pc = "checkpoint" /\ ~job'.stale => job.pc = "checkpoint" /\ ~job.stale /\ job'.batch = job.batch
    PROVE  PointsMatch'
  <1>1. (Matches(mem))' /\ (Matches(disk))'
    BY DEF PointsMatch, Matches
  <1>2. job'.pc = "checkpoint" /\ ~job'.stale => points[Head(job'.batch).doc] = Head(job'.batch)
    BY DEF PointsMatch
  <1> QED  BY <1>1, <1>2 DEF PointsMatch

LEMMA OutsideSettles == IndexInv /\ SettleInv /\ (Outside \/ Drops) => SettleInv'
  <1> SUFFICES ASSUME IndexInv, SettleInv, Outside \/ Drops  PROVE SettleInv'
    OBVIOUS
  <1>0. job \in Jobs
    BY DEF IndexInv, JobOK
  <1>1. quiet' = 0 /\ job' = [job EXCEPT !.stale = (job.pc # "none")]
    BY OutsideIs, DropsAre DEF Changed
  <1>2. PICK s \in BOOLEAN : s = (job.pc # "none")
    BY Zenon
  <1>3. job' = [job EXCEPT !.stale = s]
    BY <1>1, <1>2, Zenon
  <1>4. job'.pc = job.pc /\ (job'.stale <=> s) /\ job'.batch = job.batch /\ job'.todo = job.todo
    BY <1>3, <1>0 DEF Jobs
  <1>5. job.pc # "none" => s
    BY <1>2, Zenon
  <1>6. ~Embedding'
    BY <1>4, <1>5 DEF Embedding
  <1>7. JobIsCurrent'
    BY <1>1, <1>4, <1>5 DEF JobIsCurrent, ScanPcs, SettleInv
  <1>8. Settling'
    BY <1>1 DEF Settling
  <1>9. Real(mem)' /\ Real(disk)' /\ PointsMatch'
    <2>1. CASE Outside
      <3>1. UNCHANGED <<points, mem, disk, orphan, lost>>
        BY <2>1, OutsideIs
      <3>2. PointsMatch'
        BY <3>1, <1>4, <1>5, MatchesStay DEF SettleInv
      <3> QED  BY <3>1, <3>2 DEF SettleInv, Real
    <2>2. CASE Drops
      <3>1. \/ UNCHANGED <<mem, disk>> /\ lost' = {p \in Paths : mem[p] # Nothing \/ disk[p] # Nothing}
            \/ mem' = Empty /\ disk' = Empty
        BY <2>2, DropsAre
      <3>2. Real(mem)' /\ Real(disk)'
        BY <3>1, EmptyIsReal DEF SettleInv, Real
      <3>3. Matches(mem)' /\ Matches(disk)'
        BY <3>1, EmptyIsReal DEF Matches
      <3> QED  BY <3>2, <3>3, <1>4, <1>5 DEF PointsMatch
    <2> QED  BY <2>1, <2>2
  <1> QED  BY <1>6, <1>7, <1>8, <1>9, NoWork DEF SettleInv

LEMMA StartSettles == IndexInv /\ SettleInv /\ (\E full \in BOOLEAN : StartSync(full)) => SettleInv'
  <1> SUFFICES ASSUME IndexInv, SettleInv, NEW full \in BOOLEAN, StartSync(full)  PROVE SettleInv'
    OBVIOUS
  <1>1. /\ UNCHANGED <<docs, reg, coll, points, mem, disk, orphan, lost>> /\ quiet' = IF full THEN 0 ELSE quiet
        /\ job' = [NoJob EXCEPT !.pc = "sources", !.full = full]
    BY DEF StartSync
  <1>2. job'.pc = "sources" /\ ~job'.stale /\ (job'.full <=> full) /\ job'.batch = <<>>
    BY <1>1 DEF NoJob
  <1>3. PointsMatch'
    BY <1>1, <1>2, MatchesStay DEF SettleInv
  <1>4. JobIsCurrent'
    BY <1>1, <1>2 DEF JobIsCurrent, ScanPcs
  <1>5. Settling'
    BY <1>1 DEF SettleInv, Settling, IsTrue, Rising, AllIn, Texts, HomeTexts, Present
  <1> QED  BY <1>1, <1>2, <1>3, <1>4, <1>5, NoWork DEF SettleInv, Real, Embedding

LEMMA CancelSettles == IndexInv /\ SettleInv /\ Cancel => SettleInv'
  <1> SUFFICES ASSUME IndexInv, SettleInv, Cancel  PROVE SettleInv'
    OBVIOUS
  <1>1. UNCHANGED <<docs, reg, coll, points, mem, disk, orphan, lost, quiet>> /\ job' = [job EXCEPT !.cancel = TRUE] /\ job \in Jobs
    BY DEF Cancel, IndexInv, JobOK
  <1>2. /\ job'.pc = job.pc /\ job'.stale = job.stale /\ job'.full = job.full /\ job'.batch = job.batch /\ job'.todo = job.todo
        /\ job'.scan = job.scan
    BY <1>1 DEF Jobs
  <1>3. PointsMatch'
    BY <1>1, <1>2, MatchesStay DEF SettleInv
  <1>4. Embedding' = Embedding /\ Left' = Left
    BY <1>1, <1>2 DEF Embedding, Left
  <1>5. JobIsCurrent'
    BY <1>1, <1>2 DEF JobIsCurrent, SettleInv, documentsFromMarkdownFile, Present
  <1>6. JobRecords'
    BY <1>1, <1>2, <1>4 DEF JobRecords, SettleInv
  <1>7. FullJob'
    BY <1>1, <1>2, <1>4 DEF FullJob, Home, SettleInv, documentsFromMarkdownFile, Present
  <1>8. Rose' = Rose /\ Present' = Present /\ LiveTexts(mem)' = LiveTexts(mem) /\ Texts(mem)' = Texts(mem)
    BY <1>1 DEF Rose, documentsFromMarkdownFile, Present, HomeTexts, LiveTexts, Texts
  <1>9. LeanJob'
    BY <1>1, <1>2, <1>4, <1>8 DEF LeanJob, SettleInv
  <1>10. Settling'
    BY <1>1 DEF SettleInv, Settling, IsTrue, Rising, AllIn, Texts, HomeTexts, Present
  <1> QED  BY <1>1, <1>3, <1>5, <1>6, <1>7, <1>9, <1>10 DEF SettleInv, Real

LEMMA EndsSettle == IndexInv /\ SettleInv /\ JobEnds => SettleInv'
  <1> SUFFICES ASSUME IndexInv, SettleInv, JobEnds  PROVE SettleInv'
    OBVIOUS
  <1>0. docs \in [Paths -> Nat] /\ quiet \in Nat /\ (job.stale => quiet = 0)
    BY DEF IndexInv, IndexTyped, RemovalSeen
  <1>1. /\ job' = NoJob /\ UNCHANGED <<docs, reg, coll, points, disk, orphan, lost>> /\ mem' \in {mem, disk}
        /\ UNCHANGED quiet \/ Finish
    BY JobEndsIs
  <1>2. job'.pc = "none" /\ ~job'.stale /\ ~job'.full /\ job'.batch = <<>>
    BY <1>1 DEF NoJob
  <1>3. PointsMatch'
    BY <1>1, <1>2, MatchesStay DEF SettleInv
  <1>4. JobIsCurrent'
    BY <1>1, <1>2 DEF JobIsCurrent, ScanPcs
  <1>5. Settling'
    <2>1. CASE UNCHANGED quiet
      <3>1. CASE mem' = mem
        BY <1>1, <2>1, <3>1 DEF SettleInv, Settling, IsTrue, Rising, AllIn, Texts, HomeTexts, Present
      <3>2. CASE mem' = disk
        BY <1>1, <2>1, <3>2 DEF SettleInv, Settling, IsTrue, Rising, AllIn, Texts, HomeTexts, Present
      <3> QED  BY <1>1, <3>1, <3>2
    <2>2. CASE Finish /\ ~UNCHANGED quiet
      <3>1. /\ job.pc = "finish" /\ mem' = mem /\ ~job.stale
            /\ quiet' = IF job.full \/ quiet = Len(Docs) THEN Len(Docs) ELSE quiet + 1
        BY <2>2 DEF Finish
      <3> SUFFICES ASSUME reg = "enabled"  PROVE Settling'
        BY <1>1 DEF Settling
      <3>2. Embedding /\ Left = {}
        BY <3>1 DEF Embedding, Left
      <3>3. /\ coll /\ disk = mem /\ \A i \in Paths : mem[i] # Nothing => mem[i].c = docs[mem[i].doc]
        BY <3>1, <3>2 DEF SettleInv, JobRecords
      <3>4. CASE job.full
        <4>1. \A p \in Present : mem[p] = documentsFromMarkdownFile(p)
          BY <3>2, <3>4 DEF SettleInv, FullJob, Home
        <4>2. AllIn(mem)
          <5>1. \A p \in Present : p \in Paths /\ mem[p].c = docs[p]
            <6>1. ASSUME NEW p \in Present  PROVE p \in Paths /\ mem[p].c = docs[p]
              <7>1. mem[p] = [doc |-> p, c |-> docs[p]]
                BY <4>1 DEF documentsFromMarkdownFile
              <7> QED  BY <7>1 DEF Present
            <6> QED  BY <6>1
          <5>2. ASSUME NEW p \in Present  PROVE docs[p] \in Texts(mem)
            <6>1. p \in Paths /\ mem[p].c = docs[p]
              BY <5>1
            <6> QED  BY ONLY <6>1 DEF Texts
          <5> QED  BY <5>2 DEF AllIn
        <4> QED  BY <1>1, <3>1, <3>3, <4>2 DEF Settling, IsTrue, Rising, AllIn, Texts, Present
      <3>5. CASE ~job.full
        <4>1. \A p \in Present : docs[p] \in LiveTexts(mem) \/ Rose
          BY <3>2, <3>5 DEF SettleInv, LeanJob
        <4>2. LiveTexts(mem) \subseteq Texts(mem)
          BY DEF LiveTexts, Texts
        <4>3. AllIn(mem) \/ Rose
          BY <4>1, <4>2 DEF AllIn
        <4>4. quiet' <= quiet + 1
          BY <3>1, <3>5, <2>2, <1>0
        <4>5. Rose => Cardinality(HomeTexts(mem)) >= quiet'
          <5>1. CASE quiet = 0 /\ Rose
            <6>1. PICK p \in Present : mem[p] = documentsFromMarkdownFile(p)
              BY <5>1 DEF Rose
            <6>2. docs[p] \in HomeTexts(mem)
              BY <6>1 DEF HomeTexts, documentsFromMarkdownFile
            <6>3. Cardinality(HomeTexts(mem)) # 0
              BY <6>2, <1>0, TextsFinite, FS_EmptySet
            <6>4. Cardinality(HomeTexts(mem)) \in Nat
              BY <1>0, TextsFinite
            <6>5. quiet' \in Nat
              BY <3>1, <1>0, PathsFinite
            <6> QED  BY <5>1, <6>3, <6>4, <6>5, <4>4
          <5>2. CASE quiet # 0 /\ Rose
            <6>1. Cardinality(HomeTexts(mem)) > quiet
              BY <5>2 DEF Rose
            <6>2. Cardinality(HomeTexts(mem)) \in Nat
              BY <1>0, TextsFinite
            <6>3. quiet' \in Nat
              BY <3>1, <1>0, PathsFinite
            <6> QED  BY <6>1, <6>2, <6>3, <4>4, <1>0
          <5> QED  BY <5>1, <5>2
        <4>6. (Rising(mem))'
          <5>1. HomeTexts(mem)' = HomeTexts(mem) /\ (AllIn(mem)' <=> AllIn(mem))
            BY <1>1, <3>1 DEF HomeTexts, AllIn, Texts, Present
          <5> QED  BY <4>3, <4>5, <5>1 DEF Rising
        <4>7. mem' = mem /\ disk' = mem
          BY <1>1, <3>1, <3>3
        <4> QED  BY <1>1, <3>3, <4>6, <4>7 DEF Settling, IsTrue, Rising, AllIn, Texts, HomeTexts, Present
      <3> QED  BY <3>4, <3>5
    <2> QED  BY <1>1, <2>1, <2>2
  <1> QED  BY <1>1, <1>2, <1>3, <1>4, <1>5, NoWork DEF SettleInv, Real, Embedding

LEMMA SourcesSettle == IndexInv /\ SettleInv /\ Sources => SettleInv'
  <1> SUFFICES ASSUME IndexInv, SettleInv, Sources  PROVE SettleInv'
    OBVIOUS
  <1>0. job \in Jobs
    BY DEF IndexInv, JobOK
  <1>1. /\ UNCHANGED <<docs, reg, coll, mem, disk, quiet, orphan>> /\ job.pc = "sources"
        /\ job' = [job EXCEPT !.pc = IF reg = "absent" THEN "forget" ELSE IF reg = "enabled" THEN "scan" ELSE "finish"]
        /\ \/ UNCHANGED <<points, lost>> /\ reg # "absent"
           \/ points' = pruneRemovedSources /\ lost' = lost \cup {p \in Paths : mem[p] # Nothing} /\ reg = "absent"
    BY DEF Sources, At
  <1>2. /\ job'.pc = (IF reg = "absent" THEN "forget" ELSE IF reg = "enabled" THEN "scan" ELSE "finish")
        /\ job'.stale = job.stale /\ job'.full = job.full /\ job'.batch = job.batch
    BY <1>0, <1>1 DEF Jobs
  <1>3. ~Embedding'
    BY <1>1, <1>2 DEF Embedding
  <1>4. JobIsCurrent'
    BY <1>1, <1>2 DEF JobIsCurrent, ScanPcs, SettleInv
  <1>5. Settling'
    BY <1>1 DEF SettleInv, Settling, IsTrue, Rising, AllIn, Texts, HomeTexts, Present
  <1>6. PointsMatch'
    <2>1. CASE UNCHANGED <<points, lost>>
      BY <1>1, <1>2, <2>1, MatchesStay DEF SettleInv
    <2>2. CASE points' = pruneRemovedSources /\ lost' = lost \cup {p \in Paths : mem[p] # Nothing}
      <3>1. \A i \in Paths \ (orphan' \cup lost') : i \notin orphan \cup lost /\ points'[i] = points[i]
        BY <2>2, <1>1 DEF pruneRemovedSources
      <3>2. Matches(mem)' /\ Matches(disk)'
        BY <3>1, <1>1 DEF SettleInv, PointsMatch, Matches
      <3> QED  BY <3>2, <1>2 DEF PointsMatch
    <2> QED  BY <1>1, <2>1, <2>2
  <1> QED  BY <1>1, <1>3, <1>4, <1>5, <1>6, NoWork DEF SettleInv, Real

LEMMA ForgetSettles == IndexInv /\ SettleInv /\ Forget => SettleInv'
  <1> SUFFICES ASSUME IndexInv, SettleInv, Forget  PROVE SettleInv'
    OBVIOUS
  <1>0. job \in Jobs /\ (job.stale => quiet = 0) /\ quiet \in Nat
    BY DEF IndexInv, IndexTyped, JobOK, RemovalSeen
  <1>1. /\ UNCHANGED <<docs, reg, quiet>> /\ job.pc = "forget" /\ mem' = Empty /\ disk' = Empty /\ job' = [job EXCEPT !.pc = "finish"]
    BY DEF Forget, At, Recorded
  <1>2. job'.pc = "finish" /\ job'.stale = job.stale /\ job'.full = job.full /\ job'.batch = job.batch
    BY <1>0, <1>1 DEF Jobs
  <1>3. ~job.stale => reg = "absent"
    BY <1>1 DEF SettleInv, JobIsCurrent
  <1>4. ~Embedding'
    BY <1>1, <1>2, <1>3 DEF Embedding
  <1>5. JobIsCurrent'
    BY <1>1, <1>2 DEF JobIsCurrent, ScanPcs, SettleInv
  <1>6. Settling'
    BY <1>0, <1>1, <1>3 DEF Settling
  <1>7. PointsMatch'
    BY <1>1, <1>2, EmptyIsReal DEF PointsMatch, Matches
  <1> QED  BY <1>1, <1>4, <1>5, <1>6, <1>7, NoWork, EmptyIsReal DEF SettleInv, Real

LEMMA ScanSettles == IndexInv /\ SettleInv /\ Scan => SettleInv'
  <1> SUFFICES ASSUME IndexInv, SettleInv, Scan  PROVE SettleInv'
    OBVIOUS
  <1>0. job \in Jobs
    BY DEF IndexInv, JobOK
  <1>1. /\ UNCHANGED <<docs, reg, coll, points, mem, disk, quiet, orphan, lost>> /\ job.pc = "scan"
        /\ job' = [job EXCEPT !.pc = "ensure", !.scan = [p \in Paths |-> documentsFromMarkdownFile(p)]]
    BY DEF Scan, At
  <1>2. PICK scan : scan = [p \in Paths |-> documentsFromMarkdownFile(p)]
    OBVIOUS
  <1>3. job' = [job EXCEPT !.pc = "ensure", !.scan = scan]
    BY <1>1, <1>2
  <1>4. job'.pc = "ensure" /\ job'.stale = job.stale /\ job'.full = job.full /\ job'.batch = job.batch /\ job'.scan = scan
    BY <1>0, <1>3 DEF Jobs
  <1>5. ~Embedding'
    BY <1>4 DEF Embedding
  <1>6. PointsMatch'
    BY <1>1, <1>4, MatchesStay DEF SettleInv
  <1>7. \A p \in Paths : (documentsFromMarkdownFile(p))' = scan[p]
    BY <1>1, <1>2 DEF documentsFromMarkdownFile
  <1>8. JobIsCurrent'
    BY <1>1, <1>4, <1>7 DEF JobIsCurrent, ScanPcs, SettleInv
  <1>9. Settling'
    BY <1>1 DEF SettleInv, Settling, IsTrue, Rising, AllIn, Texts, HomeTexts, Present
  <1> QED  BY <1>1, <1>5, <1>6, <1>8, <1>9, NoWork DEF SettleInv, Real

LEMMA HeadAndTail ==
    ASSUME NEW S, NEW s \in Seq(S), s # <<>>
    PROVE  ToSet(s) = {Head(s)} \cup ToSet(Tail(s)) /\ Head(s) \in S /\ Tail(s) \in Seq(S)
  <1>1. DOMAIN s = 1..Len(s) /\ DOMAIN Tail(s) = 1..(Len(s) - 1) /\ Len(s) \in Nat /\ Len(s) >= 1
    OBVIOUS
  <1>2. \A k \in 1..(Len(s) - 1) : Tail(s)[k] = s[k + 1]
    OBVIOUS
  <1>3. Head(s) = s[1]
    OBVIOUS
  <1>4. ASSUME NEW k \in 1..Len(s)  PROVE s[k] \in {Head(s)} \cup ToSet(Tail(s))
    <2>1. CASE k = 1
      BY <2>1, <1>3
    <2>2. CASE k # 1
      <3>1. k - 1 \in 1..(Len(s) - 1) /\ (k - 1) + 1 = k
        BY <2>2, <1>1
      <3>2. Tail(s)[k - 1] = s[k]
        BY <3>1, <1>2
      <3> QED  BY <3>1, <3>2, <1>1 DEF ToSet
    <2> QED  BY <2>1, <2>2
  <1>5. Head(s) \in ToSet(s) /\ \A k \in 1..(Len(s) - 1) : Tail(s)[k] \in ToSet(s)
    <2>1. 1 \in 1..Len(s) /\ \A k \in 1..(Len(s) - 1) : k + 1 \in 1..Len(s)
      BY <1>1
    <2> QED  BY <2>1, <1>1, <1>2, <1>3 DEF ToSet
  <1> QED  BY <1>1, <1>4, <1>5 DEF ToSet

LEMMA Appended ==
    ASSUME NEW S, NEW s \in Seq(S), NEW x \in S
    PROVE  ToSet(Append(s, x)) = ToSet(s) \cup {x}
  <1>1. /\ DOMAIN s = 1..Len(s) /\ DOMAIN Append(s, x) = 1..(Len(s) + 1) /\ Len(s) \in Nat
        /\ Append(s, x)[Len(s) + 1] = x /\ \A k \in 1..Len(s) : Append(s, x)[k] = s[k]
    OBVIOUS
  <1>2. ASSUME NEW k \in 1..(Len(s) + 1)  PROVE Append(s, x)[k] \in ToSet(s) \cup {x}
    <2>1. k \in 1..Len(s) \/ k = Len(s) + 1
      BY <1>1
    <2> QED  BY <2>1, <1>1 DEF ToSet
  <1>3. Len(s) + 1 \in 1..(Len(s) + 1) /\ \A k \in 1..Len(s) : k \in 1..(Len(s) + 1)
    BY <1>1
  <1>4. ASSUME NEW k \in 1..Len(s)  PROVE s[k] \in ToSet(Append(s, x))
    BY <1>1, <1>3 DEF ToSet
  <1>5. x \in ToSet(Append(s, x))
    BY <1>1, <1>3 DEF ToSet
  <1> QED  BY <1>1, <1>2, <1>4, <1>5 DEF ToSet

\* The scan's order leaves no document out.
LEMMA ScannedHolds ==
    ASSUME NEW scan \in Records
    PROVE  FoundIn(scan) \subseteq ToSet(Scanned(scan))
  <1> DEFINE S == Paths
             ss == [k \in DOMAIN Docs |-> IF scan[Docs[k]].c # 0 THEN <<Docs[k]>> ELSE <<>>]
  <1>1. Docs \in Seq(Paths) /\ DOMAIN Docs = 1..Len(Docs) /\ Len(Docs) \in Nat
    BY EmbedAssumption DEF Paths
  <1>2. \A k \in 1..Len(Docs) : Docs[k] \in Paths
    BY <1>1
  <1>3. ASSUME NEW k \in 1..Len(Docs)  PROVE (IF scan[Docs[k]].c # 0 THEN <<Docs[k]>> ELSE <<>>) \in Seq(Paths)
    BY <1>2
  <1>4. ss \in [1..Len(Docs) -> Seq(Paths)]
    BY <1>1, <1>3
  <1>5. Scanned(scan) = FlattenSeq(ss)
    BY DEF Scanned
  <1>6. \A k \in 1..Len(Docs) : scan[Docs[k]].c # 0 => ss[k] = <<Docs[k]>>
    BY <1>1
  <1> HIDE DEF ss
  <1>7. ss \in Seq(Seq(Paths)) /\ Len(ss) = Len(Docs)
    BY <1>4, <1>1
  <1>8. \A k \in 1..Len(Docs) : ToSet(ss[k]) \subseteq ToSet(Scanned(scan))
    BY <1>5, <1>7, FlattenIs
  <1>9. ASSUME NEW p \in FoundIn(scan)  PROVE p \in ToSet(Scanned(scan))
    <2>1. p \in Paths /\ scan[p].c # 0
      BY DEF FoundIn
    <2>2. PICK k \in 1..Len(Docs) : Docs[k] = p
      BY <2>1, <1>1 DEF Paths, ToSet
    <2>3. ss[k] = <<p>>
      BY <2>1, <2>2, <1>6
    <2>4. p \in ToSet(<<p>>)
      BY DEF ToSet
    <2> QED  BY <2>2, <2>3, <2>4, <1>8
  <1> QED  BY <1>9

\* The documents that are there are left to a job that begins with them.
LEMMA AllAreLeft ==
    ASSUME job.scan \in Records, docs \in [Paths -> Nat], \A p \in Paths : job.scan[p] = documentsFromMarkdownFile(p)
    PROVE  Present \subseteq ToSet(Scanned(job.scan))
  <1> SUFFICES ASSUME NEW p \in Present  PROVE p \in ToSet(Scanned(job.scan))
    OBVIOUS
  <1>1. p \in Paths /\ docs[p] # 0 /\ job.scan[p] = documentsFromMarkdownFile(p)
    BY DEF Present
  <1>2. p \in FoundIn(job.scan)
    BY <1>1 DEF FoundIn, documentsFromMarkdownFile
  <1> QED  BY <1>2, ScannedHolds

\* The invariant as a job turns to its documents, all of them before it.
LEMMA WorkBegins ==
    ASSUME IndexInv, UNCHANGED <<docs, reg>>, job'.pc = "classify", job'.batch = <<>>, Real(mem)',
           Embedding' => coll' /\ Present \subseteq ToSet(job'.todo)
    PROVE  JobRecords' /\ FullJob' /\ LeanJob'
  <1>1. Present' = Present
    BY DEF Present
  <1>2. Embedding' => \A p \in Present : p \in Left'
    BY DEF Left
  <1>3. JobRecords'
    <2> SUFFICES ASSUME Embedding'  PROVE JobRecords'
      BY DEF JobRecords
    <2>1. ASSUME NEW i \in Paths, mem'[i] # Nothing  PROVE mem'[i].doc \in Left' \/ docs'[mem'[i].doc] = 0
      <3>1. mem'[i].doc \in Paths
        BY <2>1 DEF Real, DocRecs
      <3> QED  BY <3>1, <1>2 DEF Present
    <2> QED  BY <2>1 DEF JobRecords
  <1>4. FullJob'
    BY <1>1, <1>2 DEF FullJob
  <1>5. LeanJob'
    <2>1. ToSet(job'.batch) = {}
      BY DEF ToSet
    <2> QED  BY <2>1, <1>1, <1>2 DEF LeanJob
  <1> QED  BY <1>3, <1>4, <1>5

LEMMA EnsureSettles == IndexInv /\ SettleInv /\ Ensure => SettleInv'
  <1> SUFFICES ASSUME IndexInv, SettleInv, Ensure  PROVE SettleInv'
    OBVIOUS
  <1>0. job \in Jobs /\ docs \in [Paths -> Nat] /\ quiet \in Nat /\ (job.stale => quiet = 0) /\ coll \in BOOLEAN
    BY DEF IndexInv, IndexTyped, JobOK, RemovalSeen
  <1>1. /\ UNCHANGED <<docs, reg, points, mem, disk, quiet, orphan, lost>> /\ job.pc = "ensure" /\ coll' = TRUE
        /\ job' = [job EXCEPT !.pc = IF coll THEN "classify" ELSE "clear", !.todo = Scanned(job.scan)]
    BY DEF Ensure, At
  <1>2. /\ job'.pc = (IF coll THEN "classify" ELSE "clear") /\ job'.stale = job.stale /\ job'.full = job.full
        /\ job'.batch = job.batch /\ job'.scan = job.scan /\ job'.todo = Scanned(job.scan)
    BY <1>0, <1>1 DEF Jobs
  <1>3. job.batch = <<>> /\ (~job.stale => reg = "enabled") /\ (~coll => quiet = 0)
    BY <1>0, <1>1 DEF SettleInv, JobIsCurrent, ScanPcs, Settling
  <1>4. ~job.stale => Present \subseteq ToSet(job'.todo)
    <2>1. job.scan \in Records
      BY <1>0 DEF Jobs
    <2>2. ~job.stale => \A p \in Paths : job.scan[p] = documentsFromMarkdownFile(p)
      BY <1>1 DEF SettleInv, JobIsCurrent, ScanPcs
    <2> QED  BY <2>1, <2>2, <1>0, <1>2, AllAreLeft
  <1>5. Present' = Present /\ \A p \in Paths : (documentsFromMarkdownFile(p))' = documentsFromMarkdownFile(p)
    BY <1>1 DEF Present, documentsFromMarkdownFile
  <1>6. JobIsCurrent'
    <2>1. ToSet(<<>>) = {}
      BY DEF ToSet
    <2> QED  BY <1>1, <1>2, <1>3, <1>4, <1>5, <2>1 DEF JobIsCurrent, ScanPcs, SettleInv
  <1>7. PointsMatch'
    BY <1>1, <1>2, MatchesStay DEF SettleInv
  <1>8. Real(mem)' /\ Real(disk)'
    BY <1>1 DEF SettleInv, Real
  <1>9. Settling'
    BY <1>1 DEF SettleInv, Settling, IsTrue, Rising, AllIn, Texts, HomeTexts, Present
  <1>10. JobRecords' /\ FullJob' /\ LeanJob'
    <2>1. CASE coll
      <3>1. Embedding' => ~job.stale
        BY <1>2 DEF Embedding
      <3> QED  BY <2>1, <3>1, <1>1, <1>2, <1>3, <1>4, <1>8, WorkBegins
    <2>2. CASE ~coll
      <3>1. ~Embedding'
        BY <2>2, <1>2 DEF Embedding
      <3> QED  BY <3>1, NoWork
    <2> QED  BY <2>1, <2>2
  <1> QED  BY <1>6, <1>7, <1>8, <1>9, <1>10 DEF SettleInv

LEMMA ClearSettles == IndexInv /\ SettleInv /\ Clear => SettleInv'
  <1> SUFFICES ASSUME IndexInv, SettleInv, Clear  PROVE SettleInv'
    OBVIOUS
  <1>0. job \in Jobs
    BY DEF IndexInv, JobOK
  <1>1. /\ UNCHANGED <<docs, reg, coll, points, quiet>> /\ job.pc = "clear" /\ mem' = Empty /\ disk' = Empty
        /\ job' = [job EXCEPT !.pc = "classify", !.full = TRUE]
    BY DEF Clear, At, deleteCollection, Recorded
  <1>2. /\ job'.pc = "classify" /\ job'.stale = job.stale /\ job'.full /\ job'.batch = job.batch /\ job'.scan = job.scan
        /\ job'.todo = job.todo
    BY <1>0, <1>1 DEF Jobs
  <1>3. job.batch = <<>> /\ quiet = 0 /\ (~job.stale => coll /\ reg = "enabled" /\ Present \subseteq ToSet(job.todo))
    BY <1>1 DEF SettleInv, JobIsCurrent, ScanPcs
  <1>4. Present' = Present /\ \A p \in Paths : (documentsFromMarkdownFile(p))' = documentsFromMarkdownFile(p)
    BY <1>1 DEF Present, documentsFromMarkdownFile
  <1>5. JobIsCurrent'
    <2>1. ToSet(<<>>) = {}
      BY DEF ToSet
    <2> QED  BY <1>1, <1>2, <1>3, <1>4, <2>1 DEF JobIsCurrent, ScanPcs, SettleInv
  <1>6. PointsMatch' /\ Real(mem)' /\ Real(disk)'
    BY <1>1, <1>2, EmptyIsReal DEF PointsMatch, Matches, Real
  <1>7. Settling'
    BY <1>1, <1>3 DEF Settling
  <1>8. JobRecords' /\ FullJob' /\ LeanJob'
    <2>1. Embedding' => ~job.stale
      BY <1>2 DEF Embedding
    <2> QED  BY <2>1, <1>1, <1>2, <1>3, <1>6, WorkBegins
  <1> QED  BY <1>5, <1>6, <1>7, <1>8 DEF SettleInv

\* A step of a job that leaves records, documents and points alone.
LEMMA StandsStill ==
    ASSUME UNCHANGED <<docs, reg, mem, quiet>>
    PROVE  /\ Present' = Present /\ Rose' = Rose /\ LiveTexts(mem)' = LiveTexts(mem) /\ Texts(mem)' = Texts(mem)
           /\ \A p \in Paths : (documentsFromMarkdownFile(p))' = documentsFromMarkdownFile(p)
           /\ UNCHANGED disk \/ disk' = mem => (SettleInv /\ UNCHANGED coll => Settling')
  <1>1. /\ Present' = Present /\ LiveTexts(mem)' = LiveTexts(mem) /\ Texts(mem)' = Texts(mem)
        /\ \A p : (documentsFromMarkdownFile(p))' = documentsFromMarkdownFile(p)
    BY DEF LiveTexts, Texts, Present, documentsFromMarkdownFile
  <1>2. Rose' = Rose
    BY DEF Rose, HomeTexts, Present, documentsFromMarkdownFile
  <1>3. UNCHANGED disk => (SettleInv /\ UNCHANGED coll => Settling')
    BY DEF SettleInv, Settling, IsTrue, Rising, AllIn, Texts, HomeTexts, Present
  <1>4. disk' = mem => (SettleInv /\ UNCHANGED coll => Settling')
    BY DEF SettleInv, Settling, IsTrue, Rising, AllIn, Texts, HomeTexts, Present
  <1> QED  BY <1>1, <1>2, <1>3, <1>4

LEMMA UpsertSettles == IndexInv /\ SettleInv /\ Upsert => SettleInv'
  <1> SUFFICES ASSUME IndexInv, SettleInv, Upsert  PROVE SettleInv'
    OBVIOUS
  <1>0. job \in Jobs /\ points \in Records
    BY DEF IndexInv, IndexTyped, JobOK
  <1> DEFINE doc == Head(job.batch)
  <1>1. /\ UNCHANGED <<docs, reg, coll, mem, disk, quiet, lost>> /\ job.pc = "classify" /\ job.todo = <<>> /\ job.batch # <<>>
        /\ points' = [points EXCEPT ![doc.doc] = doc] /\ orphan' = orphan \cup {doc.doc}
        /\ job' = [job EXCEPT !.pc = "checkpoint"]
    BY DEF Upsert, At, deterministicPointID
  <1>2. /\ job'.pc = "checkpoint" /\ job'.stale = job.stale /\ job'.full = job.full /\ job'.batch = job.batch /\ job'.todo = job.todo
        /\ job'.scan = job.scan
    BY <1>0, <1>1 DEF Jobs
  <1>3. doc \in DocRecs /\ doc.doc \in Paths
    <2>1. job.batch \in Seq(DocRecs)
      BY <1>0 DEF Jobs
    <2> QED  BY <2>1, <1>1, HeadAndTail DEF DocRecs
  <1>4. /\ Present' = Present /\ Rose' = Rose /\ LiveTexts(mem)' = LiveTexts(mem) /\ Texts(mem)' = Texts(mem) /\ Settling'
        /\ \A p \in Paths : (documentsFromMarkdownFile(p))' = documentsFromMarkdownFile(p)
    BY <1>1, StandsStill
  <1>5. Left' = Left /\ Embedding' = Embedding
    BY <1>1, <1>2 DEF Left, Embedding
  <1>6. PointsMatch'
    <2>1. points'[doc.doc] = doc
      BY <1>0, <1>1, <1>3 DEF Records
    <2>2. \A i \in Paths \ (orphan' \cup lost') : points'[i] = points[i] /\ i \notin orphan \cup lost
      BY <1>0, <1>1 DEF Records
    <2>3. Matches(mem)' /\ Matches(disk)'
      BY <2>2, <1>1 DEF Matches, PointsMatch, SettleInv
    <2> QED  BY <2>1, <2>3, <1>1, <1>2 DEF PointsMatch
  <1> HIDE DEF doc
  <1>7. JobIsCurrent'
    BY <1>1, <1>2, <1>4 DEF JobIsCurrent, ScanPcs, SettleInv
  <1>8. JobRecords'
    BY <1>1, <1>2, <1>5 DEF JobRecords, SettleInv
  <1>9. FullJob'
    <2> SUFFICES ASSUME Embedding, job.full, NEW p \in Present, p \notin Left  PROVE Home(p)'
      BY <1>2, <1>4, <1>5 DEF FullJob
    <2>1. p \in Paths /\ Home(p)
      BY DEF SettleInv, FullJob, Present
    <2>2. p # doc.doc
      <3>1. doc \in ToSet(job.batch)
        <4>1. job.batch \in Seq(DocRecs)
          BY <1>0 DEF Jobs
        <4> QED  BY <4>1, <1>1, HeadAndTail DEF doc
      <3> QED  BY <3>1, <1>1 DEF Left
    <2> QED  BY <2>1, <2>2, <1>0, <1>1, <1>4 DEF Home, Records
  <1>10. LeanJob'
    BY <1>1, <1>2, <1>4, <1>5 DEF LeanJob, SettleInv
  <1> QED  BY <1>1, <1>4, <1>6, <1>7, <1>8, <1>9, <1>10 DEF SettleInv, Real

LEMMA PruneVectorsSettle == IndexInv /\ SettleInv /\ PruneVectors => SettleInv'
  <1> SUFFICES ASSUME IndexInv, SettleInv, PruneVectors  PROVE SettleInv'
    OBVIOUS
  <1>0. job \in Jobs /\ points \in Records
    BY DEF IndexInv, IndexTyped, JobOK
  <1>1. /\ UNCHANGED <<docs, reg, coll, mem, disk, quiet, orphan>> /\ job.pc = "classify" /\ job.todo = <<>> /\ job.batch = <<>>
        /\ points' = [p \in Paths |-> IF p \in Unseen THEN Nothing ELSE points[p]] /\ lost' = lost \cup Unseen
        /\ job' = [job EXCEPT !.pc = "prune"]
    BY DEF PruneVectors, At
  <1>2. /\ job'.pc = "prune" /\ job'.stale = job.stale /\ job'.full = job.full /\ job'.batch = job.batch /\ job'.todo = job.todo
        /\ job'.scan = job.scan
    BY <1>0, <1>1 DEF Jobs
  <1>4. /\ Present' = Present /\ Rose' = Rose /\ LiveTexts(mem)' = LiveTexts(mem) /\ Texts(mem)' = Texts(mem) /\ Settling'
        /\ \A p \in Paths : (documentsFromMarkdownFile(p))' = documentsFromMarkdownFile(p)
    BY <1>1, StandsStill
  <1>5. Left' = Left /\ Embedding' = Embedding
    BY <1>1, <1>2 DEF Left, Embedding, ToSet
  <1>6. PointsMatch'
    <2>1. \A i \in Paths \ (orphan' \cup lost') : points'[i] = points[i] /\ i \notin orphan \cup lost
      BY <1>1
    <2> QED  BY <2>1, <1>1, <1>2 DEF PointsMatch, Matches, SettleInv
  <1>7. JobIsCurrent'
    BY <1>1, <1>2, <1>4 DEF JobIsCurrent, ScanPcs, SettleInv
  <1>8. JobRecords'
    BY <1>1, <1>2, <1>5 DEF JobRecords, SettleInv
  <1>9. FullJob'
    <2> SUFFICES ASSUME Embedding, job.full, NEW p \in Present  PROVE Home(p)'
      BY <1>2, <1>4, <1>5 DEF FullJob
    <2>1. p \in Paths /\ Home(p) /\ docs[p] # 0
      BY <1>1 DEF SettleInv, FullJob, Present, Left, ToSet
    <2>2. mem[p].doc = p
      BY <2>1 DEF Home, documentsFromMarkdownFile
    <2>3. job.scan[p].c = docs[p]
      <3>1. job.scan[p] = documentsFromMarkdownFile(p)
        BY <2>1, <1>1 DEF SettleInv, JobIsCurrent, ScanPcs, Embedding
      <3>2. job.scan[p] = [doc |-> p, c |-> docs[p]]
        BY <3>1 DEF documentsFromMarkdownFile
      <3> QED  BY <3>2
    <2>4. p \notin Unseen
      BY <2>1, <2>2, <2>3 DEF Unseen
    <2> QED  BY <2>1, <2>4, <1>1, <1>4 DEF Home
  <1>10. LeanJob'
    BY <1>1, <1>2, <1>4, <1>5 DEF LeanJob, SettleInv
  <1> QED  BY <1>1, <1>4, <1>6, <1>7, <1>8, <1>9, <1>10 DEF SettleInv, Real

LEMMA StoreSettles == IndexInv /\ SettleInv /\ Store => SettleInv'
  <1> SUFFICES ASSUME IndexInv, SettleInv, Store  PROVE SettleInv'
    OBVIOUS
  <1>0. job \in Jobs
    BY DEF IndexInv, JobOK
  <1>1. /\ UNCHANGED <<docs, reg, coll, points, mem, quiet>> /\ job.pc = "store" /\ disk' = mem
        /\ orphan' = {i \in orphan : points[i] # Nothing \/ mem[i] # Nothing} /\ lost' = {i \in lost : mem[i] # Nothing}
        /\ job' = [job EXCEPT !.pc = "finish"]
    BY DEF Store, At
  <1>2. /\ job'.pc = "finish" /\ job'.stale = job.stale /\ job'.full = job.full /\ job'.batch = job.batch /\ job'.todo = job.todo
        /\ job'.scan = job.scan
    BY <1>0, <1>1 DEF Jobs
  <1>4. /\ Present' = Present /\ Rose' = Rose /\ LiveTexts(mem)' = LiveTexts(mem) /\ Texts(mem)' = Texts(mem) /\ Settling'
        /\ \A p \in Paths : (documentsFromMarkdownFile(p))' = documentsFromMarkdownFile(p)
    BY <1>1, StandsStill
  <1>5. Left' = Left /\ Embedding' = Embedding
    BY <1>1, <1>2 DEF Left, Embedding
  <1>6. PointsMatch'
    <2>1. \A i \in Paths \ (orphan' \cup lost') : mem[i] # Nothing => i \notin orphan \cup lost
      BY <1>1
    <2> QED  BY <2>1, <1>1, <1>2 DEF PointsMatch, Matches, SettleInv
  <1>7. JobIsCurrent'
    BY <1>1, <1>2, <1>4 DEF JobIsCurrent, ScanPcs, SettleInv
  <1>8. JobRecords'
    BY <1>1, <1>2, <1>5 DEF JobRecords, SettleInv
  <1>9. FullJob'
    <2>1. Present \subseteq Paths /\ \A p \in Paths : Home(p) => Home(p)'
      BY <1>1, <1>4 DEF Present, Home
    <2> QED  BY <2>1, <1>1, <1>2, <1>4, <1>5 DEF FullJob, SettleInv
  <1>10. LeanJob'
    BY <1>1, <1>2, <1>4, <1>5 DEF LeanJob, SettleInv
  <1> QED  BY <1>1, <1>4, <1>6, <1>7, <1>8, <1>9, <1>10 DEF SettleInv, Real

LEMMA PruneStateSettles == IndexInv /\ SettleInv /\ PruneState => SettleInv'
  <1> SUFFICES ASSUME IndexInv, SettleInv, PruneState  PROVE SettleInv'
    OBVIOUS
  <1>0. job \in Jobs /\ mem \in Records /\ docs \in [Paths -> Nat] /\ (job.stale => quiet = 0) /\ quiet \in Nat
    BY DEF IndexInv, IndexTyped, JobOK, RemovalSeen
  <1>1. /\ UNCHANGED <<docs, reg, coll, points, disk, quiet, orphan, lost>> /\ job.pc = "prune"
        /\ mem' = [p \in Paths |-> IF p \in Unseen THEN Nothing ELSE mem[p]] /\ job' = [job EXCEPT !.pc = "store"]
    BY DEF PruneState, At
  <1>2. /\ job'.pc = "store" /\ job'.stale = job.stale /\ job'.full = job.full /\ job'.batch = job.batch /\ job'.todo = job.todo
        /\ job'.scan = job.scan
    BY <1>0, <1>1 DEF Jobs
  <1>3. Present' = Present /\ \A p \in Paths : (documentsFromMarkdownFile(p))' = documentsFromMarkdownFile(p)
    BY <1>1 DEF Present, documentsFromMarkdownFile
  <1>4. \A i \in Paths : mem'[i] = IF i \in Unseen THEN Nothing ELSE mem[i]
    BY <1>1
  <1>5. Real(mem) /\ Real(disk)
    BY DEF SettleInv
  <1>6. \A i \in Paths : mem[i] # Nothing => mem[i].doc \in Paths /\ mem[i].c # 0 /\ mem[i].c \in Nat
    BY <1>5 DEF Real, DocRecs, Recs
  <1>7. Real(mem)' /\ Real(disk)'
    <2>1. \A i \in Paths : mem'[i] = Nothing \/ mem'[i] = mem[i]
      BY <1>4
    <2>2. mem' \in Records
      BY <1>0, <1>1, NothingIs DEF Records
    <2>3. \A i, j \in Paths : mem'[i] # Nothing /\ mem'[i].doc = mem'[j].doc => i = j
      <3> SUFFICES ASSUME NEW i \in Paths, NEW j \in Paths, mem'[i] # Nothing, mem'[i].doc = mem'[j].doc  PROVE i = j
        OBVIOUS
      <3>1. mem'[i] = mem[i] /\ mem[i].doc \in Paths /\ mem[i] # Nothing
        BY <2>1, <1>6
      <3>2. mem'[j] # Nothing
        BY <3>1, NoneIsNoPath
      <3> QED  BY <3>1, <3>2, <2>1, <1>5 DEF Real
    <2> QED  BY <1>1, <1>5, <2>1, <2>2, <2>3 DEF Real
  <1>8. PointsMatch'
    BY <1>1, <1>2, <1>4 DEF PointsMatch, Matches, SettleInv
  <1>9. ~job.stale => \A i \in Paths : i \in Unseen <=> (mem[i] # Nothing /\ docs[mem[i].doc] = 0)
    <2> SUFFICES ASSUME ~job.stale, NEW i \in Paths  PROVE i \in Unseen <=> (mem[i] # Nothing /\ docs[mem[i].doc] = 0)
      OBVIOUS
    <2>1. \A p \in Paths : job.scan[p] = documentsFromMarkdownFile(p)
      BY <1>1 DEF SettleInv, JobIsCurrent, ScanPcs
    <2>2. mem[i] # Nothing => job.scan[mem[i].doc].c = docs[mem[i].doc]
      <3>1. \A p \in Paths : job.scan[p].c = docs[p]
        <4>1. ASSUME NEW p \in Paths  PROVE job.scan[p].c = docs[p]
          <5>1. job.scan[p] = [doc |-> p, c |-> docs[p]]
            BY <2>1 DEF documentsFromMarkdownFile
          <5> QED  BY <5>1
        <4> QED  BY <4>1
      <3> QED  BY <3>1, <1>6
    <2> QED  BY <2>2 DEF Unseen
  <1>10. quiet >= 1 /\ reg = "enabled" => mem' = mem
    <2> SUFFICES ASSUME quiet >= 1, reg = "enabled"  PROVE mem' = mem
      OBVIOUS
    <2>1. ~job.stale /\ IsTrue(mem)
      BY <1>0 DEF SettleInv, Settling
    <2>2. \A i \in Paths : i \notin Unseen
      BY <2>1, <1>6, <1>9 DEF IsTrue
    <2> QED  BY <2>2, <1>0, <1>1 DEF Records
  <1>11. Settling'
    <2>1. CASE quiet >= 1 /\ reg = "enabled"
      BY <2>1, <1>1, <1>10, StandsStill
    <2> QED  BY <2>1, <1>1 DEF Settling
  <1>12. JobIsCurrent'
    BY <1>1, <1>2, <1>3 DEF JobIsCurrent, ScanPcs, SettleInv
  <1>13. Embedding' = Embedding /\ Left = {} /\ Left' = {}
    BY <1>1, <1>2 DEF Embedding, Left
  <1>14. JobRecords'
    <2> SUFFICES ASSUME Embedding  PROVE JobRecords'
      BY <1>13 DEF JobRecords
    <2>1. ~job.stale /\ coll
      BY DEF Embedding, SettleInv, JobRecords
    <2>2. ASSUME NEW i \in Paths, mem'[i] # Nothing  PROVE mem'[i].c = docs[mem'[i].doc]
      <3>1. mem'[i] = mem[i] /\ i \notin Unseen
        BY <2>2, <1>4
      <3>2. docs[mem[i].doc] # 0
        BY <3>1, <2>1, <2>2, <1>9
      <3>3. mem[i].c = docs[mem[i].doc]
        BY <3>1, <3>2, <2>2, <1>13 DEF SettleInv, JobRecords
      <3> QED  BY <3>1, <3>3
    <2> QED  BY <1>1, <1>2, <2>1, <2>2 DEF JobRecords
  <1>15. ~job.stale => \A p \in Present : mem[p] = documentsFromMarkdownFile(p) => mem'[p] = mem[p]
    <2> SUFFICES ASSUME ~job.stale, NEW p \in Present, mem[p] = documentsFromMarkdownFile(p)  PROVE mem'[p] = mem[p]
      OBVIOUS
    <2>1. p \in Paths /\ mem[p].doc = p /\ docs[p] # 0
      BY DEF Present, documentsFromMarkdownFile
    <2> QED  BY <2>1, <1>4, <1>9
  <1>16. FullJob'
    <2> SUFFICES ASSUME Embedding, job.full, NEW p \in Present  PROVE Home(p)'
      BY <1>2, <1>3, <1>13 DEF FullJob
    <2>1. Home(p) /\ p \in Paths
      BY <1>13 DEF SettleInv, FullJob, Present
    <2>2. mem'[p] = mem[p]
      BY <2>1, <1>15 DEF Embedding, Home
    <2> QED  BY <2>1, <2>2, <1>1, <1>3 DEF Home
  <1>17. LeanJob'
    <2> SUFFICES ASSUME Embedding, ~job.full  PROVE LeanJob'
      BY <1>2, <1>13 DEF LeanJob
    <2>1. ~job.stale /\ reg = "enabled"
      BY DEF Embedding
    <2>2. LiveTexts(mem) \subseteq LiveTexts(mem)'
      <3> SUFFICES ASSUME NEW i \in Paths, mem[i] # Nothing, docs[mem[i].doc] # 0  PROVE mem[i].c \in LiveTexts(mem)'
        BY DEF LiveTexts
      <3>1. mem'[i] = mem[i]
        BY <2>1, <1>4, <1>9
      <3> QED  BY <3>1, <1>1 DEF LiveTexts
    <2>3. Rose => Rose'
      <3>1. CASE quiet = 0
        <4> SUFFICES ASSUME NEW p \in Present, mem[p] = documentsFromMarkdownFile(p)  PROVE Rose'
          BY <3>1 DEF Rose
        <4>1. mem'[p] = documentsFromMarkdownFile(p) /\ p \in Paths
          BY <2>1, <1>15 DEF Present
        <4> QED  BY <4>1, <3>1, <1>1, <1>3 DEF Rose
      <3>2. CASE quiet # 0
        <4>1. mem' = mem
          BY <3>2, <2>1, <1>0, <1>10
        <4> QED  BY <4>1, <1>1, StandsStill
      <3> QED  BY <3>1, <3>2
    <2>4. quiet >= 1 => mem' = mem /\ Texts(mem)' = Texts(mem)
      BY <1>10, <2>1 DEF Texts
    <2>5. \A p \in Present : docs[p] \in LiveTexts(mem) \/ (job.todo = <<>> /\ Rose)
      BY <1>13 DEF SettleInv, LeanJob
    <2>6. quiet >= 1 => \A b \in ToSet(job.batch) : b.c \notin Texts(mem) \/ Rose
      BY DEF SettleInv, LeanJob
    <2>7. \A p \in Present' : docs'[p] \in LiveTexts(mem)' \/ (job'.todo = <<>> /\ Rose')
      BY <2>2, <2>3, <2>5, <1>1, <1>2, <1>3
    <2>8. quiet' >= 1 => \A b \in ToSet(job'.batch) : b.c \notin Texts(mem)' \/ Rose'
      BY <2>3, <2>4, <2>6, <1>1, <1>2
    <2> QED  BY <2>7, <2>8 DEF LeanJob
  <1> QED  BY <1>7, <1>8, <1>11, <1>12, <1>14, <1>16, <1>17 DEF SettleInv

\* A document's record at its own point, instead of every other record of it and of the point.
LEMMA RecordedAtHome ==
    ASSUME IndexInv, SettleInv, NEW doc, Written(doc), UNCHANGED <<docs, reg, quiet>>, doc.c = docs[doc.doc]
    PROVE  /\ \A i \in Paths : i # doc.doc => mem'[i] = Nothing \/ mem'[i] = mem[i]
           /\ mem'[doc.doc] = documentsFromMarkdownFile(doc.doc) /\ doc.doc \in Present
           /\ IsTrue(mem) => IsTrue(mem)' /\ HomeTexts(mem) \cup {doc.c} \subseteq HomeTexts(mem)'
  <1>1. doc \in DocRecs /\ doc.doc \in Paths /\ doc.c # 0 /\ IndexTyped /\ Real(mem)
    BY DEF Written, DocRecs, IndexInv, SettleInv
  <1>2. mem'[doc.doc] = doc /\ \A j \in Paths : j # doc.doc => mem'[j] = IF mem[j].doc = doc.doc THEN Nothing ELSE mem[j]
    BY <1>1, PutPointIs DEF Written
  <1>3. doc = documentsFromMarkdownFile(doc.doc) /\ doc.doc \in Present
    <2>1. doc = [doc |-> doc.doc, c |-> doc.c]
      BY <1>1 DEF DocRecs, Recs
    <2> QED  BY <2>1, <1>1 DEF documentsFromMarkdownFile, Present
  <1>4. ASSUME IsTrue(mem)  PROVE IsTrue(mem)'
    <2>1. ASSUME NEW i \in Paths, mem'[i] # Nothing  PROVE mem'[i].c = docs[mem'[i].doc]
      <3>1. CASE i = doc.doc
        BY <3>1, <1>2
      <3>2. CASE i # doc.doc
        <4>1. mem'[i] = mem[i] /\ mem[i] # Nothing
          BY <3>2, <2>1, <1>2
        <4> QED  BY <4>1, <1>4 DEF IsTrue
      <3> QED  BY <3>1, <3>2
    <2> QED  BY <2>1 DEF IsTrue
  <1>5. ASSUME IsTrue(mem)  PROVE HomeTexts(mem) \cup {doc.c} \subseteq HomeTexts(mem)'
    <2>1. doc.c \in HomeTexts(mem)'
      <3>1. doc.doc \in Present' /\ mem'[doc.doc].c = docs'[doc.doc] /\ docs'[doc.doc] = doc.c
        BY <1>2, <1>3 DEF Present
      <3> QED  BY <3>1 DEF HomeTexts
    <2>2. ASSUME NEW q \in Present, mem[q].c = docs[q]  PROVE docs[q] \in HomeTexts(mem)'
      <3>1. q \in Paths /\ docs[q] # 0 /\ mem[q] # Nothing
        BY <2>2, NothingIs DEF Present
      <3>2. CASE mem'[q].c = docs[q]
        BY <3>2 DEF HomeTexts, Present
      <3>3. CASE mem'[q].c # docs[q]
        <4>1. q = doc.doc \/ mem[q].doc = doc.doc
          BY <3>3, <3>1, <2>2, <1>2
        <4>2. q # doc.doc
          BY <3>3, <1>2
        <4>3. docs[q] = doc.c
          BY <4>1, <4>2, <3>1, <2>2, <1>5 DEF IsTrue
        <4> QED  BY <4>3, <2>1
      <3> QED  BY <3>2, <3>3
    <2> QED  BY <2>1, <2>2 DEF HomeTexts
  <1> QED  BY <1>2, <1>3, <1>4, <1>5

LEMMA CheckpointSettles == IndexInv /\ SettleInv /\ Checkpoint => SettleInv'
  <1> SUFFICES ASSUME IndexInv, SettleInv, Checkpoint  PROVE SettleInv'
    OBVIOUS
  <1> DEFINE doc == Head(job.batch)
  <1>0. job \in Jobs /\ mem \in Records /\ docs \in [Paths -> Nat] /\ (job.stale => quiet = 0) /\ quiet \in Nat /\ IndexTyped
    BY DEF IndexInv, IndexTyped, JobOK, RemovalSeen
  <1>1. /\ UNCHANGED <<docs, reg, coll, points, quiet>> /\ job.pc = "checkpoint" /\ job.todo = <<>> /\ job.batch # <<>>
        /\ job' = [job EXCEPT !.pc = "classify", !.batch = Tail(@)]
    BY DEF Checkpoint, At, IndexInv, JobOK, SettleInv, JobIsCurrent
  <1>2. doc \in DocRecs /\ doc.doc \in Paths /\ job.batch \in Seq(DocRecs) /\ Tail(job.batch) \in Seq(DocRecs)
        /\ ToSet(job.batch) = {doc} \cup ToSet(Tail(job.batch))
    <2>1. job.batch \in Seq(DocRecs)
      BY <1>0 DEF Jobs
    <2> QED  BY <2>1, <1>1, HeadAndTail DEF DocRecs
  <1>3. Written(doc)
    BY <1>2 DEF Checkpoint, Checkpointed, Recorded, Written
  <1> HIDE DEF doc
  <1>4. PICK batch \in Seq(DocRecs) : batch = Tail(job.batch)
    BY <1>2
  <1>5. job' = [job EXCEPT !.pc = "classify", !.batch = batch]
    BY <1>1, <1>4, <1>0 DEF Jobs
  <1>6. /\ job'.pc = "classify" /\ job'.stale = job.stale /\ job'.full = job.full /\ job'.batch = batch /\ job'.todo = job.todo
        /\ job'.scan = job.scan
    BY <1>0, <1>5 DEF Jobs
  <1>7. Present' = Present /\ Present \subseteq Paths /\ \A p \in Paths : (documentsFromMarkdownFile(p))' = documentsFromMarkdownFile(p)
    BY <1>1 DEF Present, documentsFromMarkdownFile
  <1>8. /\ mem'[doc.doc] = doc /\ \A j \in Paths : j # doc.doc => mem'[j] = IF mem[j].doc = doc.doc THEN Nothing ELSE mem[j]
        /\ disk' = mem' /\ mem' \in Records
        /\ orphan' = (orphan \cup Dropped(putPoint(doc.doc, doc))) \ {doc.doc}
        /\ lost' = IF points[doc.doc] = doc THEN lost \ {doc.doc} ELSE lost \cup {doc.doc}
    BY <1>0, <1>2, <1>3, PutPointIs DEF Written
  <1>9. Real(mem) /\ \A i \in Paths : mem[i] # Nothing => mem[i].doc \in Paths
    BY DEF SettleInv, Real, DocRecs
  <1>10. Real(mem)' /\ Real(disk)'
    <2>1. \A i \in Paths : mem'[i] = Nothing \/ mem'[i] \in DocRecs
      BY <1>2, <1>8, <1>9 DEF Real
    <2>2. \A i, j \in Paths : mem'[i] # Nothing /\ mem'[i].doc = mem'[j].doc => i = j
      <3> SUFFICES ASSUME NEW i \in Paths, NEW j \in Paths, mem'[i] # Nothing, mem'[i].doc = mem'[j].doc  PROVE i = j
        OBVIOUS
      <3>1. mem'[i].doc \in Paths /\ mem'[j] # Nothing
        BY <2>1, NoneIsNoPath DEF DocRecs
      <3>2. CASE i = doc.doc
        BY <3>1, <3>2, <1>8
      <3>3. CASE j = doc.doc
        BY <3>1, <3>3, <1>8
      <3>4. CASE i # doc.doc /\ j # doc.doc
        BY <3>1, <3>4, <1>8, <1>9 DEF Real
      <3> QED  BY <3>2, <3>3, <3>4
    <2> QED  BY <1>8, <2>1, <2>2 DEF Real
  <1>11. PointsMatch'
    <2> SUFFICES (Matches(mem))' /\ (Matches(disk))'
      BY <1>1, <1>6 DEF PointsMatch
    <2>1. Matches(mem)
      BY DEF SettleInv, PointsMatch
    <2>2. ASSUME NEW i \in Paths \ (orphan' \cup lost'), mem'[i] # Nothing  PROVE points[i].c = mem'[i].c
      <3>1. CASE i = doc.doc
        BY <3>1, <2>2, <1>8
      <3>2. CASE i # doc.doc
        <4>1. i \notin orphan \cup lost /\ mem'[i] = mem[i]
          BY <3>2, <2>2, <1>8
        <4> QED  BY <4>1, <2>1, <2>2 DEF Matches
      <3> QED  BY <3>1, <3>2
    <2> QED  BY <2>2, <1>1, <1>8 DEF Matches
  <1>12. JobIsCurrent'
    BY <1>1, <1>2, <1>4, <1>6, <1>7 DEF JobIsCurrent, ScanPcs, SettleInv
  <1>13. Embedding' = Embedding
    BY <1>1, <1>6 DEF Embedding
  <1>14. Left = Left' \cup {doc.doc}
    BY <1>1, <1>2, <1>4, <1>6 DEF Left
  <1>15. ~job.stale => doc.c = docs[doc.doc]
    BY <1>1, <1>2 DEF SettleInv, JobIsCurrent
  <1>16. JobRecords'
    <2> SUFFICES ASSUME Embedding  PROVE JobRecords'
      BY <1>13 DEF JobRecords
    <2>1. ~job.stale /\ coll
      BY DEF Embedding, SettleInv, JobRecords
    <2>2. ASSUME NEW i \in Paths, mem'[i] # Nothing
          PROVE  mem'[i].c = docs[mem'[i].doc] \/ mem'[i].doc \in Left' \/ docs[mem'[i].doc] = 0
      <3>1. CASE i = doc.doc
        BY <3>1, <2>1, <1>8, <1>15
      <3>2. CASE i # doc.doc
        <4>1. mem'[i] = mem[i] /\ mem[i].doc # doc.doc
          BY <3>2, <2>2, <1>8
        <4>2. mem[i].c = docs[mem[i].doc] \/ mem[i].doc \in Left \/ docs[mem[i].doc] = 0
          BY <4>1, <2>2 DEF SettleInv, JobRecords
        <4> QED  BY <4>1, <4>2, <1>14
      <3> QED  BY <3>1, <3>2
    <2> QED  BY <1>1, <1>6, <2>1, <2>2 DEF JobRecords
  <1>17. FullJob'
    <2> SUFFICES ASSUME Embedding, job.full, NEW p \in Present, p \notin Left'  PROVE Home(p)'
      BY <1>6, <1>7, <1>13 DEF FullJob
    <2>1. CASE p = doc.doc
      <3>1. ~job.stale
        BY DEF Embedding
      <3>2. points[p] = doc
        BY <2>1, <3>1, <1>1 DEF SettleInv, PointsMatch, doc
      <3>3. mem'[p] = documentsFromMarkdownFile(p) /\ mem'[p] = doc
        BY <2>1, <3>1, <1>1, <1>3, <1>8, <1>15, RecordedAtHome
      <3>4. p \notin orphan' \cup lost'
        BY <2>1, <3>2, <1>8
      <3> QED  BY <3>2, <3>3, <3>4, <1>1, <1>7 DEF Home
    <2>2. CASE p # doc.doc
      <3>1. Home(p) /\ p \in Paths /\ docs[p] # 0
        BY <2>2, <1>14 DEF SettleInv, FullJob, Present
      <3>2. mem[p].doc = p /\ mem[p] # Nothing
        BY <3>1, NoneIsNoPath DEF Home, documentsFromMarkdownFile
      <3>3. mem'[p] = mem[p] /\ putPoint(doc.doc, doc)[p] = mem[p]
        BY <2>2, <3>1, <3>2, <1>3, <1>8 DEF Written
      <3>4. p \notin Dropped(putPoint(doc.doc, doc))
        BY <3>2, <3>3 DEF Dropped
      <3>5. p \notin orphan' \cup lost'
        BY <2>2, <3>1, <3>4, <1>8 DEF Home
      <3> QED  BY <3>1, <3>3, <3>5, <1>1, <1>7 DEF Home
    <2> QED  BY <2>1, <2>2
  <1>18. ~job.stale => doc.doc \in Present /\ mem'[doc.doc] = documentsFromMarkdownFile(doc.doc)
    BY <1>1, <1>3, <1>15, RecordedAtHome
  <1>19. quiet >= 1 /\ reg = "enabled" =>
            /\ IsTrue(mem) /\ ~job.stale /\ ~job.full /\ Embedding /\ IsTrue(mem)' /\ HomeTexts(mem) \cup {doc.c} \subseteq HomeTexts(mem)' /\ coll
            /\ Rising(mem)
    <2> SUFFICES ASSUME quiet >= 1, reg = "enabled"
                 PROVE  /\ IsTrue(mem) /\ ~job.stale /\ ~job.full /\ Embedding /\ coll /\ Rising(mem)
                        /\ IsTrue(mem)' /\ HomeTexts(mem) \cup {doc.c} \subseteq HomeTexts(mem)'
      OBVIOUS
    <2>1. IsTrue(mem) /\ ~job.stale /\ ~job.full /\ coll /\ Rising(mem)
      BY <1>0, <1>1 DEF SettleInv, Settling, JobIsCurrent
    <2>2. Embedding
      BY <2>1, <1>1 DEF Embedding
    <2> QED  BY <2>1, <2>2, <1>1, <1>3, <1>15, RecordedAtHome
  <1>20. quiet >= 1 /\ reg = "enabled" => Cardinality(HomeTexts(mem)') > quiet
    <2> SUFFICES ASSUME quiet >= 1, reg = "enabled"  PROVE Cardinality(HomeTexts(mem)') > quiet
      OBVIOUS
    <2>1. docs' \in [Paths -> Nat]
      BY <1>0, <1>1
    <2>2. IsFiniteSet(HomeTexts(mem)') /\ Cardinality(HomeTexts(mem)') \in Nat
      <3>1. HomeTexts(mem)' = HomeTexts(mem')
        BY <1>1, <1>7 DEF HomeTexts
      <3> QED  BY <3>1, <1>0, TextsFinite
    <2>3. IsFiniteSet(HomeTexts(mem)) /\ Cardinality(HomeTexts(mem)) \in Nat
      BY <1>0, TextsFinite
    <2>4. CASE Rose
      <3>1. Cardinality(HomeTexts(mem)) > quiet
        BY <2>4, <1>0 DEF Rose
      <3>2. Cardinality(HomeTexts(mem)) <= Cardinality(HomeTexts(mem)')
        BY <1>19, <2>2, FS_Subset
      <3> QED  BY <3>1, <3>2, <2>2, <2>3, <1>0
    <2>5. CASE ~Rose
      <3>1. doc.c \notin Texts(mem)
        BY <2>5, <1>2, <1>19 DEF SettleInv, LeanJob
      <3>2. ~AllIn(mem)
        BY <3>1, <1>15, <1>18, <1>19 DEF AllIn
      <3>3. Cardinality(HomeTexts(mem)) >= quiet
        BY <3>2, <1>19 DEF Rising
      <3>4. HomeTexts(mem) \subseteq Texts(mem)
        BY DEF HomeTexts, Texts, Present
      <3>5. doc.c \notin HomeTexts(mem)
        BY <3>1, <3>4
      <3>6. /\ IsFiniteSet(HomeTexts(mem) \cup {doc.c})
            /\ Cardinality(HomeTexts(mem) \cup {doc.c}) = Cardinality(HomeTexts(mem)) + 1
        BY <3>5, <2>3, FS_AddElement
      <3>7. Cardinality(HomeTexts(mem) \cup {doc.c}) <= Cardinality(HomeTexts(mem)')
        BY <1>19, <2>2, FS_Subset
      <3> QED  BY <3>3, <3>6, <3>7, <2>2, <2>3, <1>0
    <2> QED  BY <2>4, <2>5
  <1>21. Embedding => Rose'
    <2>1. CASE quiet = 0
      BY <2>1, <1>1, <1>2, <1>7, <1>18 DEF Rose, Embedding
    <2>2. CASE quiet # 0
      BY <2>2, <1>0, <1>1, <1>20 DEF Rose, Embedding
    <2> QED  BY <2>1, <2>2
  <1>22. LeanJob'
    BY <1>1, <1>6, <1>13, <1>21 DEF LeanJob
  <1>23. Settling'
    <2> SUFFICES ASSUME quiet >= 1, reg = "enabled"  PROVE Settling'
      BY <1>1 DEF Settling
    <2>1. Rising(mem)' /\ IsTrue(mem)' /\ coll
      <3>1. Cardinality(HomeTexts(mem)') \in Nat
        <4>1. HomeTexts(mem)' = HomeTexts(mem')
          BY <1>1, <1>7 DEF HomeTexts
        <4> QED  BY <4>1, <1>0, TextsFinite
      <3> QED  BY <3>1, <1>0, <1>1, <1>19, <1>20 DEF Rising
    <2>2. Rising(disk)' /\ IsTrue(disk)'
      BY <2>1, <1>8 DEF Rising, IsTrue, AllIn, Texts, HomeTexts
    <2> QED  BY <2>1, <2>2, <1>1 DEF Settling
  <1> QED  BY <1>10, <1>11, <1>12, <1>16, <1>17, <1>22, <1>23 DEF SettleInv

\* What Classify does with a document, when nothing overtook the job: it keeps its record, it adopts one, or it is to be embedded.
Kept(p) == (\E i \in Paths : mem[i] = job.scan[p]) /\ UNCHANGED <<points, mem>>
Queued(p) ==
    /\ UNCHANGED <<points, mem>>
    /\ job.full \/ (findByIdentity(p) = {} /\ findByContentHash(job.scan[p].c) = {}) \/ \E i \in findByIdentity(p) : mem[i].c # job.scan[p].c
LEMMA ClassifyCases ==
    ASSUME IndexInv, Classify
    PROVE  \E p \in Paths :
             /\ p = Head(job.todo) /\ job.todo # <<>> /\ job.scan[p] \in DocRecs /\ job.scan[p].doc = p /\ job'.todo = Tail(job.todo)
             /\ job'.pc = "classify" /\ job'.stale = job.stale /\ job'.full = job.full /\ job'.scan = job.scan
             /\ \/ ~job.full /\ Kept(p) /\ job'.batch = job.batch
                \/ ~job.full /\ (\E i \in Paths : Adopted(i, job.scan[p])) /\ job'.batch = job.batch
                \/ Queued(p) /\ job'.batch = Append(job.batch, job.scan[p])
  <1> DEFINE p == Head(job.todo)
             doc == job.scan[p]
  <1>0. job.pc = "classify" /\ job.todo # <<>> /\ job.todo \in Seq(FoundIn(job.scan)) /\ (\A q \in Paths : job.scan[q].doc = q) /\ job \in Jobs
    BY DEF Classify, At, IndexInv, JobOK
  <1>1. p \in FoundIn(job.scan)
    BY <1>0, SeqParts
  <1>2. doc \in DocRecs /\ doc.doc = p /\ p \in Paths
    BY <1>0, <1>1 DEF FoundIn, DocRecs, Jobs, Records
  <1>3. \/ ~job.full /\ Kept(p) /\ job' = [job EXCEPT !.todo = Tail(@)]
        \/ /\ ~job.full /\ (\E i \in Paths : Adopted(i, doc)) /\ job' = [job EXCEPT !.todo = Tail(@)]
        \/ Queued(p) /\ job' = [[job EXCEPT !.todo = Tail(@)] EXCEPT !.batch = Append(@, doc)]
    <2>1. \/ ~job.full /\ (\E i \in findByIdentity(p) : mem[i] = doc) /\ UNCHANGED <<points, mem>> /\ job' = [job EXCEPT !.todo = Tail(@)]
          \/ /\ ~job.full /\ findByIdentity(p) = {}
             /\ \E i \in findByContentHash(doc.c) : /\ points' = IF points[i] = Nothing THEN points ELSE [points EXCEPT ![i].doc = p]
                                                    /\ mem' = putPoint(i, doc)
             /\ job' = [job EXCEPT !.todo = Tail(@)]
          \/ /\ job.full \/ (findByIdentity(p) = {} /\ findByContentHash(doc.c) = {}) \/ \E i \in findByIdentity(p) : mem[i].c # doc.c
             /\ job' = [[job EXCEPT !.todo = Tail(@)] EXCEPT !.batch = Append(@, doc)] /\ UNCHANGED <<points, mem>>
      BY DEF Classify
    <2> HIDE DEF p
    <2>2. \A i : i \in findByContentHash(doc.c) => i \in Paths /\ mem[i].c = doc.c
      BY DEF findByContentHash
    <2>3. \A i : i \in findByIdentity(p) => i \in Paths
      BY DEF findByIdentity
    <2> QED  BY <2>1, <2>2, <2>3, <1>2 DEF Kept, Queued, Adopted
  <1> HIDE DEF p, doc
  <1>4. Tail(job.todo) \in Seq(Paths) /\ job.batch \in Seq(DocRecs) /\ Append(job.batch, doc) \in Seq(DocRecs)
    <2>1. job.todo \in Seq(Paths) /\ job.batch \in Seq(DocRecs)
      BY <1>0 DEF Jobs
    <2> QED  BY <2>1, <1>0, <1>2, SeqParts, SeqLonger
  <1>5. PICK left \in Seq(Paths) : left = Tail(job.todo)
    BY <1>4
  <1>6. PICK batch \in Seq(DocRecs) : batch = Append(job.batch, doc)
    BY <1>4
  <1>7. job' = [job EXCEPT !.todo = Tail(@)] => job' = [job EXCEPT !.todo = left]
    BY <1>0, <1>5 DEF Jobs
  <1>8. job' = [[job EXCEPT !.todo = Tail(@)] EXCEPT !.batch = Append(@, doc)] => job' = [job EXCEPT !.todo = left, !.batch = batch]
    BY <1>0, <1>5, <1>6 DEF Jobs
  <1>9. job' = [job EXCEPT !.todo = left] =>
           job'.pc = "classify" /\ job'.stale = job.stale /\ job'.full = job.full /\ job'.scan = job.scan /\ job'.todo = left /\ job'.batch = job.batch
    BY <1>0 DEF Jobs
  <1>10. job' = [job EXCEPT !.todo = left, !.batch = batch] =>
           job'.pc = "classify" /\ job'.stale = job.stale /\ job'.full = job.full /\ job'.scan = job.scan /\ job'.todo = left /\ job'.batch = batch
    BY <1>0 DEF Jobs
  <1>11. \/ ~job.full /\ Kept(p) /\ job'.batch = job.batch
         \/ ~job.full /\ (\E i \in Paths : Adopted(i, doc)) /\ job'.batch = job.batch
         \/ Queued(p) /\ job'.batch = batch
    BY <1>3, <1>7, <1>8, <1>9, <1>10
  <1>12. job'.pc = "classify" /\ job'.stale = job.stale /\ job'.full = job.full /\ job'.scan = job.scan /\ job'.todo = left
    BY <1>3, <1>7, <1>8, <1>9, <1>10
  <1> QED  BY <1>0, <1>2, <1>5, <1>6, <1>11, <1>12 DEF p, doc

\* A document that adopts the record of its text changes no text of the records.
LEMMA AdoptedIs ==
    ASSUME IndexInv, SettleInv, NEW i \in Paths, NEW doc, Adopted(i, doc), UNCHANGED <<docs, reg, quiet, coll, disk, orphan, lost>>, job'.pc = "classify"
    PROVE  /\ mem'[i] = doc /\ mem[i].c = doc.c /\ (\A j \in Paths : j # i => mem'[j] = mem[j])
           /\ (\A j \in Paths : mem[j].doc # doc.doc)
           /\ Real(mem)' /\ PointsMatch' /\ Texts(mem)' = Texts(mem) /\ HomeTexts(mem)' = HomeTexts(mem)
           /\ doc.c = docs[doc.doc] /\ quiet >= 1 /\ reg = "enabled" => Settling'
  <1>1. doc \in DocRecs /\ doc.doc \in Paths /\ doc.c # 0 /\ IndexTyped /\ Real(mem) /\ mem[i].c = doc.c /\ mem' = putPoint(i, doc) /\ points \in Records
    BY DEF Adopted, DocRecs, IndexInv, IndexTyped, SettleInv
  <1>2. \A j \in Paths : mem[j].doc # doc.doc
    BY DEF Adopted, findByIdentity
  <1>3. mem'[i] = doc /\ mem' \in Records /\ \A j \in Paths : j # i => mem'[j] = mem[j]
    BY <1>1, <1>2, PutPointIs
  <1>4. \A j \in Paths : mem'[j].c = mem[j].c
    BY <1>1, <1>3
  <1>5. Real(mem)'
    <2>1. \A j, k \in Paths : mem'[j] # Nothing /\ mem'[j].doc = mem'[k].doc => j = k
      BY <1>1, <1>2, <1>3 DEF Real
    <2> QED  BY <1>1, <1>3, <2>1 DEF Real
  <1>6. \A j \in Paths : points'[j].c = points[j].c
    <2>1. points' = IF points[i] = Nothing THEN points ELSE [points EXCEPT ![i].doc = doc.doc]
      BY DEF Adopted
    <2>2. points[i] \in Recs
      BY <1>1 DEF Records
    <2>3. points' = points \/ points' = [points EXCEPT ![i] = [points[i] EXCEPT !.doc = doc.doc]]
      BY <2>1, <1>1 DEF Records
    <2>4. [points[i] EXCEPT !.doc = doc.doc].c = points[i].c
      BY <2>2 DEF Recs
    <2> QED  BY <2>3, <2>4, <1>1 DEF Records
  <1>7. PointsMatch'
    <2>1. ASSUME NEW j \in Paths \ (orphan \cup lost)  PROVE (mem'[j] # Nothing => points'[j].c = mem'[j].c) /\ (disk[j] # Nothing => points'[j].c = disk[j].c)
      <3>1. mem'[j] # Nothing => mem[j] # Nothing
        BY <1>1, <1>3, NothingIs
      <3> QED  BY <3>1, <2>1, <1>4, <1>6 DEF SettleInv, PointsMatch, Matches
    <2> QED  BY <2>1 DEF PointsMatch, Matches
  <1>8. Texts(mem)' = Texts(mem)
    BY <1>4 DEF Texts
  <1>9. HomeTexts(mem)' = HomeTexts(mem) /\ HomeTexts(disk)' = HomeTexts(disk)
    BY <1>4 DEF HomeTexts, Present
  <1>10. ASSUME doc.c = docs[doc.doc], quiet >= 1, reg = "enabled"  PROVE Settling'
    <2>1. coll /\ IsTrue(mem) /\ IsTrue(disk) /\ Rising(mem) /\ Rising(disk)
      BY <1>10 DEF SettleInv, Settling
    <2>2. IsTrue(mem)'
      <3>1. ASSUME NEW j \in Paths, mem'[j] # Nothing  PROVE mem'[j].c = docs[mem'[j].doc]
        BY <3>1, <2>1, <1>3, <1>10 DEF IsTrue
      <3> QED  BY <3>1 DEF IsTrue
    <2>3. Rising(mem)'
      BY <2>1, <1>8, <1>9 DEF Rising, AllIn, Present
    <2>4. Rising(disk)' /\ IsTrue(disk)'
      BY <2>1, <1>9 DEF Rising, AllIn, Present, Texts, IsTrue
    <2> QED  BY <2>1, <2>2, <2>3, <2>4 DEF Settling
  <1> QED  BY <1>1, <1>2, <1>3, <1>5, <1>7, <1>8, <1>9, <1>10

LEMMA ClassifySettles == IndexInv /\ SettleInv /\ Classify => SettleInv'
  <1> SUFFICES ASSUME IndexInv, SettleInv, Classify  PROVE SettleInv'
    OBVIOUS
  <1>0. job \in Jobs /\ mem \in Records /\ docs \in [Paths -> Nat] /\ (job.stale => quiet = 0) /\ quiet \in Nat
    BY DEF IndexInv, IndexTyped, JobOK, RemovalSeen
  <1>1. UNCHANGED <<docs, reg, coll, disk, quiet, orphan, lost>> /\ job.pc = "classify"
    BY ClassifyIs
  <1>2. PICK p \in Paths :
             /\ p = Head(job.todo) /\ job.todo # <<>> /\ job.scan[p] \in DocRecs /\ job.scan[p].doc = p /\ job'.todo = Tail(job.todo)
             /\ job'.pc = "classify" /\ job'.stale = job.stale /\ job'.full = job.full /\ job'.scan = job.scan
             /\ \/ ~job.full /\ Kept(p) /\ job'.batch = job.batch
                \/ ~job.full /\ (\E i \in Paths : Adopted(i, job.scan[p])) /\ job'.batch = job.batch
                \/ Queued(p) /\ job'.batch = Append(job.batch, job.scan[p])
    BY ClassifyCases
  <1> DEFINE doc == job.scan[p]
  <1>3. ToSet(job.todo) = {p} \cup ToSet(job'.todo) /\ job.batch \in Seq(DocRecs)
    <2>1. job.todo \in Seq(Paths) /\ job.batch \in Seq(DocRecs)
      BY <1>0 DEF Jobs
    <2> QED  BY <2>1, <1>2, HeadAndTail
  <1>4. ToSet(Append(job.batch, doc)) = ToSet(job.batch) \cup {doc}
    BY <1>2, <1>3, Appended
  <1>5. ~job.stale => doc = documentsFromMarkdownFile(p) /\ doc.c = docs[p]
    BY <1>1, <1>2 DEF SettleInv, JobIsCurrent, ScanPcs, documentsFromMarkdownFile
  <1>6. doc.c # 0 /\ doc.doc = p /\ doc \in DocRecs
    BY <1>2 DEF DocRecs
  <1>7. Present' = Present /\ Present \subseteq Paths /\ \A q \in Paths : (documentsFromMarkdownFile(q))' = documentsFromMarkdownFile(q)
    BY <1>1 DEF Present, documentsFromMarkdownFile
  <1>8. Embedding' = Embedding
    BY <1>1, <1>2 DEF Embedding
  <1> HIDE DEF doc
  <1>9. JobIsCurrent'
    <2>1. ~job.stale => \A b \in ToSet(job'.batch) : b.c = docs[b.doc]
      BY <1>1, <1>2, <1>4, <1>5, <1>6 DEF SettleInv, JobIsCurrent, doc
    <2> QED  BY <2>1, <1>1, <1>2, <1>7 DEF JobIsCurrent, ScanPcs, SettleInv
  <1>10. CASE ~job.full /\ Kept(p) /\ job'.batch = job.batch
    <2>1. PICK i \in Paths : mem[i] = doc
      BY <1>10 DEF Kept, doc
    <2>2. UNCHANGED <<points, mem>> /\ Real(mem)
      BY <1>10 DEF Kept, SettleInv
    <2>3. /\ Rose' = Rose /\ LiveTexts(mem)' = LiveTexts(mem) /\ Texts(mem)' = Texts(mem) /\ Settling'
      BY <1>1, <2>2, StandsStill
    <2>4. Left = Left' \cup {p} /\ Left' \subseteq Left
      BY <1>1, <1>2, <1>3, <1>10 DEF Left
    <2>5. PointsMatch'
      BY <1>1, <1>2, <2>2, MatchesStay DEF SettleInv
    <2>6. JobRecords'
      <3> SUFFICES ASSUME Embedding  PROVE JobRecords'
        BY <1>8 DEF JobRecords
      <3>1. ~job.stale /\ coll
        BY DEF Embedding, SettleInv, JobRecords
      <3>2. ASSUME NEW j \in Paths, mem[j] # Nothing  PROVE mem[j].c = docs[mem[j].doc] \/ mem[j].doc \in Left' \/ docs[mem[j].doc] = 0
        <4>1. CASE mem[j].doc = p
          <5>1. j = i
            BY <4>1, <3>2, <2>1, <2>2, <1>6 DEF Real
          <5> QED  BY <5>1, <2>1, <3>1, <1>5, <1>6
        <4>2. CASE mem[j].doc # p
          BY <4>2, <3>2, <2>4 DEF SettleInv, JobRecords
        <4> QED  BY <4>1, <4>2
      <3> QED  BY <3>1, <3>2, <1>1, <1>2, <2>2 DEF JobRecords
    <2>7. FullJob'
      BY <1>2, <1>10 DEF FullJob
    <2>8. LeanJob'
      <3> SUFFICES ASSUME Embedding  PROVE LeanJob'
        BY <1>8 DEF LeanJob
      <3>1. ~job.stale
        BY DEF Embedding
      <3>2. docs[p] # 0 => docs[p] \in LiveTexts(mem)
        BY <3>1, <2>1, <1>5, <1>6, NothingIs DEF LiveTexts
      <3>3. ASSUME NEW q \in Present  PROVE q \in Left' \/ docs[q] \in LiveTexts(mem)
        <4>1. q \in Left \/ docs[q] \in LiveTexts(mem)
          BY <1>2, <1>10 DEF SettleInv, LeanJob
        <4>2. q = p => docs[q] \in LiveTexts(mem)
          BY <3>2 DEF Present
        <4> QED  BY <4>1, <4>2, <2>4
      <3>4. quiet >= 1 => \A b \in ToSet(job.batch) : b.c \notin Texts(mem) \/ Rose
        BY <1>10 DEF SettleInv, LeanJob
      <3> QED  BY <3>3, <3>4, <2>3, <1>1, <1>7, <1>10 DEF LeanJob
    <2> QED  BY <1>1, <1>9, <2>2, <2>3, <2>5, <2>6, <2>7, <2>8 DEF SettleInv, Real
  <1>11. CASE ~job.full /\ (\E i \in Paths : Adopted(i, doc)) /\ job'.batch = job.batch
    <2>1. PICK i \in Paths : Adopted(i, doc)
      BY <1>11
    <2>2. /\ mem'[i] = doc /\ mem[i].c = doc.c /\ (\A j \in Paths : j # i => mem'[j] = mem[j])
          /\ (\A j \in Paths : mem[j].doc # doc.doc)
          /\ Real(mem)' /\ PointsMatch' /\ Texts(mem)' = Texts(mem) /\ HomeTexts(mem)' = HomeTexts(mem)
          /\ doc.c = docs[doc.doc] /\ quiet >= 1 /\ reg = "enabled" => Settling'
      BY <1>1, <1>2, <2>1, AdoptedIs
    <2>3. Settling'
      <3>1. quiet >= 1 => doc.c = docs[doc.doc]
        BY <1>0, <1>5, <1>6
      <3>2. ~(quiet >= 1 /\ reg = "enabled") => Settling'
        BY <1>1 DEF Settling
      <3> QED  BY <3>1, <3>2, <2>2
    <2>4. Left = Left' \cup {p} /\ Left' \subseteq Left
      BY <1>1, <1>2, <1>3, <1>11 DEF Left
    <2>6. JobRecords'
      <3> SUFFICES ASSUME Embedding  PROVE JobRecords'
        BY <1>8 DEF JobRecords
      <3>1. ~job.stale /\ coll
        BY DEF Embedding, SettleInv, JobRecords
      <3>2. ASSUME NEW j \in Paths, mem'[j] # Nothing  PROVE mem'[j].c = docs[mem'[j].doc] \/ mem'[j].doc \in Left' \/ docs[mem'[j].doc] = 0
        <4>1. CASE j = i
          BY <4>1, <2>2, <3>1, <1>5, <1>6
        <4>2. CASE j # i
          <5>1. mem'[j] = mem[j] /\ mem[j].doc # p
            BY <4>2, <2>2, <1>6
          <5>2. mem[j].c = docs[mem[j].doc] \/ mem[j].doc \in Left \/ docs[mem[j].doc] = 0
            BY <5>1, <3>2 DEF SettleInv, JobRecords
          <5> QED  BY <5>1, <5>2, <2>4
        <4> QED  BY <4>1, <4>2
      <3> QED  BY <3>1, <3>2, <1>1, <1>2 DEF JobRecords
    <2>7. FullJob'
      BY <1>2, <1>11 DEF FullJob
    <2>8. LeanJob'
      <3> SUFFICES ASSUME Embedding  PROVE LeanJob'
        BY <1>8 DEF LeanJob
      <3>1. ~job.stale
        BY DEF Embedding
      <3>2. LiveTexts(mem) \cup {docs[p]} \subseteq LiveTexts(mem)'
        <4>1. docs[p] \in LiveTexts(mem)' /\ mem[i].c \in LiveTexts(mem)'
          <5>1. mem'[i] # Nothing /\ docs'[mem'[i].doc] # 0 /\ mem'[i].c = docs[p] /\ mem[i].c = docs[p]
            BY <2>2, <3>1, <1>1, <1>5, <1>6, NothingIs
          <5> QED  BY <5>1 DEF LiveTexts
        <4>2. ASSUME NEW j \in Paths, mem[j] # Nothing, docs[mem[j].doc] # 0, j # i  PROVE mem[j].c \in LiveTexts(mem)'
          <5>1. mem'[j] = mem[j]
            BY <4>2, <2>2
          <5> QED  BY <5>1, <4>2, <1>1 DEF LiveTexts
        <4> QED  BY <4>1, <4>2 DEF LiveTexts
      <3>3. ASSUME NEW q \in Present  PROVE q \in Left' \/ docs[q] \in LiveTexts(mem)'
        <4>1. q \in Left \/ docs[q] \in LiveTexts(mem)
          BY <1>2, <1>11 DEF SettleInv, LeanJob
        <4> QED  BY <4>1, <3>2, <2>4
      <3>4. quiet >= 1 => \A b \in ToSet(job.batch) : b.c \notin Texts(mem) \/ Rose
        BY <1>11 DEF SettleInv, LeanJob
      <3>5. quiet >= 1 => (Rose' <=> Rose)
        <4>1. quiet >= 1 => quiet # 0 /\ quiet' # 0 /\ quiet' = quiet
          BY <1>1
        <4>2. HomeTexts(mem)' = HomeTexts(mem)
          BY <2>2
        <4> QED  BY <4>1, <4>2 DEF Rose
      <3>6. quiet' >= 1 => \A b \in ToSet(job'.batch) : b.c \notin Texts(mem)' \/ Rose'
        BY <3>4, <3>5, <2>2, <1>1, <1>11
      <3>7. \A q \in Present' : q \in Left' \/ docs'[q] \in LiveTexts(mem)'
        BY <3>3, <1>1, <1>7
      <3> QED  BY <3>6, <3>7 DEF LeanJob
    <2> QED  BY <1>1, <1>9, <2>2, <2>3, <2>6, <2>7, <2>8 DEF SettleInv, Real
  <1>12. CASE Queued(p) /\ job'.batch = Append(job.batch, doc)
    <2>2. UNCHANGED <<points, mem>> /\ Real(mem)
      BY <1>12 DEF Queued, SettleInv
    <2>3. /\ Rose' = Rose /\ LiveTexts(mem)' = LiveTexts(mem) /\ Texts(mem)' = Texts(mem) /\ Settling'
      BY <1>1, <2>2, StandsStill
    <2>4. Left = Left'
      <3>1. {b.doc : b \in ToSet(job.batch) \cup {doc}} = {b.doc : b \in ToSet(job.batch)} \cup {p}
        BY <1>6
      <3> QED  BY <3>1, <1>1, <1>2, <1>3, <1>4, <1>12 DEF Left
    <2>5. PointsMatch'
      BY <1>1, <1>2, <2>2, MatchesStay DEF SettleInv
    <2>6. JobRecords'
      BY <1>1, <1>2, <1>8, <2>2, <2>4 DEF JobRecords, SettleInv
    <2>7. FullJob'
      <3>1. \A q \in Paths : Home(q) => Home(q)'
        BY <1>1, <1>7, <2>2 DEF Home
      <3> QED  BY <3>1, <1>1, <1>2, <1>7, <1>8, <2>2, <2>4 DEF FullJob, SettleInv
    <2>8. LeanJob'
      <3> SUFFICES ASSUME Embedding, ~job.full  PROVE LeanJob'
        BY <1>2, <1>8 DEF LeanJob
      <3>1. ~job.stale /\ reg = "enabled"
        BY DEF Embedding
      <3>3. ASSUME NEW q \in Present  PROVE q \in Left' \/ docs[q] \in LiveTexts(mem)
        BY <1>2, <2>4 DEF SettleInv, LeanJob
      <3>4. quiet >= 1 => \A b \in ToSet(job.batch) : b.c \notin Texts(mem) \/ Rose
        BY DEF SettleInv, LeanJob
      <3>5. quiet >= 1 => doc.c \notin Texts(mem)
        <4> SUFFICES ASSUME quiet >= 1, NEW i \in Paths, mem[i].c = doc.c  PROVE FALSE
          BY DEF Texts
        <4>1. i \in findByContentHash(doc.c)
          BY DEF findByContentHash
        <4>2. PICK j \in findByIdentity(p) : mem[j].c # doc.c
          BY <4>1, <1>12 DEF Queued, doc
        <4>3. j \in Paths /\ mem[j].doc = p /\ mem[j] # Nothing
          BY <4>2, NoneIsNoPath DEF findByIdentity
        <4>4. mem[j].c = docs[p]
          BY <4>3, <3>1 DEF SettleInv, Settling, IsTrue
        <4> QED  BY <4>2, <4>4, <3>1, <1>5
      <3>6. quiet' >= 1 => \A b \in ToSet(job'.batch) : b.c \notin Texts(mem)' \/ Rose'
        BY <3>4, <3>5, <2>3, <1>1, <1>4, <1>12
      <3>7. \A q \in Present' : q \in Left' \/ docs'[q] \in LiveTexts(mem)'
        BY <3>3, <2>3, <1>1, <1>7
      <3> QED  BY <3>6, <3>7 DEF LeanJob
    <2> QED  BY <1>1, <1>9, <2>2, <2>3, <2>5, <2>6, <2>7, <2>8 DEF SettleInv, Real
  <1> QED  BY <1>2, <1>10, <1>11, <1>12 DEF doc

LEMMA SettleStart == EmbedInit => SettleInv
  <1> SUFFICES ASSUME EmbedInit  PROVE SettleInv
    OBVIOUS
  <1>1. mem = Empty /\ disk = Empty /\ points = Empty /\ job = NoJob /\ quiet = 0 /\ coll = FALSE
    BY DEF EmbedInit
  <1>2. job.pc = "none" /\ job.batch = <<>>
    BY <1>1 DEF NoJob
  <1> QED  BY <1>1, <1>2, EmptyIsReal DEF SettleInv, PointsMatch, Matches, JobIsCurrent, ScanPcs, JobRecords, FullJob, LeanJob, Settling, Embedding

\* The invariant speaks of these variables only.
LEMMA NothingMoves == SettleInv /\ UNCHANGED <<docs, reg, coll, points, mem, disk, job, quiet, orphan, lost>> => SettleInv'
  <1> SUFFICES ASSUME SettleInv, UNCHANGED <<docs, reg, coll, points, mem, disk, job, quiet, orphan, lost>>  PROVE SettleInv'
    OBVIOUS
  <1>1. Real(mem)' /\ Real(disk)' /\ PointsMatch'
    BY DEF SettleInv, Real, PointsMatch, Matches
  <1>2. /\ Rose' = Rose /\ Present' = Present /\ LiveTexts(mem)' = LiveTexts(mem) /\ Texts(mem)' = Texts(mem) /\ Settling'
        /\ \A p \in Paths : (documentsFromMarkdownFile(p))' = documentsFromMarkdownFile(p)
    BY StandsStill
  <1>3. Left' = Left /\ Embedding' = Embedding
    BY DEF Left, Embedding
  <1>4. JobIsCurrent'
    BY <1>2 DEF SettleInv, JobIsCurrent
  <1>5. FullJob'
    <2>1. Present \subseteq Paths /\ \A p \in Paths : Home(p) => Home(p)'
      BY <1>2 DEF Present, Home
    <2> QED  BY <2>1, <1>2, <1>3 DEF SettleInv, FullJob
  <1>6. JobRecords'
    BY <1>3 DEF SettleInv, JobRecords
  <1>7. LeanJob'
    BY <1>2, <1>3 DEF SettleInv, LeanJob
  <1> QED  BY <1>1, <1>2, <1>4, <1>5, <1>6, <1>7 DEF SettleInv

LEMMA SettleStep == IndexInv /\ SettleInv /\ [EmbedNext]_eiVars => SettleInv'
  <1>1. IndexInv /\ SettleInv /\ EmbedNext => SettleInv'
    BY EmbedSteps, OutsideSettles, DropFailsIs, NothingMoves, StartSettles, CancelSettles, EndsSettle, SourcesSettle, ForgetSettles,
       ScanSettles, EnsureSettles, ClearSettles, ClassifySettles, UpsertSettles, CheckpointSettles, PruneVectorsSettle, PruneStateSettles,
       StoreSettles DEF JobGoesOn
  <1>2. UNCHANGED eiVars => UNCHANGED <<docs, reg, coll, points, mem, disk, job, quiet, orphan, lost>>
    BY DEF eiVars
  <1> QED  BY <1>1, <1>2, NothingMoves

(* The memory. *)

LEMMA MemorySteps ==
    [MemoryNext]_recallVars => [HistNext]_hsVars /\ [HistoryContextNext]_hcVars /\ [EmbedNext]_eiVars
  BY DEF MemoryNext, OnlyHistory, OnlyContext, OnlyRecall, OnlyEmbed, OnlySearch, recallVars

\* In every reachable state of the embedding service every vector in its collection has a record in memory and in the
\* state file, but for those an upsert left behind or a deletion of the collection let a running job write (orphan);
\* whatever was paid for is in both; and a job that began after the source left the configuration only prunes (Sync,
\* DeleteCollection, checkpointBatch, pruneRemovedSources).
THEOREM IndexInvariant == MemorySpec => []IndexInv
  <1>1. MemoryInit => IndexInv
    BY IndexStart DEF MemoryInit
  <1>2. IndexInv /\ [MemoryNext]_recallVars => IndexInv'
    BY MemorySteps, IndexInvStep
  <1> QED  BY <1>1, <1>2, PTL DEF MemorySpec

\* After a whole sync without the source no vector of it is left, but for those that no record describes, whatever
\* the two halves of a deletion, a prune or the making of a collection have between them (pruneRemovedSources).
THEOREM RemovedIsPrunedCorrect == MemorySpec => []RemovedIsPruned
  <1>1. IndexInv => RemovedIsPruned
    BY DEF IndexInv, RemovalSeen, Pruned, RemovedIsPruned
  <1> QED  BY <1>1, IndexInvariant, PTL

\* What a sync has dealt with is as the source is; the records of a completed one are true, though the point of one
\* may be gone (lost); what a full job has dealt with has its point as well; and every sync that ends without having
\* all texts in the index has put one more of them where it belongs (syncSource, putPointLocked, checkpointBatch).
THEOREM SettleInvariant == MemorySpec => []SettleInv
  <1>1. MemoryInit => SettleInv
    BY SettleStart DEF MemoryInit
  <1>2. IndexInv /\ SettleInv /\ [MemoryNext]_recallVars => SettleInv'
    BY MemorySteps, SettleStep
  <1> QED  BY <1>1, <1>2, IndexInvariant, PTL DEF MemorySpec

\* As many completed syncs as there are documents, or a completed full one, leave every text of the source in the
\* index and no record that is not true, over any crashes, failures and cancellations in between, but for the records
\* whose points an interrupted call took away or overwrote (Sync, DeleteCollection).
THEOREM SettledMeansIndexedCorrect == MemorySpec => []SettledMeansIndexed
  <1>1. IndexInv /\ SettleInv => SettledMeansIndexed
    BY SettledIndex DEF IndexInv, IndexTyped
  <1> QED  BY <1>1, IndexInvariant, SettleInvariant, PTL

\* A full sync that completes without a change meanwhile leaves no such exception: every document has its point and
\* its record, in memory and in the file, whatever was interrupted before it (Sync with Full, syncSource).
THEOREM FullSyncRepairsCorrect == MemorySpec => []FullSyncRepairs
  <1> QED  BY FullJobRepairs, SettleInvariant, PTL

\* No step changes a complete turn or takes back what was derived from it (CompleteTurn, SaveDigest, MarkEmbedded),
\* changes the selection a run was told once it was sent (ContextSnapshot), or pays twice for the vector of a text
\* whose record is known (ensure, classify).
THEOREM RecallStepsCorrect == MemorySpec => RecallSteps
  <1>1. MemoryInit => ContextInv
    BY ContextStart DEF MemoryInit
  <1>2. ContextInv /\ [MemoryNext]_recallVars => ContextInv'
    BY MemorySteps, ContextStep
  <1>3. HistInv /\ ContextInv /\ IndexInv /\ [MemoryNext]_recallVars
          => [HistoryIsImmutable /\ SelectionIsStable /\ NothingPaidTwice]_recallVars
    BY MemorySteps, TurnsAreImmutable, ContextStep, PaidOnce
  <1> QED  BY <1>1, <1>2, <1>3, HistoryInvariant, IndexInvariant, PTL DEF MemorySpec, RecallSteps
===============================================================================
