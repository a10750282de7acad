---------------------------- MODULE AgentProofs ----------------------------
(***************************************************************************)
(* Proofs about the agent loop (AgentEngine), for every set of tools and   *)
(* media, every list of models, every limit of turns, retries and calls,   *)
(* and every number of runs: what is stored of a turn can be replayed to a *)
(* provider, a user gets exactly the media deliver tools attached, every   *)
(* run that started is told ended once, and a session's runs share one     *)
(* turn budget.                                                            *)
(*                                                                         *)
(* AgInv is inductive.  Its heart is InRun: the transcript of a run that   *)
(* is under way, its calls that are still to be answered, and the media    *)
(* its tools gave belong together.  Canonicalize makes of a run that ended *)
(* (RunEnded) what may be stored and handed out (Handed); that it drops no *)
(* message of such a run is an induction over the transcript, done by hand *)
(* with a least counterexample (SurvivorsAll).                             *)
(***************************************************************************)
EXTENDS MCAgentTools, FiniteSetTheorems, WellFoundedInduction, TLAPS

\* A nonempty set of naturals has a least element.
LEMMA LeastOf ==
    ASSUME NEW T, T \subseteq Nat, T # {}
    PROVE  \E x \in T : \A y \in T : x <= y
  <1>1. PICK x \in T : \A y \in T : ~(<<y, x>> \in OpToRel(<, Nat))
    BY NatLessThanWellFounded, WFMin
  <1>2. \A y \in T : ~(y < x)
    BY <1>1 DEF OpToRel
  <1> QED  BY <1>2

LEMMA SurvivorsAll ==
    ASSUME NEW S, NEW q \in Seq(S), \A k \in 1..Len(q) : messageSurvivesCompaction(q[k])
    PROVE  Survivors(q) = q
  <1> DEFINE E(f, n) == IF n = 0 THEN <<>>
                        ELSE IF messageSurvivesCompaction(q[n]) THEN Append(f[n - 1], q[n]) ELSE f[n - 1]
             g == [n \in 0..Len(q) |-> SubSeq(q, 1, n)]
  <1>1. PICK N \in Nat : N = Len(q)
    OBVIOUS
  <1>2. \A n \in 1..N : Append(SubSeq(q, 1, n - 1), q[n]) = SubSeq(q, 1, n)
    BY <1>1
  <1>3. g = [n \in 0..Len(q) |-> E(g, n)]
    <2>1. ASSUME NEW n \in 0..Len(q)  PROVE g[n] = E(g, n)
      <3>1. CASE n = 0
        BY <3>1
      <3>2. CASE n # 0
        <4>1. n \in 1..N /\ n - 1 \in 0..Len(q)
          BY <1>1, <3>2
        <4>2. g[n - 1] = SubSeq(q, 1, n - 1) /\ g[n] = SubSeq(q, 1, n)
          BY <4>1
        <4> QED  BY <1>1, <1>2, <3>2, <4>1, <4>2
      <3> QED  BY <3>1, <3>2
    <2> QED  BY <2>1
  <1>4. PICK f : f = [n \in 0..Len(q) |-> E(f, n)] /\ Survivors(q) = f[Len(q)]
    <2>1. Survivors(q) = (CHOOSE f : f = [n \in 0..Len(q) |-> E(f, n)])[Len(q)]
      BY DEF Survivors
    <2> HIDE DEF E, g
    <2> QED  BY <1>3, <2>1
  <1>5. \A n \in 0..N : f[n] = g[n]
    <2> DEFINE T == {n \in 0..N : f[n] # g[n]}
    <2> SUFFICES ASSUME T # {}  PROVE FALSE
      OBVIOUS
    <2>0. T \subseteq Nat /\ \A y : y \in T <=> (y \in 0..N /\ f[y] # g[y])
      OBVIOUS
    <2>9. f[0] = <<>> /\ g[0] = <<>>
      BY <1>1, <1>3, <1>4
    <2>10. (\A n \in 0..N : f[n] = E(f, n)) /\ (\A n \in 0..N : g[n] = E(g, n))
      <3>1. \A n \in 0..N : f[n] = E(f, n)
        BY <1>1, <1>4
      <3> HIDE DEF g, E
      <3>2. \A n \in 0..N : g[n] = E(g, n)
        BY <1>1, <1>3
      <3> QED  BY <3>1, <3>2
    <2> HIDE DEF T, g
    <2>1. PICK x \in T : \A y \in T : x <= y
      BY <2>0, LeastOf
    <2>2. x # 0 /\ x \in 0..N
      BY <2>0, <2>1, <2>9
    <2>7. PICK w \in Nat : w = x - 1 /\ w \in 0..N /\ w < x
      BY <2>2
    <2>8. w \notin T
      BY <2>1, <2>7, <2>2
    <2>3. x \in 1..N /\ x - 1 \in 0..N /\ f[w] = g[w]
      BY <2>0, <2>2, <2>7, <2>8
    <2>4. f[x - 1] = g[x - 1]
      BY <2>3, <2>7
    <2>5. f[x] = E(f, x) /\ g[x] = E(g, x)
      BY <2>2, <2>10
    <2>6. E(f, x) = E(g, x)
      BY <2>4
    <2> QED  BY <2>0, <2>1, <2>5, <2>6
  <1>6. SubSeq(q, 1, N) = q
    BY <1>1
  <1> QED  BY <1>1, <1>4, <1>5, <1>6

-----------------------------------------------------------------------------
(* The transcript of a run *)

AgCalls == [id : Nat \ {0}, tool : Tools]
AgMessages == [role : {"assistant", "tool"}, text : BOOLEAN, calls : Seq(AgCalls), res : Nat, media : SUBSET Refs]

\* A message as the run makes it: it has a part; an assistant answers no call, a result makes none.
Made(m) ==
    /\ messageSurvivesCompaction(m) /\ Len(m.calls) <= 2
    /\ m.role = "assistant" => m.res = 0
    /\ m.role = "tool" => m.calls = <<>> /\ m.res # 0
HasCall(q, c) == \E p \in 1..Len(q) : \E k \in 1..Len(q[p].calls) : q[p].calls[k] = c
AnsweredIn(q, id) == \E k \in 1..Len(q) : q[k].res = id
CallsNumbered(q) == \A p \in 1..Len(q) : \A k \in 1..Len(q[p].calls) : q[p].calls[k].id = 2 * (p - 1) + k
\* Every result is the only answer to a call that was made.
Answers(q) ==
    /\ \A k \in 1..Len(q) : q[k].res # 0 => \E c \in AgCalls : HasCall(q, c) /\ c.id = q[k].res
    /\ \A i, j \in 1..Len(q) : i # j /\ q[i].res = q[j].res => q[i].res = 0
\* The calls without an answer are those still to do.
StillOpen(q, todo) ==
    /\ todo \in Seq(AgCalls) /\ Len(todo) <= 2
    /\ \A k \in 1..Len(todo) : HasCall(q, todo[k]) /\ ~AnsweredIn(q, todo[k].id)
    /\ \A c \in AgCalls : HasCall(q, c) /\ ~AnsweredIn(q, c.id) => \E k \in 1..Len(todo) : todo[k] = c
    /\ \A i, j \in 1..Len(todo) : i # j => todo[i].id # todo[j].id
\* What the results of deliver tools attached.
Delivers(q, m) == m.role = "tool" /\ \E c \in AgCalls : HasCall(q, c) /\ c.id = m.res /\ c.tool \in DeliverTools
Attached(q, given) == \A r : r \in given <=> \E k \in 1..Len(q) : r \in q[k].media /\ Delivers(q, q[k])

InRun(q, todo, given) ==
    /\ q \in Seq(AgMessages) /\ \A k \in 1..Len(q) : Made(q[k]) /\ (q[k].role = "assistant" => q[k].media = {})
    /\ CallsNumbered(q) /\ Answers(q) /\ StillOpen(q, todo) /\ Attached(q, given) /\ given \subseteq Refs
Settled(q) == q # <<>> => q[Len(q)].calls = <<>>

LEMMA ElementOf == ASSUME NEW S, NEW q \in Seq(S), NEW k \in 1..Len(q)  PROVE q[k] \in S
  OBVIOUS

LEMMA SameCall ==
    ASSUME NEW q \in Seq(AgMessages), CallsNumbered(q), \A k \in 1..Len(q) : Made(q[k]),
           NEW c, NEW d, HasCall(q, c), HasCall(q, d), c.id = d.id
    PROVE  c = d
  <1>10. PICK p \in 1..Len(q) : \E k \in 1..Len(q[p].calls) : q[p].calls[k] = c
    BY DEF HasCall
  <1>1. PICK k \in 1..Len(q[p].calls) : q[p].calls[k] = c
    BY <1>10
  <1>20. PICK r \in 1..Len(q) : \E l \in 1..Len(q[r].calls) : q[r].calls[l] = d
    BY DEF HasCall
  <1>2. PICK l \in 1..Len(q[r].calls) : q[r].calls[l] = d
    BY <1>20
  <1>3. q[p] \in AgMessages /\ q[r] \in AgMessages
    BY ElementOf
  <1>4. q[p].calls \in Seq(AgCalls) /\ q[r].calls \in Seq(AgCalls) /\ Len(q[p].calls) <= 2 /\ Len(q[r].calls) <= 2
    BY <1>3 DEF AgMessages, Made
  <1>5. k \in 1..2 /\ l \in 1..2 /\ p \in Nat /\ r \in Nat
    BY <1>4
  <1>6. c.id = 2 * (p - 1) + k /\ d.id = 2 * (r - 1) + l
    BY <1>1, <1>2 DEF CallsNumbered
  <1>7. p = r /\ k = l
    BY ONLY <1>5, <1>6, c.id = d.id
  <1> QED  BY <1>1, <1>2, <1>7

\* The transcript r is q with the message m more.
Said(r, q, m) == q \in Seq(AgMessages) /\ m \in AgMessages /\ r = Append(q, m)
LEMMA SaidIs ==
    ASSUME NEW r, NEW q, NEW m, Said(r, q, m)
    PROVE  /\ q \in Seq(AgMessages) /\ r \in Seq(AgMessages) /\ m \in AgMessages /\ Len(q) \in Nat /\ Len(r) = Len(q) + 1 /\ r[Len(q) + 1] = m
           /\ \A k \in 1..Len(q) : r[k] = q[k] /\ k \in 1..Len(r)
           /\ Len(q) + 1 \in 1..Len(r)
           /\ \A k \in 1..Len(r) : k = Len(q) + 1 \/ k \in 1..Len(q)
  BY DEF Said

LEMMA SaidCalls ==
    ASSUME NEW r, NEW q, NEW m, Said(r, q, m), NEW c
    PROVE  HasCall(r, c) <=> (HasCall(q, c) \/ \E k \in 1..Len(m.calls) : m.calls[k] = c)
  <1>1. /\ q \in Seq(AgMessages) /\ r \in Seq(AgMessages) /\ Len(q) \in Nat /\ Len(r) = Len(q) + 1 /\ r[Len(q) + 1] = m
        /\ \A k \in 1..Len(q) : r[k] = q[k] /\ k \in 1..Len(r)
        /\ Len(q) + 1 \in 1..Len(r)
        /\ \A k \in 1..Len(r) : k = Len(q) + 1 \/ k \in 1..Len(q)
    BY SaidIs
  <1>2. ASSUME HasCall(r, c)  PROVE HasCall(q, c) \/ \E k \in 1..Len(m.calls) : m.calls[k] = c
    <2>1. PICK p \in 1..Len(r) : \E k \in 1..Len(r[p].calls) : r[p].calls[k] = c
      BY <1>2 DEF HasCall
    <2>2. CASE p = Len(q) + 1
      BY <1>1, <2>1, <2>2
    <2>3. CASE p \in 1..Len(q)
      BY <1>1, <2>1, <2>3 DEF HasCall
    <2> QED  BY <1>1, <2>2, <2>3
  <1>3. ASSUME HasCall(q, c)  PROVE HasCall(r, c)
    BY <1>1, <1>3 DEF HasCall
  <1>4. ASSUME NEW k \in 1..Len(m.calls), m.calls[k] = c  PROVE HasCall(r, c)
    BY <1>1, <1>4 DEF HasCall
  <1> QED  BY <1>2, <1>3, <1>4

LEMMA SaidAnswers ==
    ASSUME NEW r, NEW q, NEW m, Said(r, q, m), NEW id
    PROVE  AnsweredIn(r, id) <=> (AnsweredIn(q, id) \/ m.res = id)
  <1>1. /\ Len(q) \in Nat /\ r[Len(q) + 1] = m /\ (\A k \in 1..Len(q) : r[k] = q[k] /\ k \in 1..Len(r))
        /\ Len(q) + 1 \in 1..Len(r) /\ \A k \in 1..Len(r) : k = Len(q) + 1 \/ k \in 1..Len(q)
    BY SaidIs
  <1>2. ASSUME AnsweredIn(r, id)  PROVE AnsweredIn(q, id) \/ m.res = id
    BY <1>1, <1>2 DEF AnsweredIn
  <1>3. ASSUME AnsweredIn(q, id) \/ m.res = id  PROVE AnsweredIn(r, id)
    BY <1>1, <1>3 DEF AnsweredIn
  <1> QED  BY <1>2, <1>3

\* An answered call's number is taken, and so none of the calls numbered later.
LEMMA NumbersBelow ==
    ASSUME NEW q \in Seq(AgMessages), CallsNumbered(q), \A k \in 1..Len(q) : Made(q[k]), NEW c, HasCall(q, c)
    PROVE  c \in AgCalls /\ c.id <= 2 * Len(q)
  <1>10. PICK p \in 1..Len(q) : \E k \in 1..Len(q[p].calls) : q[p].calls[k] = c
    BY DEF HasCall
  <1>1. PICK k \in 1..Len(q[p].calls) : q[p].calls[k] = c
    BY <1>10
  <1>2. q[p] \in AgMessages
    BY ElementOf
  <1>3. q[p].calls \in Seq(AgCalls) /\ Len(q[p].calls) <= 2
    BY <1>2 DEF AgMessages, Made
  <1>4. k \in 1..2 /\ p \in Nat /\ p <= Len(q) /\ Len(q) \in Nat
    BY <1>3
  <1>5. c.id = 2 * (p - 1) + k
    BY <1>1 DEF CallsNumbered
  <1>6. c \in AgCalls
    <2>1. PICK s : s = q[p].calls
      OBVIOUS
    <2>2. s \in Seq(AgCalls) /\ k \in 1..Len(s) /\ s[k] = c
      BY <1>1, <1>3, <2>1
    <2> QED  BY ONLY <2>2, ElementOf
  <1>7. 2 * (p - 1) + k <= 2 * Len(q)
    BY ONLY <1>4
  <1> QED  BY <1>5, <1>6, <1>7

\* An assistant message, with calls that are numbered by its place.
Asks(q, m) ==
    /\ m.role = "assistant" /\ m.res = 0 /\ m.media = {} /\ Made(m)
    /\ \A k \in 1..Len(m.calls) : m.calls[k].id = 2 * Len(q) + k

LEMMA NumberedSaid ==
    ASSUME NEW q, NEW r, NEW m, Said(r, q, m), CallsNumbered(q), \A k \in 1..Len(m.calls) : m.calls[k].id = 2 * Len(q) + k
    PROVE  CallsNumbered(r)
  <1>1. /\ Len(q) \in Nat /\ r[Len(q) + 1] = m /\ (\A k \in 1..Len(q) : r[k] = q[k] /\ k \in 1..Len(r))
        /\ Len(q) + 1 \in 1..Len(r) /\ \A k \in 1..Len(r) : k = Len(q) + 1 \/ k \in 1..Len(q)
    BY SaidIs
  <1> SUFFICES ASSUME NEW p \in 1..Len(r), NEW k \in 1..Len(r[p].calls)  PROVE r[p].calls[k].id = 2 * (p - 1) + k
    BY DEF CallsNumbered
  <1>2. CASE p = Len(q) + 1
    <2>1. r[p] = m /\ p - 1 = Len(q)
      BY <1>1, <1>2
    <2> QED  BY <2>1
  <1>3. CASE p \in 1..Len(q)
    BY <1>1, <1>3 DEF CallsNumbered
  <1> QED  BY <1>1, <1>2, <1>3

LEMMA MadeSaid ==
    ASSUME NEW q, NEW r, NEW m, Said(r, q, m), Made(m), m.role = "assistant" => m.media = {},
           \A k \in 1..Len(q) : Made(q[k]) /\ (q[k].role = "assistant" => q[k].media = {})
    PROVE  r \in Seq(AgMessages) /\ \A k \in 1..Len(r) : Made(r[k]) /\ (r[k].role = "assistant" => r[k].media = {})
  <1>1. /\ r \in Seq(AgMessages) /\ Len(q) \in Nat /\ r[Len(q) + 1] = m /\ (\A k \in 1..Len(q) : r[k] = q[k] /\ k \in 1..Len(r))
        /\ Len(q) + 1 \in 1..Len(r) /\ \A k \in 1..Len(r) : k = Len(q) + 1 \/ k \in 1..Len(q)
    BY SaidIs
  <1> QED  BY <1>1

\* What is attached by the messages of q is so in r; the calls of q are calls of r, with their tools.
LEMMA DeliversSaid ==
    ASSUME NEW q, NEW r, NEW m, Said(r, q, m), Answers(q), CallsNumbered(r), \A k \in 1..Len(r) : Made(r[k]),
           NEW k \in 1..Len(q)
    PROVE  Delivers(r, q[k]) <=> Delivers(q, q[k])
  <1>1. q \in Seq(AgMessages) /\ r \in Seq(AgMessages)
    BY SaidIs
  <1>2. PICK x : x = q[k] /\ x \in AgMessages
    BY <1>1, ElementOf
  <1>3. ASSUME NEW c \in AgCalls, HasCall(q, c)  PROVE HasCall(r, c)
    BY <1>3, SaidCalls
  <1>4. ASSUME x.role = "tool", NEW c \in AgCalls, HasCall(r, c), c.id = x.res, c.tool \in DeliverTools
        PROVE  \E d \in AgCalls : HasCall(q, d) /\ d.id = x.res /\ d.tool \in DeliverTools
    <2>1. x.res # 0
      BY <1>4 DEF AgCalls
    <2>2. PICK d \in AgCalls : HasCall(q, d) /\ d.id = x.res
      BY <1>2, <2>1 DEF Answers
    <2>3. HasCall(r, d)
      BY <1>3, <2>2
    <2>4. c = d
      BY <1>1, <1>4, <2>2, <2>3, SameCall
    <2> QED  BY <1>4, <2>2, <2>4
  <1> QED  BY <1>2, <1>3, <1>4 DEF Delivers

LEMMA AssistantSays ==
    ASSUME NEW q, NEW todo, NEW given, InRun(q, todo, given), NEW r, NEW m, Said(r, q, m), Asks(q, m)
    PROVE  /\ m.calls = <<>> => InRun(r, todo, given)
           /\ todo = <<>> => InRun(r, m.calls, given)
  <1>0. /\ q \in Seq(AgMessages) /\ (\A k \in 1..Len(q) : Made(q[k]) /\ (q[k].role = "assistant" => q[k].media = {}))
        /\ CallsNumbered(q) /\ Answers(q) /\ StillOpen(q, todo) /\ Attached(q, given) /\ given \subseteq Refs
    BY DEF InRun
  <1>1. /\ m \in AgMessages /\ Len(q) \in Nat /\ r[Len(q) + 1] = m /\ (\A k \in 1..Len(q) : r[k] = q[k] /\ k \in 1..Len(r))
        /\ Len(q) + 1 \in 1..Len(r) /\ \A k \in 1..Len(r) : k = Len(q) + 1 \/ k \in 1..Len(q)
    BY SaidIs
  <1>2. r \in Seq(AgMessages) /\ \A k \in 1..Len(r) : Made(r[k]) /\ (r[k].role = "assistant" => r[k].media = {})
    BY <1>0, MadeSaid DEF Asks
  <1>3. CallsNumbered(r)
    BY <1>0, NumberedSaid DEF Asks
  <1>4. ASSUME NEW c  PROVE HasCall(r, c) <=> (HasCall(q, c) \/ \E k \in 1..Len(m.calls) : m.calls[k] = c)
    BY SaidCalls
  <1>5. ASSUME NEW id, id # 0  PROVE AnsweredIn(r, id) <=> AnsweredIn(q, id)
    BY <1>5, SaidAnswers DEF Asks
  <1>6. Answers(r)
    <2>1. ASSUME NEW k \in 1..Len(r), r[k].res # 0  PROVE \E c \in AgCalls : HasCall(r, c) /\ c.id = r[k].res
      <3>1. k \in 1..Len(q) /\ r[k] = q[k]
        BY <1>1, <2>1 DEF Asks
      <3>2. PICK c \in AgCalls : HasCall(q, c) /\ c.id = q[k].res
        BY <1>0, <2>1, <3>1 DEF Answers
      <3> QED  BY <1>4, <3>1, <3>2
    <2>2. ASSUME NEW i \in 1..Len(r), NEW j \in 1..Len(r), i # j, r[i].res = r[j].res, r[i].res # 0  PROVE FALSE
      <3>1. i \in 1..Len(q) /\ r[i] = q[i] /\ j \in 1..Len(q) /\ r[j] = q[j]
        BY <1>1, <2>2 DEF Asks
      <3> QED  BY <1>0, <2>2, <3>1 DEF Answers
    <2> QED  BY <2>1, <2>2 DEF Answers
  <1>7. Attached(r, given)
    <2>1. ASSUME NEW k \in 1..Len(q)  PROVE Delivers(r, q[k]) <=> Delivers(q, q[k])
      BY <1>0, <1>2, <1>3, DeliversSaid
    <2>2. ~Delivers(r, m)
      BY DEF Asks, Delivers
    <2>3. ASSUME NEW x
          PROVE  (\E k \in 1..Len(r) : x \in r[k].media /\ Delivers(r, r[k])) <=> (\E k \in 1..Len(q) : x \in q[k].media /\ Delivers(q, q[k]))
      BY <1>1, <2>1, <2>2
    <2> QED  BY <1>0, <2>3 DEF Attached
  <1>8. ASSUME m.calls = <<>>  PROVE StillOpen(r, todo)
    <2>1. todo \in Seq(AgCalls) /\ Len(todo) <= 2 /\ \A i, j \in 1..Len(todo) : i # j => todo[i].id # todo[j].id
      BY <1>0 DEF StillOpen
    <2>2. ASSUME NEW c \in AgCalls  PROVE (HasCall(r, c) <=> HasCall(q, c)) /\ (AnsweredIn(r, c.id) <=> AnsweredIn(q, c.id))
      <3>1. c.id # 0 /\ ~\E k \in 1..Len(m.calls) : m.calls[k] = c
        BY <1>8 DEF AgCalls
      <3> QED  BY <1>4, <1>5, <3>1
    <2>3. ASSUME NEW k \in 1..Len(todo)  PROVE HasCall(r, todo[k]) /\ ~AnsweredIn(r, todo[k].id)
      <3>1. todo[k] \in AgCalls
        BY <2>1, ElementOf
      <3> QED  BY <1>0, <2>2, <3>1 DEF StillOpen
    <2>4. \A c \in AgCalls : HasCall(r, c) /\ ~AnsweredIn(r, c.id) => \E k \in 1..Len(todo) : todo[k] = c
      BY <1>0, <2>2 DEF StillOpen
    <2> QED  BY <2>1, <2>3, <2>4 DEF StillOpen
  <1>9. ASSUME todo = <<>>  PROVE StillOpen(r, m.calls)
    <2>1. m.calls \in Seq(AgCalls) /\ Len(m.calls) <= 2 /\ Len(m.calls) \in Nat
      BY <1>1 DEF AgMessages, Asks, Made
    <2>2. ASSUME NEW i \in 1..Len(m.calls), NEW j \in 1..Len(m.calls), i # j  PROVE m.calls[i].id # m.calls[j].id
      <3>1. m.calls[i].id = 2 * Len(q) + i /\ m.calls[j].id = 2 * Len(q) + j
        BY DEF Asks
      <3> QED  BY <1>1, <2>1, <2>2, <3>1
    <2>3. ASSUME NEW k \in 1..Len(m.calls)  PROVE HasCall(r, m.calls[k]) /\ ~AnsweredIn(r, m.calls[k].id)
      <3>1. HasCall(r, m.calls[k])
        BY <1>4
      <3>2. PICK c \in AgCalls : c = m.calls[k]
        BY <2>1, ElementOf
      <3>3. c.id # 0 /\ c.id = 2 * Len(q) + k /\ k > 0
        BY <2>1, <3>2 DEF AgCalls, Asks
      <3>4. ASSUME AnsweredIn(q, c.id)  PROVE FALSE
        <4>1. PICK i \in 1..Len(q) : q[i].res = c.id
          BY <3>4 DEF AnsweredIn
        <4>2. PICK d \in AgCalls : HasCall(q, d) /\ d.id = c.id
          BY <1>0, <3>3, <4>1 DEF Answers
        <4>3. d.id <= 2 * Len(q)
          BY <1>0, <4>2, NumbersBelow
        <4> QED  BY <1>1, <2>1, <3>3, <4>2, <4>3
      <3> QED  BY <1>5, <3>1, <3>2, <3>3, <3>4
    <2>4. ASSUME NEW c \in AgCalls, HasCall(r, c), ~AnsweredIn(r, c.id)  PROVE \E k \in 1..Len(m.calls) : m.calls[k] = c
      <3>1. c.id # 0
        BY DEF AgCalls
      <3>2. HasCall(q, c) => \E k \in 1..Len(todo) : todo[k] = c
        BY <1>0, <1>5, <2>4, <3>1 DEF StillOpen
      <3>3. ~\E k \in 1..Len(todo) : todo[k] = c
        BY <1>9
      <3> QED  BY <1>4, <2>4, <3>2, <3>3
    <2> QED  BY <2>1, <2>2, <2>3, <2>4 DEF StillOpen
  <1> QED  BY <1>0, <1>2, <1>3, <1>6, <1>7, <1>8, <1>9 DEF InRun

LEMMA TailIs ==
    ASSUME NEW S, NEW s \in Seq(S), s # <<>>
    PROVE  /\ Tail(s) \in Seq(S) /\ s[1] \in S /\ s[1] = Head(s) /\ Len(s) \in Nat /\ Len(s) > 0 /\ 1 \in 1..Len(s)
           /\ Len(Tail(s)) = Len(s) - 1 /\ \A k \in 1..Len(Tail(s)) : Tail(s)[k] = s[k + 1] /\ k + 1 \in 1..Len(s)
  OBVIOUS

\* The result of the first call to do.
Returns(todo, m) == todo # <<>> /\ m.role = "tool" /\ m.res = todo[1].id /\ Made(m)
GivenBy(todo, m) == IF todo[1].tool \in DeliverTools THEN m.media ELSE {}

LEMMA ResultSays ==
    ASSUME NEW q, NEW todo, NEW given, InRun(q, todo, given), NEW r, NEW m, Said(r, q, m), Returns(todo, m)
    PROVE  InRun(r, Tail(todo), given \cup GivenBy(todo, m)) /\ Settled(r)
  <1>0. /\ q \in Seq(AgMessages) /\ (\A k \in 1..Len(q) : Made(q[k]) /\ (q[k].role = "assistant" => q[k].media = {}))
        /\ CallsNumbered(q) /\ Answers(q) /\ StillOpen(q, todo) /\ Attached(q, given) /\ given \subseteq Refs
    BY DEF InRun
  <1>1. /\ m \in AgMessages /\ Len(q) \in Nat /\ Len(r) = Len(q) + 1 /\ r[Len(q) + 1] = m
        /\ (\A k \in 1..Len(q) : r[k] = q[k] /\ k \in 1..Len(r))
        /\ Len(q) + 1 \in 1..Len(r) /\ \A k \in 1..Len(r) : k = Len(q) + 1 \/ k \in 1..Len(q)
    BY SaidIs
  <1>10. m.role = "tool" /\ m.res = todo[1].id /\ Made(m) /\ m.calls = <<>> /\ todo # <<>> /\ Len(m.calls) = 0
    BY DEF Returns, Made
  <1>2. r \in Seq(AgMessages) /\ \A k \in 1..Len(r) : Made(r[k]) /\ (r[k].role = "assistant" => r[k].media = {})
    BY <1>0, <1>10, MadeSaid
  <1>3. CallsNumbered(r)
    BY <1>0, <1>10, NumberedSaid
  <1>4. ASSUME NEW c  PROVE HasCall(r, c) <=> HasCall(q, c)
    BY <1>10, SaidCalls
  <1>5. ASSUME NEW id  PROVE AnsweredIn(r, id) <=> (AnsweredIn(q, id) \/ todo[1].id = id)
    BY <1>10, SaidAnswers
  <1>6. /\ todo \in Seq(AgCalls) /\ Len(todo) <= 2 /\ (\A k \in 1..Len(todo) : HasCall(q, todo[k]) /\ ~AnsweredIn(q, todo[k].id))
        /\ (\A c \in AgCalls : HasCall(q, c) /\ ~AnsweredIn(q, c.id) => \E k \in 1..Len(todo) : todo[k] = c)
        /\ \A i, j \in 1..Len(todo) : i # j => todo[i].id # todo[j].id
    BY <1>0 DEF StillOpen
  <1>7. /\ Tail(todo) \in Seq(AgCalls) /\ todo[1] \in AgCalls /\ Len(todo) \in Nat /\ Len(todo) > 0 /\ 1 \in 1..Len(todo)
        /\ Len(Tail(todo)) = Len(todo) - 1 /\ \A k \in 1..Len(Tail(todo)) : Tail(todo)[k] = todo[k + 1] /\ k + 1 \in 1..Len(todo)
    BY <1>6, <1>10, TailIs
  <1>8. PICK h \in AgCalls : h = todo[1] /\ HasCall(q, h) /\ ~AnsweredIn(q, h.id) /\ h.id # 0
    BY <1>6, <1>7 DEF AgCalls
  <1>9. Answers(r)
    <2>1. ASSUME NEW k \in 1..Len(r), r[k].res # 0  PROVE \E c \in AgCalls : HasCall(r, c) /\ c.id = r[k].res
      <3>1. CASE k = Len(q) + 1
        BY <1>1, <1>4, <1>8, <1>10, <3>1
      <3>2. CASE k \in 1..Len(q)
        <4>1. PICK c \in AgCalls : HasCall(q, c) /\ c.id = q[k].res
          BY <1>0, <1>1, <2>1, <3>2 DEF Answers
        <4> QED  BY <1>1, <1>4, <3>2, <4>1
      <3> QED  BY <1>1, <3>1, <3>2
    <2>2. \A i \in 1..Len(q) : q[i].res # h.id
      BY <1>8 DEF AnsweredIn
    <2>3. ASSUME NEW i \in 1..Len(r), NEW j \in 1..Len(r), i # j, r[i].res = r[j].res, r[i].res # 0  PROVE FALSE
      <3>1. CASE i \in 1..Len(q) /\ j \in 1..Len(q)
        BY <1>0, <1>1, <2>3, <3>1 DEF Answers
      <3>2. CASE i = Len(q) + 1 /\ j \in 1..Len(q)
        BY <1>1, <1>8, <1>10, <2>2, <2>3, <3>2
      <3>3. CASE j = Len(q) + 1 /\ i \in 1..Len(q)
        BY <1>1, <1>8, <1>10, <2>2, <2>3, <3>3
      <3> QED  BY <1>1, <2>3, <3>1, <3>2, <3>3
    <2> QED  BY <2>1, <2>3 DEF Answers
  <1>11. Attached(r, given \cup GivenBy(todo, m))
    <2>1. ASSUME NEW k \in 1..Len(q)  PROVE Delivers(r, q[k]) <=> Delivers(q, q[k])
      BY <1>0, <1>2, <1>3, DeliversSaid
    <2>2. Delivers(r, m) <=> h.tool \in DeliverTools
      <3>1. HasCall(r, h) /\ h.id = m.res
        BY <1>4, <1>8, <1>10
      <3>2. ASSUME NEW c \in AgCalls, HasCall(r, c), c.id = m.res  PROVE c = h
        BY <1>2, <1>3, <3>1, <3>2, SameCall
      <3> QED  BY <1>10, <3>1, <3>2 DEF Delivers
    <2>3. ASSUME NEW x
          PROVE  (\E k \in 1..Len(r) : x \in r[k].media /\ Delivers(r, r[k]))
                   <=> ((\E k \in 1..Len(q) : x \in q[k].media /\ Delivers(q, q[k])) \/ (x \in m.media /\ h.tool \in DeliverTools))
      BY <1>1, <2>1, <2>2
    <2>4. ASSUME NEW x  PROVE x \in GivenBy(todo, m) <=> (x \in m.media /\ h.tool \in DeliverTools)
      BY <1>8 DEF GivenBy
    <2> QED  BY <1>0, <2>3, <2>4 DEF Attached
  <1>12. given \cup GivenBy(todo, m) \subseteq Refs
    BY <1>0, <1>1 DEF GivenBy, AgMessages
  <1>13. StillOpen(r, Tail(todo))
    <2>1. Len(Tail(todo)) <= 2 /\ Len(Tail(todo)) \in Nat
      BY <1>6, <1>7
    <2>2. ASSUME NEW i \in 1..Len(Tail(todo)), NEW j \in 1..Len(Tail(todo)), i # j  PROVE Tail(todo)[i].id # Tail(todo)[j].id
      <3>1. i + 1 # j + 1 /\ i + 1 \in 1..Len(todo) /\ j + 1 \in 1..Len(todo) /\ Tail(todo)[i] = todo[i + 1] /\ Tail(todo)[j] = todo[j + 1]
        BY <1>7, <2>1, <2>2
      <3> QED  BY <1>6, <3>1
    <2>3. ASSUME NEW k \in 1..Len(Tail(todo))  PROVE HasCall(r, Tail(todo)[k]) /\ ~AnsweredIn(r, Tail(todo)[k].id)
      <3>1. PICK l : l = k + 1
        OBVIOUS
      <3>2. l \in 1..Len(todo) /\ l # 1 /\ Tail(todo)[k] = todo[l]
        BY <1>7, <2>1, <3>1
      <3>3. HasCall(q, todo[l]) /\ ~AnsweredIn(q, todo[l].id) /\ todo[l].id # todo[1].id
        BY <1>6, <1>7, <3>2
      <3> QED  BY <1>4, <1>5, <3>2, <3>3
    <2>4. ASSUME NEW c \in AgCalls, HasCall(r, c), ~AnsweredIn(r, c.id)  PROVE \E k \in 1..Len(Tail(todo)) : Tail(todo)[k] = c
      <3>1. HasCall(q, c) /\ ~AnsweredIn(q, c.id) /\ c.id # todo[1].id
        BY <1>4, <1>5, <2>4
      <3>2. PICK l \in 1..Len(todo) : todo[l] = c
        BY <1>6, <3>1
      <3>3. l # 1
        BY <3>1, <3>2
      <3>4. PICK k : k = l - 1
        OBVIOUS
      <3>5. k \in 1..Len(Tail(todo)) /\ k + 1 = l
        BY <1>7, <3>2, <3>3, <3>4
      <3>6. Tail(todo)[k] = todo[l]
        BY <1>7, <3>5
      <3> QED  BY <3>2, <3>5, <3>6
    <2> QED  BY <1>7, <2>1, <2>2, <2>3, <2>4 DEF StillOpen
  <1>14. Settled(r)
    BY <1>1, <1>10 DEF Settled
  <1> QED  BY <1>2, <1>3, <1>9, <1>11, <1>12, <1>13, <1>14 DEF InRun

-----------------------------------------------------------------------------
(* What Canonicalize makes of it *)

LEMMA CallIdsAre ==
    ASSUME NEW q \in Seq(AgMessages)
    PROVE  \A id : id \in CallIds(q) <=> \E c \in AgCalls : HasCall(q, c) /\ c.id = id
  <1>1. ToSet(q) = {q[k] : k \in 1..Len(q)}
    BY DEF ToSet
  <1> SUFFICES ASSUME NEW id  PROVE id \in CallIds(q) <=> \E c \in AgCalls : HasCall(q, c) /\ c.id = id
    OBVIOUS
  <1>2. ASSUME id \in CallIds(q)  PROVE \E c \in AgCalls : HasCall(q, c) /\ c.id = id
    <2>1. PICK p \in 1..Len(q) : id \in {q[p].calls[k].id : k \in 1..Len(q[p].calls)}
      BY <1>1, <1>2 DEF CallIds
    <2>2. PICK k \in 1..Len(q[p].calls) : id = q[p].calls[k].id
      BY <2>1
    <2>3. q[p] \in AgMessages
      BY ElementOf
    <2>4. PICK s \in Seq(AgCalls) : s = q[p].calls
      BY <2>3 DEF AgMessages
    <2>5. s[k] \in AgCalls
      BY <2>2, <2>4, ElementOf
    <2> QED  BY <2>2, <2>4, <2>5 DEF HasCall
  <1>3. ASSUME NEW c \in AgCalls, HasCall(q, c), c.id = id  PROVE id \in CallIds(q)
    <2>1. PICK p \in 1..Len(q) : \E k \in 1..Len(q[p].calls) : q[p].calls[k] = c
      BY <1>3 DEF HasCall
    <2>2. id \in {q[p].calls[k].id : k \in 1..Len(q[p].calls)} /\ q[p] \in ToSet(q)
      BY <1>1, <1>3, <2>1
    <2> QED  BY <2>2 DEF CallIds
  <1> QED  BY <1>2, <1>3

LEMMA DeliveredAre ==
    ASSUME NEW q \in Seq(AgMessages)
    PROVE  \A x : x \in collectDeliveredAttachments(q) <=> \E k \in 1..Len(q) : x \in q[k].media /\ Delivers(q, q[k])
  <1>1. ToSet(q) = {q[k] : k \in 1..Len(q)}
    BY DEF ToSet
  <1>2. ASSUME NEW k \in 1..Len(q)  PROVE messageDelivers(q, q[k]) <=> Delivers(q, q[k])
    <2>1. ASSUME messageDelivers(q, q[k])  PROVE Delivers(q, q[k])
      <3>1. PICK p \in 1..Len(q) : \E l \in 1..Len(q[p].calls) : q[p].calls[l].id = q[k].res /\ q[p].calls[l].tool \in DeliverTools
        BY <1>1, <2>1 DEF messageDelivers
      <3>2. PICK l \in 1..Len(q[p].calls) : q[p].calls[l].id = q[k].res /\ q[p].calls[l].tool \in DeliverTools
        BY <3>1
      <3>3. q[p] \in AgMessages
        BY ElementOf
      <3>4. PICK s \in Seq(AgCalls) : s = q[p].calls
        BY <3>3 DEF AgMessages
      <3>5. s[l] \in AgCalls
        BY <3>2, <3>4, ElementOf
      <3>6. HasCall(q, s[l])
        BY <3>2, <3>4 DEF HasCall
      <3> QED  BY <2>1, <3>2, <3>4, <3>5, <3>6 DEF Delivers, messageDelivers
    <2>2. ASSUME Delivers(q, q[k])  PROVE messageDelivers(q, q[k])
      <3>1. PICK c \in AgCalls : HasCall(q, c) /\ c.id = q[k].res /\ c.tool \in DeliverTools
        BY <2>2 DEF Delivers
      <3>2. PICK p \in 1..Len(q) : \E l \in 1..Len(q[p].calls) : q[p].calls[l] = c
        BY <3>1 DEF HasCall
      <3>3. q[p] \in ToSet(q)
        BY <1>1
      <3> QED  BY <2>2, <3>1, <3>2, <3>3 DEF Delivers, messageDelivers
    <2> QED  BY <2>1, <2>2
  <1>3. ASSUME NEW x  PROVE x \in collectDeliveredAttachments(q) <=> \E k \in 1..Len(q) : x \in q[k].media /\ messageDelivers(q, q[k])
    BY <1>1 DEF collectDeliveredAttachments
  <1> QED  BY <1>2, <1>3

\* StoredTurnsAreWhole of the messages msgs and the stop reason stop.
WholeTurn(msgs, stop) ==
    LET open == Cardinality({id \in CallIds(msgs) : ~\E k \in 1..Len(msgs) : msgs[k].res = id})
    IN  /\ msgs # <<>> => Last(msgs).calls = <<>>
        /\ stop # "none" => Last(msgs) = AssistantText \/ Last(msgs).media # {}
        /\ \A k \in 1..Len(msgs) : msgs[k].res # 0 => msgs[k].res \in CallIds(msgs)
        /\ \A i, j \in 1..Len(msgs) : i # j /\ msgs[i].res = msgs[j].res => msgs[i].res = 0
        /\ open = 0 \/ (stop = "loop" /\ open = 1)

\* The same calls and answers.
Like(c, q) ==
    /\ c \in Seq(AgMessages) /\ q \in Seq(AgMessages)
    /\ \A x \in AgCalls : HasCall(c, x) <=> HasCall(q, x)
    /\ \A id : id # 0 => (AnsweredIn(c, id) <=> AnsweredIn(q, id))
    /\ \A k \in 1..Len(c) : c[k].res # 0 => k \in 1..Len(q) /\ c[k].res = q[k].res

LEMMA WholeFrom ==
    ASSUME NEW q, NEW c, Like(c, q), NEW todo, Answers(q), StillOpen(q, todo), NEW stop,
           c # <<>> => c[Len(c)].calls = <<>>,
           stop # "none" => c[Len(c)] = AssistantText \/ c[Len(c)].media # {},
           todo = <<>> \/ (stop = "loop" /\ Len(todo) = 1)
    PROVE  WholeTurn(c, stop)
  <1>0. /\ c \in Seq(AgMessages) /\ q \in Seq(AgMessages) /\ (\A x \in AgCalls : HasCall(c, x) <=> HasCall(q, x))
        /\ (\A id : id # 0 => (AnsweredIn(c, id) <=> AnsweredIn(q, id)))
        /\ (\A k \in 1..Len(c) : c[k].res # 0 => k \in 1..Len(q) /\ c[k].res = q[k].res)
    BY DEF Like
  <1>1. \A id : id \in CallIds(c) <=> \E x \in AgCalls : HasCall(q, x) /\ x.id = id
    BY <1>0, CallIdsAre
  <1>2. ASSUME NEW k \in 1..Len(c), c[k].res # 0  PROVE c[k].res \in CallIds(c)
    BY <1>0, <1>1, <1>2 DEF Answers
  <1>3. ASSUME NEW i \in 1..Len(c), NEW j \in 1..Len(c), i # j, c[i].res = c[j].res, c[i].res # 0  PROVE FALSE
    BY <1>0, <1>3 DEF Answers
  <1> DEFINE open == {id \in CallIds(c) : ~\E k \in 1..Len(c) : c[k].res = id}
  <1>4. ASSUME NEW id \in open  PROVE \E k \in 1..Len(todo) : todo[k].id = id
    <2>1. PICK x \in AgCalls : HasCall(q, x) /\ x.id = id
      BY <1>1
    <2>2. id # 0 /\ ~AnsweredIn(c, id)
      BY <2>1 DEF AgCalls, AnsweredIn
    <2>3. ~AnsweredIn(q, x.id)
      BY <1>0, <2>1, <2>2
    <2> QED  BY <2>1, <2>3 DEF StillOpen
  <1>5. CASE todo = <<>>
    <2>1. open = {}
      BY <1>4, <1>5
    <2>2. Cardinality(open) = 0
      BY <2>1, FS_EmptySet
    <2> QED  BY <1>2, <1>3, <2>2 DEF WholeTurn, Last
  <1>6. CASE stop = "loop" /\ Len(todo) = 1
    <2>1. todo \in Seq(AgCalls) /\ 1 \in 1..Len(todo) /\ HasCall(q, todo[1]) /\ ~AnsweredIn(q, todo[1].id) /\ todo[1] \in AgCalls
      <3>1. todo \in Seq(AgCalls) /\ \A k \in 1..Len(todo) : HasCall(q, todo[k]) /\ ~AnsweredIn(q, todo[k].id)
        BY DEF StillOpen
      <3>2. 1 \in 1..Len(todo)
        BY <1>6
      <3> QED  BY ONLY <3>1, <3>2, ElementOf
    <2>2. todo[1].id # 0
      BY <2>1 DEF AgCalls
    <2>3. todo[1].id \in open
      <3>1. todo[1].id \in CallIds(c)
        BY <1>1, <2>1
      <3>2. ~AnsweredIn(c, todo[1].id)
        BY <1>0, <2>1, <2>2
      <3> QED  BY <3>1, <3>2 DEF AnsweredIn
    <2>4. open = {todo[1].id}
      <3>1. \A k \in 1..Len(todo) : k = 1
        BY <1>6
      <3> QED  BY <1>4, <2>3, <3>1
    <2>5. Cardinality(open) = 1
      BY <2>4, FS_Singleton
    <2> QED  BY <1>2, <1>3, <1>6, <2>5 DEF WholeTurn, Last
  <1> QED  BY <1>5, <1>6

\* A transcript that may be canonicalized: nothing is open, but for the calls a loop guard left.
RunEnded(q, todo, given, stop) ==
    /\ InRun(q, todo, given) /\ Settled(q)
    /\ stop # "none" => q # <<>> /\ q[Len(q)] = AssistantText
    /\ todo = <<>> \/ (stop = "loop" /\ Len(todo) = 1)
\* What a turn is kept and handed out as.
Handed(c, given, stop) ==
    /\ c \in Seq(AgMessages) /\ WholeTurn(c, stop)
    /\ selectAttachments(c) = given /\ selectAttachments(Canonicalize(c)) = given

\* Only the last message carries media.
LEMMA TrailingIs ==
    ASSUME NEW c \in Seq(AgMessages), c # <<>>, c[Len(c)].role = "assistant",
           \A k \in 1..Len(c) : k # Len(c) /\ c[k].role = "assistant" => c[k].media = {}
    PROVE  TrailingAssistantMedia(c) = c[Len(c)].media
  <1>1. Len(c) \in Nat /\ Len(c) \in 1..Len(c)
    OBVIOUS
  <1>2. Len(c) \in {j \in 1..Len(c) : \A i \in j..Len(c) : c[i].role = "assistant"}
    BY <1>1
  <1>3. ASSUME NEW j \in 1..Len(c), \A i \in j..Len(c) : c[i].role = "assistant"  PROVE c[j].media \subseteq c[Len(c)].media
    <2>1. c[j].role = "assistant"
      BY <1>1, <1>3
    <2> QED  BY <2>1
  <1> QED  BY <1>2, <1>3 DEF TrailingAssistantMedia

LEMMA TrailingNone ==
    ASSUME NEW q, NEW todo, NEW given, InRun(q, todo, given)
    PROVE  TrailingAssistantMedia(q) = {} /\ collectDeliveredAttachments(q) = given /\ Survivors(q) = q
  <1>1. q \in Seq(AgMessages) /\ (\A k \in 1..Len(q) : Made(q[k]) /\ (q[k].role = "assistant" => q[k].media = {})) /\ Len(q) \in Nat
    BY DEF InRun
  <1>2. ASSUME NEW j \in 1..Len(q), \A i \in j..Len(q) : q[i].role = "assistant"  PROVE q[j].media = {}
    BY <1>1, <1>2
  <1>3. TrailingAssistantMedia(q) = {}
    BY <1>2 DEF TrailingAssistantMedia
  <1>4. collectDeliveredAttachments(q) = given
    BY <1>1, DeliveredAre DEF InRun, Attached
  <1>5. \A k \in 1..Len(q) : messageSurvivesCompaction(q[k])
    BY <1>1 DEF Made
  <1> QED  BY <1>1, <1>3, <1>4, <1>5, SurvivorsAll

LEMMA CanonicalizePlain ==
    ASSUME NEW q, NEW todo, NEW given, NEW stop, RunEnded(q, todo, given, stop), given = {}
    PROVE  Canonicalize(q) = q /\ Handed(q, given, stop)
  <1>1. InRun(q, todo, given) /\ q \in Seq(AgMessages) /\ Answers(q) /\ StillOpen(q, todo) /\ Settled(q)
    BY DEF RunEnded, InRun
  <1>2. TrailingAssistantMedia(q) = {} /\ collectDeliveredAttachments(q) = given /\ Survivors(q) = q
    BY <1>1, TrailingNone
  <1>3. Canonicalize(q) = q /\ selectAttachments(q) = given
    BY <1>2 DEF Canonicalize, selectAttachments
  <1>4. Like(q, q)
    BY <1>1 DEF Like
  <1>5. WholeTurn(q, stop)
    <2>1. q # <<>> => q[Len(q)].calls = <<>>
      BY <1>1 DEF Settled
    <2>2. stop # "none" => q[Len(q)] = AssistantText \/ q[Len(q)].media # {}
      BY DEF RunEnded
    <2>3. todo = <<>> \/ (stop = "loop" /\ Len(todo) = 1)
      BY DEF RunEnded
    <2> QED  BY <1>1, <1>4, <2>1, <2>2, <2>3, WholeFrom
  <1> QED  BY <1>1, <1>3, <1>5 DEF Handed

\* The transcript that gets the media: one that ends with an assistant message.
Grown(w, q) == w = IF q # <<>> /\ Last(q).role = "assistant" THEN q ELSE Append(q, Msg("assistant", FALSE, <<>>, 0, {}))
LEMMA WholeIs ==
    ASSUME NEW q, NEW todo, NEW given, InRun(q, todo, given), Settled(q), NEW w, Grown(w, q)
    PROVE  /\ Like(w, q) /\ w # <<>> /\ w[Len(w)].role = "assistant" /\ w[Len(w)].calls = <<>>
           /\ \A k \in 1..Len(w) : w[k].role = "assistant" => w[k].media = {} /\ w[k].res = 0
           /\ \A k \in 1..Len(w) : k # Len(w) => messageSurvivesCompaction(w[k])
           /\ \A k \in 1..Len(w) : w[k].role = "tool" => w[k].res # 0
  <1>1. /\ q \in Seq(AgMessages) /\ Len(q) \in Nat
        /\ \A k \in 1..Len(q) : Made(q[k]) /\ (q[k].role = "assistant" => q[k].media = {})
    BY DEF InRun
  <1>2. CASE q # <<>> /\ Last(q).role = "assistant"
    <2>1. w = q /\ Like(q, q) /\ Len(q) \in 1..Len(q)
      BY <1>1, <1>2 DEF Like, Grown
    <2> QED  BY <1>1, <1>2, <2>1 DEF Made, Settled, Last
  <1>3. CASE ~(q # <<>> /\ Last(q).role = "assistant")
    <2>1. PICK m : m = Msg("assistant", FALSE, <<>>, 0, {})
      OBVIOUS
    <2>2. m \in AgMessages /\ m.role = "assistant" /\ m.calls = <<>> /\ m.res = 0 /\ m.media = {} /\ Len(m.calls) = 0
      BY <2>1 DEF Msg, AgMessages
    <2>3. Said(w, q, m)
      BY <1>1, <1>3, <2>1, <2>2 DEF Said, Grown
    <2>4. /\ w \in Seq(AgMessages) /\ Len(w) = Len(q) + 1 /\ w[Len(q) + 1] = m /\ (\A k \in 1..Len(q) : w[k] = q[k])
          /\ Len(q) + 1 \in 1..Len(w) /\ \A k \in 1..Len(w) : k = Len(q) + 1 \/ k \in 1..Len(q)
      BY ONLY <2>3, SaidIs
    <2>5. Like(w, q)
      <3>1. \A x \in AgCalls : HasCall(w, x) <=> HasCall(q, x)
        BY ONLY <2>2, <2>3, SaidCalls
      <3>2. ASSUME NEW id, id # 0  PROVE AnsweredIn(w, id) <=> AnsweredIn(q, id)
        BY ONLY <2>2, <2>3, <3>2, SaidAnswers
      <3> QED  BY <1>1, <2>2, <2>4, <3>1, <3>2 DEF Like
    <2>6. ASSUME NEW k \in 1..Len(q)  PROVE k # Len(w) /\ w[k] = q[k] /\ k \in 1..Len(w)
      BY <1>1, <2>4
    <2>7. Len(w) = Len(q) + 1 /\ w[Len(w)] = m /\ Len(w) \in 1..Len(w)
      BY <2>4
    <2>8. \A k \in 1..Len(w) : k = Len(w) \/ k \in 1..Len(q)
      BY <2>4
    <2>9. w # <<>>
      BY ONLY <2>4, <2>7
    <2>10. ASSUME NEW k \in 1..Len(w)
           PROVE  /\ w[k].role = "assistant" => w[k].media = {} /\ w[k].res = 0
                  /\ k # Len(w) => messageSurvivesCompaction(w[k])
                  /\ w[k].role = "tool" => w[k].res # 0
      <3>1. CASE k = Len(w)
        BY ONLY <2>2, <2>7, <3>1
      <3>2. CASE k \in 1..Len(q)
        BY ONLY <1>1, <2>6, <3>2 DEF Made
      <3> QED  BY <2>8, <3>1, <3>2
    <2> QED  BY ONLY <2>2, <2>5, <2>7, <2>9, <2>10
  <1> QED  BY <1>2, <1>3

\* Media moved: the messages are w's, tool messages lose given, the last one has exactly given.
Moves(c, w, given) ==
    /\ c \in Seq(AgMessages) /\ w \in Seq(AgMessages) /\ Len(c) = Len(w) /\ c # <<>>
    /\ \A k \in 1..Len(c) : c[k].role = w[k].role /\ c[k].calls = w[k].calls /\ c[k].res = w[k].res
    /\ c[Len(c)].media = given /\ c[Len(c)].role = "assistant"
    /\ \A k \in 1..Len(c) : messageSurvivesCompaction(c[k]) /\ (k # Len(c) /\ c[k].role = "assistant" => c[k].media = {})

LEMMA MovesAre ==
    ASSUME NEW w \in Seq(AgMessages), w # <<>>, w[Len(w)].role = "assistant", NEW given, given \subseteq Refs, given # {},
           \A k \in 1..Len(w) : w[k].role = "assistant" => w[k].media = {} /\ w[k].res = 0,
           \A k \in 1..Len(w) : k # Len(w) => messageSurvivesCompaction(w[k]),
           \A k \in 1..Len(w) : w[k].role = "tool" => w[k].res # 0,
           NEW c, c = [k \in 1..Len(w) |->
                    IF w[k].role = "tool" THEN [w[k] EXCEPT !.media = @ \ given]
                    ELSE IF k = Len(w) THEN [w[k] EXCEPT !.media = @ \cup given]
                    ELSE w[k]]
    PROVE  Moves(c, w, given)
  <1>1. Len(w) \in Nat /\ Len(w) \in 1..Len(w)
    OBVIOUS
  <1>2. ASSUME NEW k \in 1..Len(w)
        PROVE  /\ c[k] \in AgMessages /\ c[k].role = w[k].role /\ c[k].calls = w[k].calls /\ c[k].res = w[k].res
               /\ k = Len(w) => c[k].media = given
               /\ messageSurvivesCompaction(c[k]) /\ (k # Len(w) /\ c[k].role = "assistant" => c[k].media = {})
    <2>1. PICK x \in AgMessages : x = w[k]
      BY ElementOf
    <2>2. x.role \in {"assistant", "tool"} /\ x.media \subseteq Refs
      BY <2>1 DEF AgMessages
    <2>3. CASE x.role = "tool"
      <3>1. PICK y : y = [x EXCEPT !.media = @ \ given]
        OBVIOUS
      <3>2. y \in AgMessages /\ y.role = x.role /\ y.calls = x.calls /\ y.res = x.res
        BY <2>1, <2>2, <3>1 DEF AgMessages
      <3>3. c[k] = y /\ k # Len(w) /\ y.res # 0
        BY <2>1, <2>3, <3>1, <3>2
      <3> QED  BY <2>1, <2>3, <3>2, <3>3 DEF messageSurvivesCompaction
    <2>4. CASE x.role = "assistant" /\ k = Len(w)
      <3>1. PICK y : y = [x EXCEPT !.media = @ \cup given]
        OBVIOUS
      <3>2. x.media = {}
        BY <2>1, <2>4
      <3>3. y \in AgMessages /\ y.role = x.role /\ y.calls = x.calls /\ y.res = x.res /\ y.media = given
        BY <2>1, <2>2, <3>1, <3>2 DEF AgMessages
      <3>4. c[k] = y
        BY <2>1, <2>4, <3>1
      <3> QED  BY <2>1, <2>4, <3>3, <3>4 DEF messageSurvivesCompaction
    <2>5. CASE x.role = "assistant" /\ k # Len(w)
      BY <2>1, <2>5
    <2> QED  BY <2>2, <2>3, <2>4, <2>5
  <1>3. c \in Seq(AgMessages) /\ Len(c) = Len(w) /\ c # <<>>
    <2>1. DOMAIN c = 1..Len(w)
      OBVIOUS
    <2>2. c \in [1..Len(w) -> AgMessages]
      <3>1. c = [k \in 1..Len(w) |-> c[k]]
        OBVIOUS
      <3> QED  BY ONLY <1>2, <3>1
    <2>3. c \in Seq(AgMessages) /\ Len(c) = Len(w)
      BY ONLY <1>1, <2>2
    <2> QED  BY ONLY <1>1, <2>3
  <1>4. c[Len(w)].role = "assistant" /\ c[Len(w)].media = given
    BY <1>1, <1>2
  <1>5. w \in Seq(AgMessages)
    OBVIOUS
  <1> QED  BY ONLY <1>2, <1>3, <1>4, <1>5 DEF Moves

LEMMA CanonicalizeMoved ==
    ASSUME NEW q, NEW todo, NEW given, NEW stop, RunEnded(q, todo, given, stop), given # {}
    PROVE  Handed(Canonicalize(q), given, stop)
  <1>1. /\ InRun(q, todo, given) /\ q \in Seq(AgMessages) /\ Answers(q) /\ StillOpen(q, todo) /\ Settled(q) /\ given \subseteq Refs
        /\ todo = <<>> \/ (stop = "loop" /\ Len(todo) = 1)
    BY DEF RunEnded, InRun
  <1>2. TrailingAssistantMedia(q) = {} /\ collectDeliveredAttachments(q) = given /\ Survivors(q) = q
    BY <1>1, TrailingNone
  <1>3. PICK w : Grown(w, q)
    BY DEF Grown
  <1>4. PICK c : c = [k \in 1..Len(w) |->
                    IF w[k].role = "tool" THEN [w[k] EXCEPT !.media = @ \ given]
                    ELSE IF k = Len(w) THEN [w[k] EXCEPT !.media = @ \cup given]
                    ELSE w[k]]
    OBVIOUS
  <1>5. Canonicalize(q) = Survivors(c)
    BY <1>2, <1>3, <1>4 DEF Canonicalize, Grown
  <1>6. /\ Like(w, q) /\ w # <<>> /\ w[Len(w)].role = "assistant" /\ w[Len(w)].calls = <<>>
        /\ \A k \in 1..Len(w) : w[k].role = "assistant" => w[k].media = {} /\ w[k].res = 0
        /\ \A k \in 1..Len(w) : k # Len(w) => messageSurvivesCompaction(w[k])
        /\ \A k \in 1..Len(w) : w[k].role = "tool" => w[k].res # 0
    BY ONLY <1>1, <1>3, WholeIs
  <1>7. w \in Seq(AgMessages)
    BY ONLY <1>6 DEF Like
  <1>8. Moves(c, w, given)
    BY ONLY <1>1, <1>4, <1>6, <1>7, given # {}, MovesAre
  <1>9. /\ c \in Seq(AgMessages) /\ Len(c) = Len(w) /\ c # <<>> /\ c[Len(c)].media = given /\ c[Len(c)].role = "assistant"
        /\ \A k \in 1..Len(c) : c[k].role = w[k].role /\ c[k].calls = w[k].calls /\ c[k].res = w[k].res
        /\ \A k \in 1..Len(c) : messageSurvivesCompaction(c[k]) /\ (k # Len(c) /\ c[k].role = "assistant" => c[k].media = {})
    BY ONLY <1>8 DEF Moves
  <1>10. Survivors(c) = c
    BY ONLY <1>9, SurvivorsAll
  <1>11. TrailingAssistantMedia(c) = given
    BY ONLY <1>9, TrailingIs
  <1>12. Canonicalize(c) = c /\ selectAttachments(c) = given
    BY <1>10, <1>11 DEF Canonicalize, selectAttachments
  <1>13. Like(c, q)
    <2>1. ASSUME NEW x  PROVE HasCall(c, x) <=> HasCall(w, x)
      BY ONLY <1>9 DEF HasCall
    <2>2. ASSUME NEW id  PROVE AnsweredIn(c, id) <=> AnsweredIn(w, id)
      BY ONLY <1>9 DEF AnsweredIn
    <2> QED  BY ONLY <1>6, <1>9, <2>1, <2>2 DEF Like
  <1>14. c[Len(c)].calls = <<>>
    <2>1. Len(c) \in 1..Len(c)
      BY ONLY <1>9
    <2> QED  BY ONLY <1>6, <1>9, <2>1
  <1>15. WholeTurn(c, stop)
    <2>1. c # <<>> => c[Len(c)].calls = <<>>
      BY ONLY <1>14
    <2>2. stop # "none" => c[Len(c)] = AssistantText \/ c[Len(c)].media # {}
      BY ONLY <1>9, given # {}
    <2> QED  BY ONLY <1>1, <1>13, <2>1, <2>2, WholeFrom
  <1> QED  BY ONLY <1>5, <1>9, <1>10, <1>12, <1>15 DEF Handed

LEMMA CanonicalizeHands ==
    ASSUME NEW q, NEW todo, NEW given, NEW stop, RunEnded(q, todo, given, stop)
    PROVE  Handed(Canonicalize(q), given, stop)
  BY CanonicalizePlain, CanonicalizeMoved

-----------------------------------------------------------------------------
(* The invariant *)

AgStops == {"none", "turns", "budget", "loop"}
RunRecords == [mode : {"none", "reply", "sub"}, turn : Nat, empty : Nat, ctx : BOOLEAN, final : BOOLEAN,
               refs : Seq({Models[i] : i \in DOMAIN Models}), todo : Seq(AgCalls),
               seen : Seq([tool : Tools, out : SUBSET Refs]), stop : AgStops, err : BOOLEAN]
ReplyRecords == [events : Seq({"run_started", "run_failed", "run_finished"}), media : SUBSET Refs, stop : AgStops, refused : BOOLEAN]
StoredRecords == [kind : {"none", "turn"}, msgs : Seq(AgMessages), stop : AgStops]
CountRecords == [runs : Nat, given : SUBSET Refs, asked : Nat, ranFinal : BOOLEAN, subEnded : BOOLEAN]

AgTypes == /\ phase \in {"idle", "turn", "attempt", "call", "tool", "persist"}
           /\ agRun \in RunRecords /\ agMsgs \in Seq(AgMessages) /\ agStored \in StoredRecords
           /\ agReply \in ReplyRecords /\ used \in Nat /\ agCount \in CountRecords
\* The bounds of a run: an attempt, a batch and a retry each use a turn that is left.
AgBounds == /\ agRun.turn <= maxTurns /\ (phase \in {"attempt", "call", "tool"} => agRun.turn < maxTurns)
            /\ agRun.empty <= maxEmpty /\ Len(agRun.seen) <= historySize
            /\ phase = "attempt" => agRun.refs # <<>>
            /\ phase \in {"call", "tool"} => agRun.todo # <<>> /\ ~agRun.final
\* Between turns the transcript has no open call; in a batch the open ones are those to do; what ends a run
\* that is kept is already what it will be stored and handed out as.
AgTranscript ==
    /\ phase \in {"turn", "attempt"} => InRun(agMsgs, <<>>, agCount.given) /\ Settled(agMsgs)
    /\ phase \in {"call", "tool"} => InRun(agMsgs, agRun.todo, agCount.given)
    /\ phase # "persist" => ~agRun.err /\ agRun.stop = "none"
    /\ phase = "persist" /\ (~agRun.err \/ agRun.stop # "none") => Handed(agMsgs, agCount.given, agRun.stop)
    /\ agRun.stop # "none" => agRun.err
    /\ agStored.kind = "turn" => WholeTurn(agStored.msgs, agStored.stop)
\* What a run has told so far, and what it told in the end.
AgTold ==
    /\ phase = "idle" <=> agRun.mode = "none"
    /\ agRun.mode = "reply" => agReply.events = <<"run_started">>
    /\ agRun.mode = "sub" => agReply.events = <<>>
    /\ agRun.mode = "none" =>
         /\ agReply.events \in {<<>>, <<"run_failed">>, <<"run_started", "run_failed">>, <<"run_started", "run_finished">>}
         /\ agReply.events = <<"run_started", "run_finished">> =>
              agReply.media = agCount.given /\ agStored.kind = "turn" /\ agStored.stop = "none"
         /\ agReply.stop # "none" /\ ~agReply.refused => agStored.kind = "turn"
    /\ agRun.mode # "none" => agReply.stop = "none"
AgBudget == agCount.asked = used /\ used <= budgetLimit /\ ~agCount.ranFinal
AgInv == AgTypes /\ AgBounds /\ AgTranscript /\ AgTold /\ AgBudget

LEMMA ShortIs ==
    ASSUME NEW S, NEW s \in Seq(S)
    PROVE  /\ Len(s) \in Nat /\ (Len(s) <= 2 => Len(s) \in 0..2) /\ (Len(s) = 0 <=> s = <<>>) /\ (Len(s) = 1 => s # <<>> /\ Tail(s) = <<>>)
           /\ (Len(s) = 2 => s # <<>> /\ Tail(s) # <<>> /\ Tail(s)[1] = s[2] /\ s[2] \in S)
  <1>0. ASSUME NEW t \in Seq(S)  PROVE (Len(t) = 0 <=> t = <<>>) /\ (Len(t) = 1 => t # <<>> /\ 1 \in 1..Len(t))
    <2>1. Len(t) = 0 => t = <<>>
      OBVIOUS
    <2>2. t = <<>> => Len(t) = 0
      OBVIOUS
    <2>3. Len(t) = 1 => 1 \in 1..Len(t)
      OBVIOUS
    <2> QED  BY <2>1, <2>2, <2>3
  <1>1. ASSUME Len(s) = 1  PROVE Tail(s) = <<>>
    <2>1. s # <<>> /\ Tail(s) \in Seq(S) /\ Len(Tail(s)) = Len(s) - 1
      BY <1>0, <1>1, TailIs
    <2>2. Len(Tail(s)) = 0
      BY <1>1, <2>1
    <2> QED  BY ONLY <1>0, <2>1, <2>2
  <1>2. ASSUME Len(s) = 2  PROVE Tail(s) # <<>> /\ Tail(s)[1] = s[2] /\ s[2] \in S
    <2>1. 2 \in 1..Len(s)
      BY <1>2
    <2>2. s # <<>>
      BY <1>2
    <2>3. Len(Tail(s)) = 1 /\ Tail(s) \in Seq(S) /\ \A k \in 1..Len(Tail(s)) : Tail(s)[k] = s[k + 1]
      BY <1>2, <2>2, TailIs
    <2>4. Tail(s) # <<>> /\ 1 \in 1..Len(Tail(s))
      BY <1>0, <2>3
    <2>5. Tail(s)[1] = s[1 + 1] /\ s[2] \in S
      BY <2>1, <2>3, <2>4, ElementOf
    <2> QED  BY <2>4, <2>5
  <1>3. Len(s) \in Nat /\ (Len(s) <= 2 => Len(s) \in 0..2)
    <2>1. Len(s) \in Nat
      OBVIOUS
    <2>2. ASSUME NEW n \in Nat, n <= 2  PROVE n \in 0..2
      BY <2>2
    <2> QED  BY ONLY <2>1, <2>2
  <1>4. (Len(s) = 0 <=> s = <<>>) /\ (Len(s) = 1 => s # <<>>)
    BY ONLY <1>0, s \in Seq(S)
  <1>5. Len(s) = 2 => s # <<>>
    BY <1>4
  <1> QED  BY ONLY <1>1, <1>2, <1>3, <1>4, <1>5

LEMMA UnexecutedAnswers ==
    ASSUME NEW q, NEW todo, NEW given, InRun(q, todo, given)
    PROVE  /\ InRun(q \o Unexecuted(todo), <<>>, given)
           /\ todo = <<>> => q \o Unexecuted(todo) = q
  <1>10. q \in Seq(AgMessages) /\ todo \in Seq(AgCalls) /\ Len(todo) <= 2
    BY DEF InRun, StillOpen
  <1>1. q \in Seq(AgMessages) /\ todo \in Seq(AgCalls) /\ Len(todo) \in 0..2
    BY ONLY <1>10, ShortIs
  <1>2. ASSUME NEW c \in AgCalls
        PROVE  ToolResult(c.id, {}) \in AgMessages /\ Made(ToolResult(c.id, {})) /\ ToolResult(c.id, {}).role = "tool"
               /\ ToolResult(c.id, {}).res = c.id /\ ToolResult(c.id, {}).media = {}
    BY DEF ToolResult, Msg, AgMessages, AgCalls, Made, messageSurvivesCompaction
  <1>3. CASE Len(todo) = 0
    <2>1. todo = <<>> /\ Unexecuted(todo) = <<>>
      BY <1>1, <1>3 DEF Unexecuted
    <2>2. q \o Unexecuted(todo) = q
      BY ONLY <1>1, <2>1
    <2> QED  BY <2>1, <2>2
  <1>4. CASE Len(todo) = 1 \/ Len(todo) = 2
    <2>1. /\ todo # <<>> /\ Tail(todo) \in Seq(AgCalls) /\ todo[1] \in AgCalls /\ Len(Tail(todo)) = Len(todo) - 1
          /\ \A k \in 1..Len(Tail(todo)) : Tail(todo)[k] = todo[k + 1] /\ k + 1 \in 1..Len(todo)
      BY <1>1, <1>4, TailIs
    <2>2. PICK m : m = ToolResult(todo[1].id, {})
      OBVIOUS
    <2>3. PICK r : r = Append(q, m)
      OBVIOUS
    <2>4. m \in AgMessages /\ Said(r, q, m) /\ Returns(todo, m) /\ m.media = {}
      BY <1>1, <1>2, <2>1, <2>2, <2>3 DEF Said, Returns
    <2>5. given \cup GivenBy(todo, m) = given
      BY <2>4 DEF GivenBy
    <2>6. InRun(r, Tail(todo), given)
      BY ONLY <2>4, <2>5, InRun(q, todo, given), ResultSays
    <2>7. CASE Len(todo) = 1
      <3>1. Tail(todo) = <<>>
        BY <1>1, <2>7, ShortIs
      <3>2. Unexecuted(todo) = <<m>>
        BY <1>1, <2>2, <2>7 DEF Unexecuted
      <3>3. q \o Unexecuted(todo) = r
        BY ONLY <1>1, <2>3, <2>4, <3>2
      <3> QED  BY <2>1, <2>6, <3>1, <3>3
    <2>8. CASE Len(todo) = 2
      <3>1. Tail(todo) # <<>> /\ Len(Tail(todo)) = 1 /\ Tail(todo)[1] = todo[2] /\ todo[2] \in AgCalls
        BY <1>1, <2>1, <2>8, ShortIs
      <3>2. PICK t : t = Tail(todo)
        OBVIOUS
      <3>3. PICK n : n = ToolResult(todo[2].id, {})
        OBVIOUS
      <3>4. PICK s : s = Append(r, n)
        OBVIOUS
      <3>5. r \in Seq(AgMessages) /\ n \in AgMessages /\ Said(s, r, n) /\ Returns(t, n) /\ n.media = {}
        <4>1. r \in Seq(AgMessages)
          BY <2>4, SaidIs
        <4> QED  BY <1>2, <3>1, <3>2, <3>3, <3>4, <4>1 DEF Said, Returns
      <3>6. given \cup GivenBy(t, n) = given
        BY <3>5 DEF GivenBy
      <3>7. InRun(s, Tail(t), given)
        BY ONLY <2>6, <3>2, <3>5, <3>6, ResultSays
      <3>8. Tail(t) = <<>>
        <4>1. t \in Seq(AgCalls) /\ Len(t) = 1
          BY <2>1, <3>1, <3>2
        <4> QED  BY ONLY <4>1, ShortIs
      <3>9. Unexecuted(todo) = <<m, n>>
        BY <1>1, <2>2, <2>8, <3>3 DEF Unexecuted
      <3>10. q \o <<m, n>> = Append(Append(q, m), n)
        BY ONLY <1>1, <2>4, <3>5
      <3> QED  BY <2>1, <2>3, <3>4, <3>7, <3>8, <3>9, <3>10
    <2> QED  BY <1>4, <2>7, <2>8
  <1> QED  BY <1>1, <1>3, <1>4

\* The summary of a stop ends the transcript.
LEMMA SummaryEnds ==
    ASSUME NEW q, NEW todo, NEW given, InRun(q, todo, given), NEW stop,
           todo = <<>> \/ (stop = "loop" /\ Len(todo) = 1)
    PROVE  RunEnded(Append(q, AssistantText), todo, given, stop)
  <1>1. q \in Seq(AgMessages)
    BY DEF InRun
  <1>2. PICK m : m = AssistantText
    OBVIOUS
  <1>3. m \in AgMessages /\ Asks(q, m) /\ m.calls = <<>>
    BY <1>1, <1>2 DEF AssistantText, Msg, AgMessages, Asks, Made, messageSurvivesCompaction
  <1>4. PICK r : r = Append(q, m)
    OBVIOUS
  <1>5. Said(r, q, m)
    BY <1>1, <1>3, <1>4 DEF Said
  <1>6. InRun(r, todo, given)
    BY ONLY <1>3, <1>5, InRun(q, todo, given), AssistantSays
  <1>7. r \in Seq(AgMessages) /\ Len(r) = Len(q) + 1 /\ r[Len(q) + 1] = m /\ Len(q) \in Nat
    BY ONLY <1>5, SaidIs
  <1>8. r # <<>> /\ r[Len(r)] = AssistantText /\ Settled(r)
    BY ONLY <1>2, <1>3, <1>7 DEF Settled
  <1> QED  BY <1>2, <1>4, <1>6, <1>8 DEF RunEnded

LEMMA SelectsRefs ==
    ASSUME NEW q \in Seq(AgMessages)
    PROVE  selectAttachments(q) \subseteq Refs
  <1>1. \A k \in 1..Len(q) : q[k].media \subseteq Refs
    <2> SUFFICES ASSUME NEW k \in 1..Len(q)  PROVE q[k].media \subseteq Refs
      OBVIOUS
    <2>1. q[k] \in AgMessages
      BY ElementOf
    <2> QED  BY <2>1 DEF AgMessages
  <1>2. TrailingAssistantMedia(q) \subseteq Refs
    BY <1>1 DEF TrailingAssistantMedia
  <1>3. collectDeliveredAttachments(q) \subseteq Refs
    <2>1. \A x : x \in collectDeliveredAttachments(q) => \E k \in 1..Len(q) : x \in q[k].media
      BY DeliveredAre
    <2> QED  BY <1>1, <2>1
  <1> QED  BY <1>2, <1>3 DEF selectAttachments

LEMMA RecordKeeps ==
    ASSUME NEW S, NEW seen \in Seq(S), NEW sig \in S, EngineAssumption
    PROVE  Record(seen, sig).seen \in Seq(S) /\ Len(Record(seen, sig).seen) <= historySize
  <1>1. PICK all : all = Append(seen, sig)
    OBVIOUS
  <1>2. all \in Seq(S) /\ Len(all) \in Nat
    BY <1>1
  <1>3. PICK a : a = 1 + (IF Len(all) > historySize THEN Len(all) - historySize ELSE 0)
    OBVIOUS
  <1>4. historySize \in Nat
    BY DEF EngineAssumption
  <1>5. a \in Nat /\ a >= 1 /\ a <= Len(all) + 1 /\ Len(all) - a + 1 <= historySize
    BY ONLY <1>2, <1>3, <1>4
  <1>6. SubSeq(all, a, Len(all)) \in Seq(S) /\ Len(SubSeq(all, a, Len(all))) <= historySize
    BY ONLY <1>2, <1>4, <1>5
  <1>7. Record(seen, sig).seen = SubSeq(all, a, Len(all))
    BY <1>1, <1>3 DEF Record
  <1> QED  BY <1>6, <1>7

-----------------------------------------------------------------------------
(* Every step keeps the invariant *)

LEMMA AgentInitHolds == EngineAssumption /\ AgentInit => AgInv
  <1> SUFFICES ASSUME EngineAssumption, AgentInit  PROVE AgInv
    OBVIOUS
  <1> USE DEF AgentInit
  <1>1. AgTypes
    BY DEF AgTypes, NoRun, NoReply, RunRecords, ReplyRecords, StoredRecords, CountRecords, AgStops
  <1>2. AgBounds
    BY DEF AgBounds, NoRun, EngineAssumption
  <1>3. AgTranscript
    BY DEF AgTranscript, NoRun
  <1>4. AgTold
    BY DEF AgTold, NoRun, NoReply
  <1>5. AgBudget
    BY DEF AgBudget, EngineAssumption
  <1> QED  BY <1>1, <1>2, <1>3, <1>4, <1>5 DEF AgInv

\* A run that fails: nothing of it is kept.
LEMMA FailsHolds ==
    ASSUME AgInv, phase # "idle", phase # "persist", Fails, agMsgs' \in Seq(AgMessages), UNCHANGED <<agStored, agReply>>,
           used' \in Nat, agCount' \in CountRecords, AgBudget'
    PROVE  AgInv'
  <1>1. AgTypes /\ AgBounds /\ AgTranscript /\ AgTold
    BY DEF AgInv
  <1>2. agRun \in RunRecords /\ <<>> \in Seq(AgCalls) /\ <<>> \in Seq({Models[i] : i \in DOMAIN Models})
    BY <1>1 DEF AgTypes
  <1>3. phase' = "persist" /\ agRun' = [agRun EXCEPT !.err = TRUE, !.todo = <<>>, !.refs = <<>>]
    BY DEF Fails
  <1>4. /\ agRun' \in RunRecords /\ agRun'.err /\ agRun'.mode = agRun.mode /\ agRun'.turn = agRun.turn /\ agRun'.empty = agRun.empty
        /\ agRun'.seen = agRun.seen /\ agRun'.stop = agRun.stop
    <2>1. PICK u : u = [agRun EXCEPT !.err = TRUE, !.todo = <<>>, !.refs = <<>>]
      OBVIOUS
    <2>2. u \in RunRecords
      BY <1>2, <2>1 DEF RunRecords
    <2>3. u.err /\ u.mode = agRun.mode /\ u.turn = agRun.turn /\ u.empty = agRun.empty /\ u.seen = agRun.seen /\ u.stop = agRun.stop
      BY <1>2, <2>1 DEF RunRecords
    <2> QED  BY <1>3, <2>1, <2>2, <2>3
  <1>5. AgTypes'
    BY <1>1, <1>3, <1>4 DEF AgTypes
  <1>6. AgBounds'
    BY <1>1, <1>3, <1>4 DEF AgBounds
  <1>7. AgTranscript'
    <2>1. phase # "persist" => agRun.stop = "none"
      BY <1>1 DEF AgTranscript
    <2>4. agRun'.stop = "none"
      BY <1>4, <2>1
    <2>5. agRun'.err
      BY ONLY <1>4
    <2>2. phase' = "persist" /\ agRun'.err /\ agRun'.stop = "none"
      BY ONLY <1>3, <2>4, <2>5
    <2>3. agStored'.kind = "turn" => WholeTurn(agStored'.msgs, agStored'.stop)
      BY <1>1 DEF AgTranscript
    <2> QED  BY ONLY <2>2, <2>3 DEF AgTranscript
  <1>8. AgTold'
    BY <1>1, <1>3, <1>4 DEF AgTold
  <1> QED  BY <1>5, <1>6, <1>7, <1>8 DEF AgInv

\* A run that is stopped: its transcript is kept as it is handed out.
LEMMA StopHolds ==
    ASSUME AgInv, phase # "idle", phase # "persist", NEW q, NEW todo, NEW reason \in AgStops \ {"none"},
           RunEnded(q, todo, agCount'.given, reason),
           agRun' = [agRun EXCEPT !.stop = reason, !.err = TRUE, !.todo = <<>>, !.refs = <<>>],
           agMsgs' = Canonicalize(q), phase' = "persist",
           UNCHANGED <<agStored, agReply, used>>, agCount' \in CountRecords, AgBudget'
    PROVE  AgInv'
  <1>1. AgTypes /\ AgBounds /\ AgTranscript /\ AgTold
    BY DEF AgInv
  <1>2. agRun \in RunRecords /\ used \in Nat /\ <<>> \in Seq(AgCalls) /\ <<>> \in Seq({Models[i] : i \in DOMAIN Models})
    BY <1>1 DEF AgTypes
  <1>3. PICK given : given = agCount'.given
    OBVIOUS
  <1>4. Handed(agMsgs', given, reason)
    <2>1. RunEnded(q, todo, given, reason)
      BY <1>3
    <2>2. Handed(Canonicalize(q), given, reason)
      BY ONLY <2>1, CanonicalizeHands
    <2> QED  BY <2>2
  <1>5. /\ agRun' \in RunRecords /\ agRun'.err /\ agRun'.mode = agRun.mode /\ agRun'.turn = agRun.turn /\ agRun'.empty = agRun.empty
        /\ agRun'.seen = agRun.seen /\ agRun'.stop = reason
    <2>1. PICK u : u = [agRun EXCEPT !.stop = reason, !.err = TRUE, !.todo = <<>>, !.refs = <<>>]
      OBVIOUS
    <2>2. u \in RunRecords
      BY <1>2, <2>1 DEF RunRecords
    <2>3. u.err /\ u.mode = agRun.mode /\ u.turn = agRun.turn /\ u.empty = agRun.empty /\ u.seen = agRun.seen /\ u.stop = reason
      BY <1>2, <2>1 DEF RunRecords
    <2> QED  BY <2>1, <2>2, <2>3
  <1>6. agMsgs' \in Seq(AgMessages)
    BY <1>4 DEF Handed
  <1>7. AgTypes'
    BY <1>1, <1>5, <1>6 DEF AgTypes
  <1>8. AgBounds'
    BY <1>1, <1>5 DEF AgBounds
  <1>9. AgTranscript'
    <2>1. Handed(agMsgs', agCount'.given, agRun'.stop)
      BY <1>3, <1>4, <1>5
    <2> QED  BY <1>1, <1>5, <2>1 DEF AgTranscript
  <1>10. AgTold'
    BY <1>1, <1>5 DEF AgTold
  <1> QED  BY <1>7, <1>8, <1>9, <1>10 DEF AgInv

LEMMA Started ==
    ASSUME NEW mode \in {"none", "reply", "sub"}
    PROVE  /\ [NoRun EXCEPT !.mode = mode] \in RunRecords /\ [NoRun EXCEPT !.mode = mode].mode = mode
           /\ [NoRun EXCEPT !.mode = mode].turn = 0 /\ [NoRun EXCEPT !.mode = mode].empty = 0
           /\ [NoRun EXCEPT !.mode = mode].seen = <<>> /\ ~[NoRun EXCEPT !.mode = mode].err
           /\ [NoRun EXCEPT !.mode = mode].stop = "none" /\ NoRun \in RunRecords /\ NoRun = [NoRun EXCEPT !.mode = "none"]
  <1>1. PICK r : r = [NoRun EXCEPT !.mode = mode]
    OBVIOUS
  <1>2. <<>> \in Seq(AgCalls) /\ <<>> \in Seq({Models[i] : i \in DOMAIN Models}) /\ <<>> \in Seq([tool : Tools, out : SUBSET Refs])
    OBVIOUS
  <1>3. NoRun \in RunRecords
    BY <1>2 DEF NoRun, RunRecords, AgStops
  <1>4. r \in RunRecords
    BY <1>1, <1>3 DEF RunRecords
  <1>5. r.mode = mode /\ r.turn = 0 /\ r.empty = 0 /\ r.seen = <<>> /\ ~r.err /\ r.stop = "none"
    BY <1>1 DEF NoRun
  <1>6. NoRun = [NoRun EXCEPT !.mode = "none"]
    BY DEF NoRun
  <1> QED  BY <1>1, <1>3, <1>4, <1>5, <1>6

LEMMA ReplyHolds ==
    ASSUME EngineAssumption, AgInv, NEW outcome \in {"reserve", "prepare", "ok"}, Reply(outcome)
    PROVE  AgInv'
  <1>1. AgTypes /\ AgBounds /\ AgTranscript /\ AgTold /\ AgBudget /\ phase = "idle"
    BY DEF AgInv, Reply
  <1>2. agRun \in RunRecords /\ agCount \in CountRecords /\ used \in Nat
    BY <1>1 DEF AgTypes
  <1>3. agCount' \in CountRecords /\ agCount'.given = {} /\ agCount'.asked = agCount.asked /\ ~agCount'.ranFinal
    <2>1. PICK n \in Nat : n = agCount.runs + 1
      BY <1>2 DEF CountRecords
    <2>2. PICK d : d = [agCount EXCEPT !.runs = n, !.given = {}, !.ranFinal = FALSE]
      OBVIOUS
    <2>3. d \in CountRecords
      BY <1>2, <2>2 DEF CountRecords
    <2>4. d.given = {} /\ d.asked = agCount.asked /\ ~d.ranFinal
      BY <1>2, <2>2 DEF CountRecords
    <2>5. agCount' = d
      BY <2>1, <2>2 DEF Reply
    <2> QED  BY <2>3, <2>4, <2>5
  <1>4. /\ agMsgs' = <<>> /\ agStored' = [kind |-> "none", msgs |-> <<>>, stop |-> "none"] /\ used' = used
        /\ agMsgs' \in Seq(AgMessages) /\ agStored' \in StoredRecords /\ agStored'.kind = "none"
    BY DEF Reply, StoredRecords, AgStops
  <1>5. /\ agReply'.stop = "none" /\ agReply' \in ReplyRecords
        /\ outcome = "ok" => agReply'.events = <<"run_started">>
        /\ outcome # "ok" => agReply'.events \in {<<"run_failed">>, <<"run_started", "run_failed">>}
    <2>1. PICK e : /\ e = CASE outcome = "ok" -> <<"run_started">>
                             [] outcome = "prepare" -> <<"run_started", "run_failed">>
                             [] OTHER -> <<"run_failed">>
                   /\ agReply' = [NoReply EXCEPT !.events = e]
      BY DEF Reply
    <2>2. /\ outcome = "ok" => e = <<"run_started">>
          /\ outcome # "ok" => e \in {<<"run_failed">>, <<"run_started", "run_failed">>}
      BY ONLY <2>1, outcome \in {"reserve", "prepare", "ok"}
    <2>3. e \in Seq({"run_started", "run_failed", "run_finished"})
      <3>1. /\ <<"run_started">> \in Seq({"run_started", "run_failed", "run_finished"})
            /\ <<"run_failed">> \in Seq({"run_started", "run_failed", "run_finished"})
            /\ <<"run_started", "run_failed">> \in Seq({"run_started", "run_failed", "run_finished"})
        OBVIOUS
      <3> QED  BY <2>2, <3>1
    <2>4. agReply' = [events |-> e, media |-> {}, stop |-> "none", refused |-> FALSE]
      BY <2>1 DEF NoReply
    <2>5. agReply' \in ReplyRecords
      BY <2>3, <2>4 DEF ReplyRecords, AgStops
    <2> QED  BY <2>2, <2>4, <2>5
  <1>6. CASE outcome = "ok"
    <2>1. phase' = "turn" /\ agRun' = [NoRun EXCEPT !.mode = "reply"]
      BY <1>6 DEF Reply
    <2>2. /\ agRun' \in RunRecords /\ agRun'.mode = "reply" /\ agRun'.turn = 0 /\ agRun'.empty = 0 /\ agRun'.seen = <<>>
          /\ ~agRun'.err /\ agRun'.stop = "none"
      BY <2>1, Started
    <2>3. AgTypes'
      BY <1>2, <1>3, <1>4, <1>5, <2>1, <2>2 DEF AgTypes
    <2>4. AgBounds'
      BY <2>1, <2>2 DEF AgBounds, EngineAssumption
    <2>5. InRun(<<>>, <<>>, {}) /\ Settled(<<>>)
      BY DEF InRun, Settled, CallsNumbered, Answers, StillOpen, Attached, HasCall, AnsweredIn
    <2>6. AgTranscript'
      BY <1>3, <1>4, <2>1, <2>2, <2>5 DEF AgTranscript
    <2>7. AgTold'
      BY <1>5, <1>6, <2>1, <2>2 DEF AgTold
    <2>8. AgBudget'
      BY <1>1, <1>3, <1>4 DEF AgBudget
    <2> QED  BY <2>3, <2>4, <2>6, <2>7, <2>8 DEF AgInv
  <1>7. CASE outcome # "ok"
    <2>1. phase' = phase /\ agRun' = agRun
      BY <1>7 DEF Reply
    <2>2. AgTypes'
      BY <1>1, <1>2, <1>3, <1>4, <1>5, <2>1 DEF AgTypes
    <2>3. AgBounds'
      BY <1>1, <2>1 DEF AgBounds
    <2>4. AgTranscript'
      BY <1>1, <1>4, <2>1 DEF AgTranscript
    <2>5. agReply'.events # <<"run_started", "run_finished">>
      BY <1>5, <1>7
    <2>6. AgTold'
      BY <1>1, <1>5, <1>7, <2>1, <2>5 DEF AgTold
    <2>7. AgBudget'
      BY <1>1, <1>3, <1>4 DEF AgBudget
    <2> QED  BY <2>2, <2>3, <2>4, <2>6, <2>7 DEF AgInv
  <1> QED  BY <1>6, <1>7

LEMMA SubagentRunHolds == ASSUME EngineAssumption, AgInv, SubagentRun  PROVE AgInv'
  <1>1. AgTypes /\ AgBounds /\ AgTranscript /\ AgTold /\ AgBudget /\ phase = "idle"
    BY DEF AgInv, SubagentRun
  <1>2. agRun \in RunRecords /\ agCount \in CountRecords /\ used \in Nat
    BY <1>1 DEF AgTypes
  <1>3. agCount' \in CountRecords /\ agCount'.given = {} /\ agCount'.asked = agCount.asked /\ ~agCount'.ranFinal
    <2>1. PICK n \in Nat : n = agCount.runs + 1
      BY <1>2 DEF CountRecords
    <2>2. PICK d : d = [agCount EXCEPT !.runs = n, !.given = {}, !.ranFinal = FALSE]
      OBVIOUS
    <2>3. d \in CountRecords
      BY <1>2, <2>2 DEF CountRecords
    <2>4. d.given = {} /\ d.asked = agCount.asked /\ ~d.ranFinal
      BY <1>2, <2>2 DEF CountRecords
    <2>5. agCount' = d
      BY <2>1, <2>2 DEF SubagentRun
    <2> QED  BY <2>3, <2>4, <2>5
  <1>4. /\ agMsgs' = <<>> /\ used' = used /\ agMsgs' \in Seq(AgMessages) /\ agStored' \in StoredRecords /\ agStored'.kind = "none"
        /\ phase' = "turn" /\ agRun' = [NoRun EXCEPT !.mode = "sub"]
    BY DEF SubagentRun, StoredRecords, AgStops
  <1>5. agReply'.stop = "none" /\ agReply'.events = <<>> /\ agReply' \in ReplyRecords
    <2>1. <<>> \in Seq({"run_started", "run_failed", "run_finished"})
      OBVIOUS
    <2> QED  BY <2>1 DEF SubagentRun, NoReply, ReplyRecords, AgStops
  <1>6. /\ agRun' \in RunRecords /\ agRun'.mode = "sub" /\ agRun'.turn = 0 /\ agRun'.empty = 0 /\ agRun'.seen = <<>>
        /\ ~agRun'.err /\ agRun'.stop = "none"
    BY <1>4, Started
  <1>7. AgTypes'
    BY <1>2, <1>3, <1>4, <1>5, <1>6 DEF AgTypes
  <1>8. AgBounds'
    BY <1>4, <1>6 DEF AgBounds, EngineAssumption
  <1>9. InRun(<<>>, <<>>, {}) /\ Settled(<<>>)
    BY DEF InRun, Settled, CallsNumbered, Answers, StillOpen, Attached, HasCall, AnsweredIn
  <1>10. AgTranscript'
    BY <1>3, <1>4, <1>6, <1>9 DEF AgTranscript
  <1>11. AgTold'
    BY <1>4, <1>5, <1>6 DEF AgTold
  <1>12. AgBudget'
    BY <1>1, <1>3, <1>4 DEF AgBudget
  <1> QED  BY <1>7, <1>8, <1>10, <1>11, <1>12 DEF AgInv

\* A step that leaves all but the run's context, or its list of models, as it was.
LEMMA RunOnlyHolds ==
    ASSUME AgInv, agRun' \in RunRecords, agRun'.mode = agRun.mode, agRun'.turn = agRun.turn, agRun'.empty = agRun.empty,
           agRun'.final = agRun.final, agRun'.todo = agRun.todo, agRun'.seen = agRun.seen, agRun'.stop = agRun.stop, agRun'.err = agRun.err,
           phase = "attempt" => agRun'.refs # <<>>, UNCHANGED <<phase, agMsgs, agStored, agReply, used, agCount>>
    PROVE  AgInv'
  <1>1. AgTypes /\ AgBounds /\ AgTranscript /\ AgTold /\ AgBudget
    BY DEF AgInv
  <1>2. AgTypes'
    BY <1>1 DEF AgTypes
  <1>3. AgBounds'
    BY <1>1 DEF AgBounds
  <1>4. AgTranscript'
    BY <1>1 DEF AgTranscript
  <1>5. AgTold'
    BY <1>1 DEF AgTold
  <1>6. AgBudget'
    BY <1>1 DEF AgBudget
  <1> QED  BY <1>2, <1>3, <1>4, <1>5, <1>6 DEF AgInv

LEMMA CancelRunHolds == ASSUME AgInv, CancelRun  PROVE AgInv'
  <1>1. agRun \in RunRecords /\ (phase = "attempt" => agRun.refs # <<>>)
    BY DEF AgInv, AgTypes, AgBounds
  <1>2. PICK u : u = [agRun EXCEPT !.ctx = FALSE]
    OBVIOUS
  <1>3. u \in RunRecords
    BY <1>1, <1>2 DEF RunRecords
  <1>4. /\ u.mode = agRun.mode /\ u.turn = agRun.turn /\ u.empty = agRun.empty /\ u.final = agRun.final /\ u.todo = agRun.todo
        /\ u.seen = agRun.seen /\ u.stop = agRun.stop /\ u.err = agRun.err /\ u.refs = agRun.refs
    BY <1>1, <1>2 DEF RunRecords
  <1>5. agRun' = u /\ UNCHANGED <<phase, agMsgs, agStored, agReply, used, agCount>>
    BY <1>2 DEF CancelRun
  <1> QED  BY <1>1, <1>3, <1>4, <1>5, RunOnlyHolds

LEMMA TurnLimitHolds == ASSUME EngineAssumption, AgInv, TurnLimit  PROVE AgInv'
  <1>1. AgTypes /\ AgTranscript /\ AgBudget /\ phase = "turn"
    BY DEF AgInv, TurnLimit
  <1>2. PICK reason : reason = IF Budgeted /\ Remaining <= 0 THEN "budget" ELSE "turns"
    OBVIOUS
  <1>3. reason \in AgStops \ {"none"}
    BY <1>2 DEF AgStops
  <1>4. PICK q : q = Append(agMsgs, AssistantText)
    OBVIOUS
  <1>5. /\ agRun' = [agRun EXCEPT !.stop = reason, !.err = TRUE, !.todo = <<>>, !.refs = <<>>]
        /\ agMsgs' = Canonicalize(q) /\ phase' = "persist" /\ UNCHANGED <<agStored, agReply, used, agCount>>
    BY <1>2, <1>4 DEF TurnLimit, Stopped
  <1>6. RunEnded(q, <<>>, agCount'.given, reason)
    <2>1. PICK given : given = agCount'.given
      OBVIOUS
    <2>2. InRun(agMsgs, <<>>, given)
      BY <1>1, <1>5, <2>1 DEF AgTranscript
    <2>3. RunEnded(q, <<>>, given, reason)
      BY ONLY <1>4, <2>2, SummaryEnds
    <2> QED  BY <2>1, <2>3
  <1>7. agCount' \in CountRecords /\ AgBudget'
    BY <1>1, <1>5 DEF AgTypes, AgBudget
  <1> QED  BY <1>1, <1>3, <1>5, <1>6, <1>7, StopHolds

LEMMA TurnStartHolds == ASSUME EngineAssumption, AgInv, NEW n \in 0..Len(Models), TurnStart(n)  PROVE AgInv'
  <1>1. AgTypes /\ AgBounds /\ AgTranscript /\ AgTold /\ AgBudget /\ phase = "turn" /\ ~OutOfTurns
    BY DEF AgInv, TurnStart
  <1>2. agRun \in RunRecords /\ agCount \in CountRecords /\ used \in Nat /\ agMsgs \in Seq(AgMessages)
    BY <1>1 DEF AgTypes
  <1>3. PICK c : c = IF Budgeted THEN agCount.asked + 1 ELSE agCount.asked
    OBVIOUS
  <1>4. PICK d : d = [agCount EXCEPT !.asked = c]
    OBVIOUS
  <1>5. c \in Nat
    BY <1>2, <1>3 DEF CountRecords
  <1>6. d \in CountRecords
    BY <1>2, <1>4, <1>5 DEF CountRecords
  <1>7. d.asked = c /\ d.given = agCount.given /\ d.ranFinal = agCount.ranFinal
    BY <1>2, <1>4 DEF CountRecords
  <1>8. agCount' = d
    BY <1>3, <1>4 DEF TurnStart
  <1>9. used' = (IF Budgeted THEN used + 1 ELSE used) /\ UNCHANGED <<agMsgs, agStored, agReply>>
    BY DEF TurnStart
  <1>10. used' \in Nat /\ AgBudget'
    <2>1. Budgeted => budgetLimit - used > 0
      BY <1>1, <1>2 DEF OutOfTurns, Remaining, EngineAssumption
    <2>2. budgetLimit \in Nat /\ agCount.asked = used /\ used <= budgetLimit /\ ~agCount.ranFinal
      BY <1>1 DEF AgBudget, EngineAssumption
    <2>3. used' \in Nat /\ used' <= budgetLimit /\ c = used'
      BY <1>2, <1>3, <1>9, <2>1, <2>2
    <2> QED  BY <1>7, <1>8, <2>2, <2>3 DEF AgBudget
  <1>11. CASE n = 0
    <2>1. Fails
      BY <1>11 DEF TurnStart
    <2> QED  BY <1>1, <1>2, <1>6, <1>8, <1>9, <1>10, <2>1, FailsHolds
  <1>12. CASE n # 0
    <2>1. PICK S : S = {Models[i] : i \in DOMAIN Models}
      OBVIOUS
    <2>2. Models \in Seq(S)
      BY <2>1 DEF EngineAssumption
    <2>3. PICK refs : refs = SubSeq(Models, 1, n)
      OBVIOUS
    <2>4. refs \in Seq(S) /\ Len(refs) = n
      BY ONLY <2>2, <2>3, n \in 0..Len(Models)
    <2>5. refs # <<>>
      BY ONLY <1>12, <2>4
    <2>6. PICK f \in BOOLEAN : f = (Budgeted /\ Remaining = 1)
      OBVIOUS
    <2>7. PICK u : u = [agRun EXCEPT !.refs = refs, !.final = f]
      OBVIOUS
    <2>8. u \in RunRecords
      BY <1>2, <2>1, <2>4, <2>7 DEF RunRecords
    <2>9. /\ u.mode = agRun.mode /\ u.turn = agRun.turn /\ u.empty = agRun.empty /\ u.todo = agRun.todo
          /\ u.seen = agRun.seen /\ u.stop = agRun.stop /\ u.err = agRun.err /\ u.refs = refs
      BY <1>2, <2>7 DEF RunRecords
    <2>10. agRun' = u /\ phase' = "attempt"
      BY <1>12, <2>3, <2>6, <2>7 DEF TurnStart
    <2>11. AgTypes'
      BY <1>1, <1>6, <1>8, <1>9, <1>10, <2>8, <2>10 DEF AgTypes
    <2>12. AgBounds'
      <3>1. agRun.turn < maxTurns
        BY <1>1, <1>2 DEF OutOfTurns, RunRecords, EngineAssumption
      <3> QED  BY <1>1, <2>5, <2>9, <2>10, <3>1 DEF AgBounds
    <2>13. AgTranscript'
      BY <1>1, <1>7, <1>8, <1>9, <2>9, <2>10 DEF AgTranscript
    <2>14. AgTold'
      BY <1>1, <1>7, <1>8, <1>9, <2>9, <2>10 DEF AgTold
    <2> QED  BY <1>10, <2>11, <2>12, <2>13, <2>14 DEF AgInv
  <1> QED  BY <1>11, <1>12

LEMMA AttemptFailsHolds == ASSUME AgInv, AttemptFails  PROVE AgInv'
  <1>1. AgTypes /\ AgBounds /\ AgBudget /\ phase = "attempt"
    BY DEF AgInv, AttemptFails
  <1>2. agRun \in RunRecords /\ agMsgs \in Seq(AgMessages) /\ used \in Nat /\ agCount \in CountRecords
    BY <1>1 DEF AgTypes
  <1>3. UNCHANGED <<agMsgs, agStored, agReply, used, agCount>>
    BY DEF AttemptFails
  <1>4. CASE ~agRun.ctx \/ Len(agRun.refs) = 1
    <2>1. Fails
      BY <1>4 DEF AttemptFails
    <2>2. AgBudget'
      BY <1>1, <1>3 DEF AgBudget
    <2> QED  BY <1>1, <1>2, <1>3, <2>1, <2>2, FailsHolds
  <1>5. CASE ~(~agRun.ctx \/ Len(agRun.refs) = 1)
    <2>1. PICK S : S = {Models[i] : i \in DOMAIN Models}
      OBVIOUS
    <2>2. PICK s : s = agRun.refs
      OBVIOUS
    <2>3. s \in Seq(S) /\ s # <<>> /\ Len(s) # 1
      BY <1>1, <1>2, <1>5, <2>1, <2>2 DEF RunRecords, AgBounds
    <2>4. Tail(s) \in Seq(S) /\ Len(Tail(s)) = Len(s) - 1 /\ Len(s) \in Nat
      BY ONLY <2>3, TailIs
    <2>5. PICK t : t = Tail(s)
      OBVIOUS
    <2>6. t \in Seq(S) /\ t # <<>>
      <3>1. Len(t) # 0
        BY ONLY <2>3, <2>4, <2>5
      <3> QED  BY ONLY <2>4, <2>5, <3>1, ShortIs
    <2>7. PICK u : u = [agRun EXCEPT !.refs = t]
      OBVIOUS
    <2>8. u \in RunRecords
      BY <1>2, <2>1, <2>6, <2>7 DEF RunRecords
    <2>9. /\ u.mode = agRun.mode /\ u.turn = agRun.turn /\ u.empty = agRun.empty /\ u.final = agRun.final /\ u.todo = agRun.todo
          /\ u.seen = agRun.seen /\ u.stop = agRun.stop /\ u.err = agRun.err /\ u.refs = t
      BY <1>2, <2>7 DEF RunRecords
    <2>10. agRun' = u /\ phase' = phase
      BY <1>5, <2>2, <2>5, <2>7 DEF AttemptFails
    <2> QED  BY <1>3, <2>6, <2>8, <2>9, <2>10, RunOnlyHolds
  <1> QED  BY <1>4, <1>5

LEMMA ToolStartsHolds == ASSUME AgInv, ToolStarts  PROVE AgInv'
  <1>1. AgTypes /\ AgBounds /\ AgTranscript /\ AgTold /\ AgBudget /\ phase = "call"
    BY DEF AgInv, ToolStarts
  <1>2. agRun \in RunRecords /\ agMsgs \in Seq(AgMessages) /\ used \in Nat /\ agCount \in CountRecords
    BY <1>1 DEF AgTypes
  <1>3. UNCHANGED <<agMsgs, agStored, agReply, used>>
    BY DEF ToolStarts
  <1>4. ~agRun.final /\ ~agCount.ranFinal /\ agCount.asked = used
    BY <1>1 DEF AgBounds, AgBudget
  <1>5. agCount' \in CountRecords /\ agCount'.given = agCount.given /\ agCount'.asked = used /\ ~agCount'.ranFinal
    <2>1. PICK f \in BOOLEAN : f = (agCount.ranFinal \/ agRun.final)
      OBVIOUS
    <2>2. ~f
      BY <1>4, <2>1
    <2>3. PICK d : d = [agCount EXCEPT !.ranFinal = f]
      OBVIOUS
    <2>4. d \in CountRecords
      BY <1>2, <2>3 DEF CountRecords
    <2>5. d.given = agCount.given /\ d.asked = agCount.asked /\ d.ranFinal = f
      BY <1>2, <2>3 DEF CountRecords
    <2>6. agCount' = d
      BY <2>1, <2>3 DEF ToolStarts
    <2> QED  BY <1>4, <2>2, <2>4, <2>5, <2>6
  <1>6. AgBudget'
    BY <1>1, <1>3, <1>5 DEF AgBudget
  <1>7. CASE agRun.ctx
    <2>1. phase' = "tool" /\ agRun' = agRun
      BY <1>7 DEF ToolStarts
    <2>2. AgTypes'
      BY <1>1, <1>3, <1>5, <2>1 DEF AgTypes
    <2>3. AgBounds'
      BY <1>1, <2>1 DEF AgBounds
    <2>4. AgTranscript'
      BY <1>1, <1>3, <1>5, <2>1 DEF AgTranscript
    <2>5. AgTold'
      BY <1>1, <1>3, <1>5, <2>1 DEF AgTold
    <2> QED  BY <1>6, <2>2, <2>3, <2>4, <2>5 DEF AgInv
  <1>8. CASE ~agRun.ctx
    <2>1. Fails
      BY <1>8 DEF ToolStarts
    <2> QED  BY <1>1, <1>2, <1>3, <1>5, <1>6, <2>1, FailsHolds
  <1> QED  BY <1>7, <1>8

LEMMA ToolFinishesHolds == ASSUME EngineAssumption, AgInv, NEW media \in ToolOutcomes, ToolFinishes(media)  PROVE AgInv'
  <1>1. AgTypes /\ AgBounds /\ AgTranscript /\ AgTold /\ AgBudget /\ phase = "tool"
    BY DEF AgInv, ToolFinishes
  <1>2. agRun \in RunRecords /\ agMsgs \in Seq(AgMessages) /\ used \in Nat /\ agCount \in CountRecords
    BY <1>1 DEF AgTypes
  <1>3. PICK todo : todo = agRun.todo
    OBVIOUS
  <1>4. PICK given : given = agCount.given
    OBVIOUS
  <1>5. InRun(agMsgs, todo, given) /\ todo # <<>> /\ ~agRun.final /\ todo \in Seq(AgCalls) /\ given \subseteq Refs
    BY <1>1, <1>2, <1>3, <1>4 DEF AgTranscript, AgBounds, RunRecords, CountRecords
  <1>6. /\ Tail(todo) \in Seq(AgCalls) /\ todo[1] \in AgCalls /\ Head(todo) = todo[1] /\ Len(todo) \in Nat /\ Len(todo) > 0
        /\ Len(Tail(todo)) = Len(todo) - 1
    BY ONLY <1>5, TailIs
  <1>7. PICK call \in AgCalls : call = todo[1]
    BY <1>6
  <1>8. call.id \in Nat /\ call.id # 0 /\ call.tool \in Tools
    BY <1>7 DEF AgCalls
  <1>9. media \subseteq Refs
    BY DEF ToolOutcomes
  <1>10. PICK m : m = ToolResult(call.id, media)
    OBVIOUS
  <1>11. m \in AgMessages /\ Returns(todo, m) /\ m.media = media
    BY <1>5, <1>7, <1>8, <1>9, <1>10 DEF ToolResult, Msg, AgMessages, Returns, Made, messageSurvivesCompaction
  <1>12. PICK r : r = Append(agMsgs, m)
    OBVIOUS
  <1>13. Said(r, agMsgs, m)
    BY <1>2, <1>11, <1>12 DEF Said
  <1>14. PICK g : g = given \cup GivenBy(todo, m)
    OBVIOUS
  <1>15. InRun(r, Tail(todo), g) /\ Settled(r) /\ r \in Seq(AgMessages)
    BY <1>5, <1>11, <1>13, <1>14, ResultSays, SaidIs
  <1>16. g = (IF call.tool \in DeliverTools THEN given \cup media ELSE given) /\ g \subseteq Refs
    BY <1>5, <1>7, <1>9, <1>11, <1>14 DEF GivenBy
  <1>17. PICK guard : guard = Record(agRun.seen, [tool |-> call.tool, out |-> media])
    OBVIOUS
  <1>18. /\ agCount' = [agCount EXCEPT !.given = IF call.tool \in DeliverTools THEN @ \cup media ELSE @]
         /\ IF ~agRun.ctx THEN Fails /\ agMsgs' = r
            ELSE IF guard.critical THEN Stopped("loop", r)
            ELSE /\ agMsgs' = r
                 /\ agRun' = [agRun EXCEPT !.todo = Tail(@), !.seen = guard.seen, !.turn = IF Len(agRun.todo) = 1 THEN @ + 1 ELSE @]
                 /\ phase' = IF Len(agRun.todo) = 1 THEN "turn" ELSE "call"
         /\ UNCHANGED <<agStored, agReply, used>>
    BY <1>3, <1>6, <1>7, <1>10, <1>12, <1>17 DEF ToolFinishes
  <1>19. agCount' \in CountRecords /\ agCount'.given = g /\ agCount'.asked = agCount.asked /\ agCount'.ranFinal = agCount.ranFinal
    <2>1. PICK d : d = [agCount EXCEPT !.given = g]
      OBVIOUS
    <2>2. d \in CountRecords
      BY <1>2, <1>16, <2>1 DEF CountRecords
    <2>3. d.given = g /\ d.asked = agCount.asked /\ d.ranFinal = agCount.ranFinal
      BY <1>2, <2>1 DEF CountRecords
    <2>4. agCount' = d
      BY <1>4, <1>16, <1>18, <2>1
    <2> QED  BY <2>2, <2>3, <2>4
  <1>20. AgBudget'
    BY <1>1, <1>18, <1>19 DEF AgBudget
  <1>21. CASE ~agRun.ctx
    <2>1. Fails /\ agMsgs' = r
      BY <1>18, <1>21
    <2>2. used' \in Nat /\ agMsgs' \in Seq(AgMessages) /\ UNCHANGED <<agStored, agReply>>
      BY <1>2, <1>15, <1>18, <2>1
    <2> QED  BY <1>1, <1>19, <1>20, <2>1, <2>2, FailsHolds
  <1>22. CASE agRun.ctx /\ guard.critical
    <2>1. Stopped("loop", r)
      BY <1>18, <1>22
    <2>2. PICK q : q = Append(r, AssistantText)
      OBVIOUS
    <2>3. /\ agRun' = [agRun EXCEPT !.stop = "loop", !.err = TRUE, !.todo = <<>>, !.refs = <<>>]
          /\ agMsgs' = Canonicalize(q) /\ phase' = "persist"
      BY <2>1, <2>2 DEF Stopped
    <2>4. PICK t : t = Tail(todo)
      OBVIOUS
    <2>5. t = <<>> \/ ("loop" = "loop" /\ Len(t) = 1)
      <3>1. Len(todo) <= 2
        BY <1>5 DEF InRun, StillOpen
      <3>2. Len(t) = 0 \/ Len(t) = 1
        BY ONLY <1>6, <2>4, <3>1
      <3>3. t \in Seq(AgCalls)
        BY <1>6, <2>4
      <3> QED  BY ONLY <3>2, <3>3, ShortIs
    <2>6. RunEnded(q, t, g, "loop")
      BY ONLY <1>15, <2>2, <2>4, <2>5, SummaryEnds
    <2>7. RunEnded(q, t, agCount'.given, "loop")
      BY <1>19, <2>6
    <2>8. "loop" \in AgStops \ {"none"}
      BY DEF AgStops
    <2> QED  BY <1>1, <1>18, <1>19, <1>20, <2>3, <2>7, <2>8, StopHolds
  <1>23. CASE agRun.ctx /\ ~guard.critical
    <2>1. PICK t : t = Tail(todo)
      OBVIOUS
    <2>2. PICK S : S = [tool : Tools, out : SUBSET Refs]
      OBVIOUS
    <2>3. agRun.seen \in Seq(S)
      BY <1>2, <2>2 DEF RunRecords
    <2>4. PICK sig : sig = [tool |-> call.tool, out |-> media]
      OBVIOUS
    <2>5. sig \in S
      BY <1>8, <1>9, <2>2, <2>4
    <2>6. guard.seen \in Seq(S) /\ Len(guard.seen) <= historySize
      BY <1>17, <2>3, <2>4, <2>5, RecordKeeps
    <2>7. PICK w : w = guard.seen
      OBVIOUS
    <2>8. PICK n : n = IF Len(todo) = 1 THEN agRun.turn + 1 ELSE agRun.turn
      OBVIOUS
    <2>9. n \in Nat /\ n <= maxTurns /\ (Len(todo) # 1 => n < maxTurns)
      <3>1. agRun.turn \in Nat /\ agRun.turn < maxTurns /\ maxTurns \in Nat
        BY <1>1, <1>2 DEF RunRecords, AgBounds, EngineAssumption
      <3> QED  BY ONLY <2>8, <3>1
    <2>10. PICK u : u = [agRun EXCEPT !.todo = t, !.seen = w, !.turn = n]
      OBVIOUS
    <2>11. u \in RunRecords
      BY <1>2, <1>6, <2>1, <2>2, <2>6, <2>7, <2>9, <2>10 DEF RunRecords
    <2>12. /\ u.mode = agRun.mode /\ u.turn = n /\ u.empty = agRun.empty /\ u.final = agRun.final /\ u.todo = t
           /\ u.seen = w /\ u.stop = agRun.stop /\ u.err = agRun.err
      BY <1>2, <2>10 DEF RunRecords
    <2>13. agMsgs' = r /\ agRun' = u /\ phase' = IF Len(todo) = 1 THEN "turn" ELSE "call"
      BY <1>3, <1>18, <1>23, <2>1, <2>7, <2>8, <2>10
    <2>14. AgTypes'
      BY <1>1, <1>15, <1>18, <1>19, <2>11, <2>13 DEF AgTypes
    <2>15. (Len(todo) = 1 => t = <<>>) /\ (Len(todo) # 1 => t # <<>>)
      <3>1. t \in Seq(AgCalls) /\ (Len(todo) = 1 => Len(t) = 0) /\ (Len(todo) # 1 => Len(t) # 0)
        BY <1>6, <2>1
      <3> QED  BY ONLY <3>1, ShortIs
    <2>16. AgBounds'
      <3>1. agRun.empty <= maxEmpty /\ phase' # "attempt" /\ phase' # "tool" /\ (phase' = "call" <=> Len(todo) # 1)
        BY <1>1, <2>13 DEF AgBounds
      <3> QED  BY <1>5, <2>6, <2>7, <2>9, <2>12, <2>13, <2>15, <3>1 DEF AgBounds
    <2>17. AgTranscript'
      <3>1. ~agRun.err /\ agRun.stop = "none" /\ (agStored.kind = "turn" => WholeTurn(agStored.msgs, agStored.stop))
        BY <1>1 DEF AgTranscript
      <3>2. CASE Len(todo) = 1
        <4>1. phase' = "turn" /\ InRun(agMsgs', <<>>, agCount'.given) /\ Settled(agMsgs')
          BY <1>15, <1>19, <2>1, <2>13, <2>15, <3>2
        <4>2. ~agRun'.err /\ agRun'.stop = "none" /\ agStored' = agStored
          BY <1>18, <2>12, <2>13, <3>1
        <4> QED  BY ONLY <3>1, <4>1, <4>2 DEF AgTranscript
      <3>3. CASE Len(todo) # 1
        <4>1. phase' = "call" /\ InRun(agMsgs', agRun'.todo, agCount'.given)
          BY <1>15, <1>19, <2>1, <2>12, <2>13, <3>3
        <4>2. ~agRun'.err /\ agRun'.stop = "none" /\ agStored' = agStored
          BY <1>18, <2>12, <2>13, <3>1
        <4> QED  BY ONLY <3>1, <4>1, <4>2 DEF AgTranscript
      <3> QED  BY <3>2, <3>3
    <2>18. AgTold'
      <3>1. phase' # "idle" /\ agRun'.mode = agRun.mode /\ agReply' = agReply
        BY <1>18, <2>12, <2>13
      <3> QED  BY <1>1, <3>1 DEF AgTold
    <2> QED  BY <1>20, <2>14, <2>16, <2>17, <2>18 DEF AgInv
  <1> QED  BY <1>21, <1>22, <1>23

LEMMA NumberedCalls ==
    ASSUME agMsgs \in Seq(AgMessages), NEW tools \in Batches
    PROVE  /\ Numbered(tools) \in Seq(AgCalls) /\ Len(Numbered(tools)) <= 2
           /\ \A k \in 1..Len(Numbered(tools)) : Numbered(tools)[k].id = 2 * Len(agMsgs) + k
  <1>1. tools \in Seq(Tools) /\ Len(tools) \in 0..2
    <2>1. CASE tools = <<>>
      BY <2>1
    <2>2. ASSUME NEW a \in Tools, tools = <<a>>  PROVE tools \in Seq(Tools) /\ Len(tools) \in 0..2
      BY <2>2
    <2>3. ASSUME NEW a \in Tools, NEW b \in Tools, tools = <<a, b>>  PROVE tools \in Seq(Tools) /\ Len(tools) \in 0..2
      BY <2>3
    <2> QED  BY <2>1, <2>2, <2>3 DEF Batches
  <1>2. Len(agMsgs) \in Nat
    OBVIOUS
  <1>3. PICK base \in Nat : base = 2 * Len(agMsgs)
    BY <1>2
  <1>4. ASSUME NEW k \in 1..Len(tools)  PROVE [id |-> base + k, tool |-> tools[k]] \in AgCalls
    BY <1>1, <1>3 DEF AgCalls
  <1>5. PICK c : c = [k \in 1..Len(tools) |-> [id |-> base + k, tool |-> tools[k]]]
    OBVIOUS
  <1>6. c = Numbered(tools)
    BY <1>3, <1>5 DEF Numbered
  <1>7. c \in Seq(AgCalls) /\ Len(c) = Len(tools)
    <2>1. c \in [1..Len(tools) -> AgCalls] /\ Len(tools) \in Nat
      BY <1>1, <1>4, <1>5
    <2> QED  BY ONLY <2>1
  <1>8. \A k \in 1..Len(c) : c[k].id = base + k
    BY ONLY <1>5, <1>7
  <1>9. Len(c) <= 2
    <2>1. PICK n \in 0..2 : n = Len(tools)
      BY <1>1
    <2>2. n <= 2
      BY ONLY n \in 0..2
    <2> QED  BY ONLY <1>7, <2>1, <2>2
  <1>10. \A k \in 1..Len(c) : c[k].id = 2 * Len(agMsgs) + k
    BY ONLY <1>3, <1>8
  <1> QED  BY ONLY <1>6, <1>7, <1>9, <1>10

LEMMA AttemptSucceedsHolds == ASSUME EngineAssumption, AgInv, NEW reply \in ModelReplies, AttemptSucceeds(reply)  PROVE AgInv'
  <1>1. AgTypes /\ AgBounds /\ AgTranscript /\ AgTold /\ AgBudget /\ phase = "attempt"
    BY DEF AgInv, AttemptSucceeds
  <1>2. agRun \in RunRecords /\ agMsgs \in Seq(AgMessages) /\ used \in Nat /\ agCount \in CountRecords
        /\ <<>> \in Seq(AgCalls) /\ <<>> \in Seq({Models[i] : i \in DOMAIN Models})
    BY <1>1 DEF AgTypes
  <1>3. PICK given : given = agCount.given
    OBVIOUS
  <1>4. InRun(agMsgs, <<>>, given) /\ Settled(agMsgs) /\ ~agRun.err /\ agRun.stop = "none"
        /\ (agStored.kind = "turn" => WholeTurn(agStored.msgs, agStored.stop))
    BY <1>1, <1>3 DEF AgTranscript
  <1>5. PICK asks : asks = Numbered(reply.tools)
    OBVIOUS
  <1>6. asks \in Seq(AgCalls) /\ Len(asks) <= 2 /\ \A k \in 1..Len(asks) : asks[k].id = 2 * Len(agMsgs) + k
    BY <1>2, <1>5, NumberedCalls DEF ModelReplies
  <1>7. PICK msg : msg = Msg("assistant", reply.text, asks, 0, {})
    OBVIOUS
  <1>8. msg \in AgMessages /\ msg.role = "assistant" /\ msg.calls = asks /\ msg.res = 0 /\ msg.media = {}
    <2>1. reply.text \in BOOLEAN
      BY DEF ModelReplies
    <2> QED  BY <1>6, <1>7, <2>1 DEF Msg, AgMessages
  <1>9. PICK r : r = IF messageSurvivesCompaction(msg) THEN Append(agMsgs, msg) ELSE agMsgs
    OBVIOUS
  <1>10. InRun(r, asks, given) /\ (asks = <<>> => Settled(r))
    <2>1. CASE messageSurvivesCompaction(msg)
      <3>1. Said(r, agMsgs, msg)
        BY <1>2, <1>8, <1>9, <2>1 DEF Said
      <3>2. Asks(agMsgs, msg)
        BY <1>6, <1>8, <2>1 DEF Asks, Made
      <3>3. InRun(r, asks, given)
        BY <1>4, <1>8, <3>1, <3>2, AssistantSays
      <3>4. r \in Seq(AgMessages) /\ Len(r) = Len(agMsgs) + 1 /\ r[Len(agMsgs) + 1] = msg
        BY ONLY <3>1, SaidIs
      <3> QED  BY <1>8, <3>3, <3>4 DEF Settled
    <2>2. CASE ~messageSurvivesCompaction(msg)
      <3>1. r = agMsgs /\ asks = <<>>
        BY <1>8, <1>9, <2>2 DEF messageSurvivesCompaction
      <3> QED  BY <1>4, <3>1
    <2> QED  BY <2>1, <2>2
  <1>11. UNCHANGED <<agStored, agReply, used, agCount>>
    BY DEF AttemptSucceeds
  <1>12. \/ agRun.final /\ (asks # <<>> \/ ~reply.text) /\ Stopped("budget", r \o Unexecuted(asks))
         \/ /\ ~agRun.final /\ asks = <<>> /\ ~reply.text /\ agRun.empty < maxEmpty
            /\ agRun' = EmptyRetry(agRun) /\ phase' = "turn" /\ UNCHANGED agMsgs
         \/ /\ asks = <<>> /\ agMsgs' = Canonicalize(r) /\ phase' = "persist"
            /\ \E incomplete \in {FALSE, agRun.final} : agRun' = [agRun EXCEPT !.refs = <<>>, !.err = incomplete]
         \/ /\ ~agRun.final /\ asks # <<>> /\ agMsgs' = r /\ phase' = "call"
            /\ agRun' = [agRun EXCEPT !.todo = asks, !.empty = 0, !.refs = <<>>]
    BY <1>5, <1>7, <1>9 DEF AttemptSucceeds
  <1>13. AgBudget' /\ agCount' \in CountRecords /\ agCount'.given = given
    BY <1>1, <1>2, <1>3, <1>11 DEF AgBudget
  <1>14. agRun.turn \in Nat /\ agRun.turn < maxTurns /\ maxTurns \in Nat /\ agRun.empty \in Nat /\ agRun.empty <= maxEmpty /\ maxEmpty \in Nat
    BY <1>1, <1>2 DEF RunRecords, AgBounds, EngineAssumption
  <1>15. Len(agRun.seen) <= historySize
    BY <1>1 DEF AgBounds
  <1>16. CASE agRun.final /\ (asks # <<>> \/ ~reply.text) /\ Stopped("budget", r \o Unexecuted(asks))
    <2>1. PICK s : s = r \o Unexecuted(asks)
      OBVIOUS
    <2>2. InRun(s, <<>>, given)
      BY ONLY <1>10, <2>1, UnexecutedAnswers
    <2>3. PICK q : q = Append(s, AssistantText)
      OBVIOUS
    <2>4. RunEnded(q, <<>>, given, "budget")
      BY ONLY <2>2, <2>3, SummaryEnds
    <2>5. RunEnded(q, <<>>, agCount'.given, "budget")
      BY <1>13, <2>4
    <2>6. /\ agRun' = [agRun EXCEPT !.stop = "budget", !.err = TRUE, !.todo = <<>>, !.refs = <<>>]
          /\ agMsgs' = Canonicalize(q) /\ phase' = "persist"
      BY <1>16, <2>1, <2>3 DEF Stopped
    <2>7. "budget" \in AgStops \ {"none"}
      BY DEF AgStops
    <2> QED  BY <1>1, <1>11, <1>13, <2>5, <2>6, <2>7, StopHolds
  <1>17. CASE /\ ~agRun.final /\ asks = <<>> /\ ~reply.text /\ agRun.empty < maxEmpty
              /\ agRun' = EmptyRetry(agRun) /\ phase' = "turn" /\ UNCHANGED agMsgs
    <2>1. PICK e \in Nat : e = agRun.empty + 1 /\ e <= maxEmpty
      BY <1>14, <1>17
    <2>2. PICK n \in Nat : n = agRun.turn + 1 /\ n <= maxTurns
      BY <1>14
    <2>3. PICK u : u = [agRun EXCEPT !.empty = e, !.turn = n]
      OBVIOUS
    <2>4. u \in RunRecords
      BY <1>2, <2>3 DEF RunRecords
    <2>5. u.mode = agRun.mode /\ u.turn = n /\ u.empty = e /\ u.seen = agRun.seen /\ u.stop = agRun.stop /\ u.err = agRun.err
      BY <1>2, <2>3 DEF RunRecords
    <2>6. agRun' = u
      BY <1>17, <2>1, <2>2, <2>3 DEF EmptyRetry
    <2>7. AgTypes'
      BY <1>1, <1>11, <1>17, <2>4, <2>6 DEF AgTypes
    <2>8. AgBounds'
      BY <1>15, <1>17, <2>1, <2>2, <2>5, <2>6 DEF AgBounds
    <2>9. AgTranscript'
      BY <1>4, <1>11, <1>13, <1>17, <2>5, <2>6 DEF AgTranscript
    <2>10. AgTold'
      BY <1>1, <1>11, <1>17, <2>5, <2>6 DEF AgTold
    <2> QED  BY <1>13, <2>7, <2>8, <2>9, <2>10 DEF AgInv
  <1>18. CASE /\ asks = <<>> /\ agMsgs' = Canonicalize(r) /\ phase' = "persist"
              /\ \E incomplete \in {FALSE, agRun.final} : agRun' = [agRun EXCEPT !.refs = <<>>, !.err = incomplete]
    <2>1. RunEnded(r, <<>>, given, "none")
      BY <1>10, <1>18 DEF RunEnded
    <2>2. Handed(Canonicalize(r), given, "none")
      BY ONLY <2>1, CanonicalizeHands
    <2>3. PICK incomplete \in {FALSE, agRun.final} : agRun' = [agRun EXCEPT !.refs = <<>>, !.err = incomplete]
      BY <1>18
    <2>4. incomplete \in BOOLEAN
      <3>1. agRun.final \in BOOLEAN
        BY <1>2 DEF RunRecords
      <3> QED  BY <3>1
    <2>5. PICK u : u = [agRun EXCEPT !.refs = <<>>, !.err = incomplete]
      OBVIOUS
    <2>6. u \in RunRecords
      BY <1>2, <2>4, <2>5 DEF RunRecords
    <2>7. u.mode = agRun.mode /\ u.turn = agRun.turn /\ u.empty = agRun.empty /\ u.seen = agRun.seen /\ u.stop = agRun.stop
      BY <1>2, <2>5 DEF RunRecords
    <2>8. agRun' = u
      BY <2>3, <2>5
    <2>9. agMsgs' \in Seq(AgMessages)
      BY <1>18, <2>2 DEF Handed
    <2>10. AgTypes'
      BY <1>1, <1>11, <1>18, <2>6, <2>8, <2>9 DEF AgTypes
    <2>11. AgBounds'
      BY <1>14, <1>15, <1>18, <2>7, <2>8 DEF AgBounds
    <2>12. AgTranscript'
      <3>1. Handed(agMsgs', agCount'.given, agRun'.stop) /\ agRun'.stop = "none"
        BY <1>4, <1>13, <1>18, <2>2, <2>7, <2>8
      <3> QED  BY <1>4, <1>11, <1>18, <3>1 DEF AgTranscript
    <2>13. AgTold'
      BY <1>1, <1>11, <1>18, <2>7, <2>8 DEF AgTold
    <2> QED  BY <1>13, <2>10, <2>11, <2>12, <2>13 DEF AgInv
  <1>19. CASE /\ ~agRun.final /\ asks # <<>> /\ agMsgs' = r /\ phase' = "call"
              /\ agRun' = [agRun EXCEPT !.todo = asks, !.empty = 0, !.refs = <<>>]
    <2>1. PICK u : u = [agRun EXCEPT !.todo = asks, !.empty = 0, !.refs = <<>>]
      OBVIOUS
    <2>2. u \in RunRecords
      BY <1>2, <1>6, <2>1 DEF RunRecords
    <2>3. /\ u.mode = agRun.mode /\ u.turn = agRun.turn /\ u.empty = 0 /\ u.seen = agRun.seen /\ u.stop = agRun.stop /\ u.todo = asks
          /\ u.err = agRun.err /\ u.final = agRun.final
      BY <1>2, <2>1 DEF RunRecords
    <2>4. agRun' = u
      BY <1>19, <2>1
    <2>5. agMsgs' \in Seq(AgMessages)
      BY <1>10, <1>19 DEF InRun
    <2>6. AgTypes'
      BY <1>1, <1>11, <1>19, <2>2, <2>4, <2>5 DEF AgTypes
    <2>7. AgBounds'
      BY <1>14, <1>15, <1>19, <2>3, <2>4 DEF AgBounds
    <2>8. AgTranscript'
      <3>1. phase' = "call" /\ InRun(agMsgs', agRun'.todo, agCount'.given)
        BY <1>10, <1>13, <1>19, <2>3, <2>4
      <3>2. ~agRun'.err /\ agRun'.stop = "none" /\ agStored' = agStored
        BY <1>4, <1>11, <2>3, <2>4
      <3> QED  BY ONLY <1>4, <3>1, <3>2 DEF AgTranscript
    <2>9. AgTold'
      BY <1>1, <1>11, <1>19, <2>3, <2>4 DEF AgTold
    <2> QED  BY <1>13, <2>6, <2>7, <2>8, <2>9 DEF AgInv
  <1> QED  BY ONLY <1>12, <1>16, <1>17, <1>18, <1>19

LEMMA JoinedIs ==
    ASSUME NEW T, NEW u \in Seq(T), NEW b \in T, Len(u) = 1, NEW t \in Seq(T), Len(t) = 2, t[1] = u[1], t[2] = b
    PROVE  Append(u, b) = t
  <1>1. PICK s : s = Append(u, b)
    OBVIOUS
  <1>2. s \in Seq(T) /\ Len(s) = 2 /\ s[1] = u[1] /\ s[2] = b
    <2>1. s \in Seq(T) /\ Len(s) = Len(u) + 1 /\ s[Len(u) + 1] = b /\ \A k \in 1..Len(u) : s[k] = u[k]
      BY <1>1
    <2>2. Len(u) + 1 = 2 /\ 1 \in 1..Len(u)
      OBVIOUS
    <2> QED  BY ONLY <2>1, <2>2
  <1>3. \A i \in 1..2 : s[i] = t[i]
    BY <1>2
  <1>4. s = t
    BY ONLY <1>2, <1>3, t \in Seq(T), Len(t) = 2
  <1> QED  BY <1>1, <1>4

LEMMA PairIs ==
    ASSUME NEW T, NEW a \in T, NEW b \in T
    PROVE  Append(<<a>>, b) = <<a, b>>
  <1>1. <<a>> \in Seq(T) /\ Len(<<a>>) = 1 /\ <<a>>[1] = a
    OBVIOUS
  <1>2. <<a, b>> \in Seq(T) /\ Len(<<a, b>>) = 2 /\ <<a, b>>[1] = a /\ <<a, b>>[2] = b
    OBVIOUS
  <1> QED  BY <1>1, <1>2, JoinedIs

LEMMA PersistHolds == ASSUME EngineAssumption, AgInv, NEW ok \in BOOLEAN, Persist(ok)  PROVE AgInv'
  <1>1. AgTypes /\ AgBounds /\ AgTranscript /\ AgTold /\ AgBudget /\ phase = "persist"
    BY DEF AgInv, Persist
  <1>2. agRun \in RunRecords /\ agMsgs \in Seq(AgMessages) /\ used \in Nat /\ agCount \in CountRecords
        /\ agReply \in ReplyRecords /\ agStored \in StoredRecords
    BY <1>1 DEF AgTypes
  <1>3. phase' = "idle" /\ agRun' = NoRun /\ agMsgs' = <<>> /\ used' = used /\ agMsgs' \in Seq(AgMessages)
    BY DEF Persist
  <1>4. /\ NoRun \in RunRecords /\ NoRun.mode = "none" /\ NoRun.turn = 0 /\ NoRun.empty = 0 /\ NoRun.seen = <<>>
        /\ ~NoRun.err /\ NoRun.stop = "none"
    BY Started DEF NoRun
  <1>5. agCount' \in CountRecords /\ agCount'.given = agCount.given /\ agCount'.asked = agCount.asked /\ agCount'.ranFinal = agCount.ranFinal
    <2>1. PICK f \in BOOLEAN : f = (agCount.subEnded \/ (agRun.mode = "sub" /\ (agRun.err \/ Remaining <= 0)))
      OBVIOUS
    <2>2. PICK d : d = [agCount EXCEPT !.subEnded = f]
      OBVIOUS
    <2>3. d \in CountRecords
      BY <1>2, <2>2 DEF CountRecords
    <2>4. d.given = agCount.given /\ d.asked = agCount.asked /\ d.ranFinal = agCount.ranFinal
      BY <1>2, <2>2 DEF CountRecords
    <2>5. agCount' = d
      BY <2>1, <2>2 DEF Persist
    <2> QED  BY <2>3, <2>4, <2>5
  <1>6. AgBudget'
    BY <1>1, <1>3, <1>5 DEF AgBudget
  <1>7. AgBounds'
    BY <1>3, <1>4 DEF AgBounds, EngineAssumption
  <1>8. agRun.mode \in {"reply", "sub"}
    BY <1>1, <1>2 DEF AgTold, RunRecords
  <1>9. Keeps => Handed(agMsgs, agCount.given, agRun.stop)
    BY <1>1 DEF AgTranscript, Keeps
  <1>10. /\ agStored.kind = "turn" => WholeTurn(agStored.msgs, agStored.stop)
         /\ agRun.stop # "none" => agRun.err
         /\ agReply.stop = "none"
    BY <1>1, <1>8 DEF AgTranscript, AgTold
  <1>11. agRun.stop \in AgStops
    BY <1>2 DEF RunRecords
  <1>12. SUFFICES ASSUME TRUE
         PROVE  /\ agReply' \in ReplyRecords /\ agStored' \in StoredRecords
                /\ agStored'.kind = "turn" => WholeTurn(agStored'.msgs, agStored'.stop)
                /\ agReply'.events \in {<<>>, <<"run_failed">>, <<"run_started", "run_failed">>, <<"run_started", "run_finished">>}
                /\ agReply'.events = <<"run_started", "run_finished">> =>
                     agReply'.media = agCount.given /\ agStored'.kind = "turn" /\ agStored'.stop = "none"
                /\ agReply'.stop # "none" /\ ~agReply'.refused => agStored'.kind = "turn"
    <2>1. AgTypes'
      BY <1>2, <1>3, <1>4, <1>5, <1>12 DEF AgTypes
    <2>2. AgTranscript'
      BY <1>3, <1>4, <1>12 DEF AgTranscript
    <2>3. AgTold'
      BY <1>3, <1>4, <1>5, <1>12 DEF AgTold
    <2> QED  BY <1>6, <1>7, <2>1, <2>2, <2>3 DEF AgInv
  <1>13. /\ <<"run_started", "run_failed">> \in Seq({"run_started", "run_failed", "run_finished"})
         /\ <<"run_started", "run_finished">> \in Seq({"run_started", "run_failed", "run_finished"})
    OBVIOUS
  <1>17. /\ Append(<<"run_started">>, "run_failed") = <<"run_started", "run_failed">>
         /\ Append(<<"run_started">>, "run_finished") = <<"run_started", "run_finished">>
    <2>1. PICK T : T = {"run_started", "run_failed", "run_finished"}
      OBVIOUS
    <2>2. "run_started" \in T /\ "run_failed" \in T /\ "run_finished" \in T
      BY <2>1
    <2> QED  BY ONLY <2>2, PairIs
  <1>14. CASE agRun.mode = "reply" /\ Keeps /\ ok
    <2>1. agReply.events = <<"run_started">>
      BY <1>1, <1>14 DEF AgTold
    <2>2. PICK e : e = Append(agReply.events, IF agRun.err THEN "run_failed" ELSE "run_finished")
      OBVIOUS
    <2>3. PICK x : x = IF agRun.err THEN {} ELSE selectAttachments(agMsgs)
      OBVIOUS
    <2>4. /\ agStored' = [kind |-> "turn", msgs |-> agMsgs, stop |-> agRun.stop]
          /\ agReply' = [events |-> e, media |-> x, stop |-> agRun.stop, refused |-> FALSE]
      BY <1>14, <2>2, <2>3 DEF Persist
    <2>5. (agRun.err => e = <<"run_started", "run_failed">>) /\ (~agRun.err => e = <<"run_started", "run_finished">>)
      BY ONLY <1>17, <2>1, <2>2
    <2>6. WholeTurn(agMsgs, agRun.stop) /\ selectAttachments(agMsgs) = agCount.given
      BY <1>9, <1>14 DEF Handed
    <2>7. x \subseteq Refs
      BY <1>2, <2>3, SelectsRefs
    <2>8. agReply' \in ReplyRecords
      <3>1. e \in Seq({"run_started", "run_failed", "run_finished"})
        BY <1>13, <2>5
      <3> QED  BY <1>11, <2>4, <2>7, <3>1 DEF ReplyRecords
    <2>9. agStored' \in StoredRecords
      BY <1>2, <1>11, <2>4 DEF StoredRecords
    <2>10. agStored'.kind = "turn" /\ WholeTurn(agStored'.msgs, agStored'.stop)
      BY <2>4, <2>6
    <2>11. agReply'.events = e /\ agReply'.media = x /\ agStored'.stop = agRun.stop
      BY <2>4
    <2>12. e = <<"run_started", "run_finished">> => ~agRun.err
      BY ONLY <2>5
    <2>13. ~agRun.err => x = agCount.given /\ agRun.stop = "none"
      BY <1>10, <2>3, <2>6
    <2>14. e \in {<<>>, <<"run_failed">>, <<"run_started", "run_failed">>, <<"run_started", "run_finished">>}
      BY <2>5
    <2> QED  BY ONLY <2>8, <2>9, <2>10, <2>11, <2>12, <2>13, <2>14
  <1>15. CASE agRun.mode = "reply" /\ ~(Keeps /\ ok)
    <2>1. agReply.events = <<"run_started">>
      BY <1>1, <1>15 DEF AgTold
    <2>2. PICK f \in BOOLEAN : f = Keeps
      BY DEF Keeps
    <2>3. PICK e : e = Append(agReply.events, "run_failed")
      OBVIOUS
    <2>4. PICK u : u = [agReply EXCEPT !.events = e, !.stop = agRun.stop, !.refused = f]
      OBVIOUS
    <2>5. agReply' = u /\ agStored' = agStored
      BY <1>15, <2>2, <2>3, <2>4 DEF Persist
    <2>6. e = <<"run_started", "run_failed">>
      BY ONLY <1>17, <2>1, <2>3
    <2>7. u \in ReplyRecords
      BY <1>2, <1>11, <1>13, <2>4, <2>6 DEF ReplyRecords
    <2>8. u.events = e /\ u.stop = agRun.stop /\ u.refused = f
      BY <1>2, <2>4 DEF ReplyRecords
    <2>9. agRun.stop # "none" => f
      BY <2>2 DEF Keeps
    <2>10. e # <<"run_started", "run_finished">>
      BY <2>6
    <2>11. u.stop # "none" => u.refused
      BY <2>8, <2>9
    <2> QED  BY <1>2, <1>10, <2>5, <2>6, <2>7, <2>8, <2>10, <2>11
  <1>16. CASE agRun.mode = "sub"
    <2>1. agReply.events = <<>>
      BY <1>1, <1>16 DEF AgTold
    <2>2. PICK x : x = selectAttachments(agMsgs)
      OBVIOUS
    <2>3. x \subseteq Refs
      BY <1>2, <2>2, SelectsRefs
    <2>4. PICK u : u = [agReply EXCEPT !.media = x]
      OBVIOUS
    <2>5. u \in ReplyRecords
      BY <1>2, <2>3, <2>4 DEF ReplyRecords
    <2>6. u.events = <<>> /\ u.stop = "none"
      BY <1>2, <1>10, <2>1, <2>4 DEF ReplyRecords
    <2>7. agReply' = u /\ agStored' = agStored
      BY <1>16, <2>2, <2>4 DEF Persist
    <2>8. agReply'.events = <<>> /\ agReply'.stop = "none" /\ agReply' \in ReplyRecords
      BY ONLY <2>5, <2>6, <2>7
    <2>9. agStored' \in StoredRecords /\ (agStored'.kind = "turn" => WholeTurn(agStored'.msgs, agStored'.stop))
      BY ONLY <1>2, <1>10, <2>7
    <2>10. agReply'.events # <<"run_started", "run_finished">>
      BY ONLY <2>8
    <2> QED  BY ONLY <2>8, <2>9, <2>10
  <1> QED  BY <1>8, <1>14, <1>15, <1>16

LEMMA AgentStepHolds == ASSUME EngineAssumption, AgInv, [AgentNext]_agVars  PROVE AgInv'
  <1>1. CASE \E outcome \in {"reserve", "prepare", "ok"} : Reply(outcome)
    BY <1>1, ReplyHolds
  <1>2. CASE SubagentRun
    BY <1>2, SubagentRunHolds
  <1>3. CASE CancelRun
    BY <1>3, CancelRunHolds
  <1>4. CASE TurnLimit
    BY <1>4, TurnLimitHolds
  <1>5. CASE \E n \in 0..Len(Models) : TurnStart(n)
    BY <1>5, TurnStartHolds
  <1>6. CASE AttemptFails
    BY <1>6, AttemptFailsHolds
  <1>7. CASE \E reply \in ModelReplies : AttemptSucceeds(reply)
    BY <1>7, AttemptSucceedsHolds
  <1>8. CASE ToolStarts
    BY <1>8, ToolStartsHolds
  <1>9. CASE \E media \in ToolOutcomes : ToolFinishes(media)
    BY <1>9, ToolFinishesHolds
  <1>10. CASE \E ok \in BOOLEAN : Persist(ok)
    BY <1>10, PersistHolds
  <1>11. CASE UNCHANGED agVars
    <2>1. UNCHANGED <<phase, agRun, agMsgs, agStored, agReply, used, agCount>>
      BY <1>11 DEF agVars
    <2>2. AgTypes' /\ AgBounds' /\ AgTranscript' /\ AgTold' /\ AgBudget'
      BY <2>1 DEF AgInv, AgTypes, AgBounds, AgTranscript, AgTold, AgBudget
    <2> QED  BY <2>2 DEF AgInv
  <1>12. AgentNext \/ UNCHANGED agVars
    BY Zenon
  <1>13. ASSUME AgentNext
         PROVE  \/ \E outcome \in {"reserve", "prepare", "ok"} : Reply(outcome)
                \/ SubagentRun \/ CancelRun \/ TurnLimit \/ (\E n \in 0..Len(Models) : TurnStart(n)) \/ AttemptFails
                \/ (\E reply \in ModelReplies : AttemptSucceeds(reply)) \/ ToolStarts
                \/ (\E media \in ToolOutcomes : ToolFinishes(media)) \/ \E ok \in BOOLEAN : Persist(ok)
    BY <1>13, Zenon DEF AgentNext, EngineStep
  <1> QED  BY <1>1, <1>2, <1>3, <1>4, <1>5, <1>6, <1>7, <1>8, <1>9, <1>10, <1>11, <1>12, <1>13, Zenon

\* What the invariant says of a run: the five parts of AgentSafe.
LEMMA AgentInvSays ==
    ASSUME EngineAssumption, AgInv
    PROVE  AgentTypeOK /\ StoredTurnsAreWhole /\ DeliversExactly /\ EndsAreTold /\ BudgetIsShared
  <1>1. AgTypes /\ AgBounds /\ AgTranscript /\ AgTold /\ AgBudget
    BY DEF AgInv
  <1>2. agRun \in RunRecords
    BY <1>1 DEF AgTypes
  <1>3. AgentTypeOK
    <2>1. agRun.turn \in 0..maxTurns /\ agRun.empty \in 0..maxEmpty
      BY <1>1, <1>2 DEF AgBounds, RunRecords, EngineAssumption
    <2> QED  BY <1>1, <2>1 DEF AgTypes, AgBounds, AgentTypeOK
  <1>4. StoredTurnsAreWhole
    BY <1>1 DEF AgTranscript, WholeTurn, StoredTurnsAreWhole
  <1>5. DeliversExactly
    <2>1. ASSUME phase = "idle", agReply.events # <<>>, Last(agReply.events) = "run_finished"  PROVE agReply.media = agCount.given
      <3>1. agReply.events \in {<<>>, <<"run_failed">>, <<"run_started", "run_failed">>, <<"run_started", "run_finished">>}
        BY <1>1, <2>1 DEF AgTold
      <3>2. agReply.events = <<"run_started", "run_finished">>
        BY <2>1, <3>1 DEF Last
      <3> QED  BY <1>1, <2>1, <3>2 DEF AgTold
    <2>2. ASSUME phase = "persist", ~agRun.err  PROVE selectAttachments(Canonicalize(agMsgs)) = agCount.given
      BY <1>1, <2>2 DEF AgTranscript, Handed
    <2> QED  BY <2>1, <2>2 DEF DeliversExactly
  <1>6. EndsAreTold
    <2> SUFFICES ASSUME agReply.events # <<>>, phase = "idle"
                 PROVE  /\ {k \in 1..Len(agReply.events) : agReply.events[k] # "run_started"} = {Len(agReply.events)}
                        /\ Last(agReply.events) = "run_finished" => agStored.kind = "turn" /\ agStored.stop = "none"
                        /\ agReply.stop # "none" /\ ~agReply.refused => agStored.kind = "turn"
      BY DEF EndsAreTold
    <2>1. /\ agReply.events \in {<<>>, <<"run_failed">>, <<"run_started", "run_failed">>, <<"run_started", "run_finished">>}
          /\ agReply.events = <<"run_started", "run_finished">> => agStored.kind = "turn" /\ agStored.stop = "none"
          /\ agReply.stop # "none" /\ ~agReply.refused => agStored.kind = "turn"
      BY <1>1 DEF AgTold
    <2>2. CASE agReply.events = <<"run_failed">>
      BY <2>1, <2>2 DEF Last
    <2>3. CASE agReply.events = <<"run_started", "run_failed">>
      BY <2>1, <2>3 DEF Last
    <2>4. CASE agReply.events = <<"run_started", "run_finished">>
      BY <2>1, <2>4 DEF Last
    <2> QED  BY <2>1, <2>2, <2>3, <2>4
  <1>7. BudgetIsShared
    BY <1>1 DEF AgBudget, BudgetIsShared
  <1> QED  BY <1>3, <1>4, <1>5, <1>6, <1>7

-----------------------------------------------------------------------------
(* The theorems *)

LEMMA ToolsAgentStep == [ToolsNext]_toolsVars => [AgentNext]_agVars
  <1>1. CASE OnlyAgent /\ AgentNext
    BY <1>1
  <1>2. CASE UNCHANGED agVars
    BY <1>2
  <1>3. UNCHANGED toolsVars => UNCHANGED agVars
    BY DEF toolsVars
  <1> QED  BY <1>1, <1>2, <1>3 DEF ToolsNext, OnlyExec, OnlyPatch, OnlyStart, OnlyCommit, OnlySub

\* The bookkeeping of a run: its transcript, its open calls, what its tools attached, what it has told and the turns
\* it has used go together at every step (Loop.Reply, Engine.Run, TurnBudget, turnreply).
THEOREM AgentInvariant == ToolsSpec => []AgInv
  <1>1. ToolsInit => AgInv
    BY EngineAssumption, AgentInitHolds DEF ToolsInit
  <1>2. AgInv /\ [ToolsNext]_toolsVars => AgInv'
    BY EngineAssumption, ToolsAgentStep, AgentStepHolds
  <1> QED  BY <1>1, <1>2, PTL DEF ToolsSpec

\* The agent loop keeps its promises: the stored turn is whole, media goes out exactly as deliver tools attached it,
\* a run is told ended once and says when it was cut short, and the runs of one session share its turn budget.
THEOREM AgentSafeCorrect == ToolsSpec => []AgentSafe
  <1>1. AgInv => AgentSafe
    BY EngineAssumption, AgentInvSays DEF AgentSafe
  <1> QED  BY <1>1, AgentInvariant, PTL
=============================================================================
