------------------------ MODULE SessionEventLogProofs ------------------------
(***************************************************************************)
(* Proofs about SessionEventLog for every number of watchers, every        *)
(* retention, buffer and event size: the window is sound, and a watcher's  *)
(* stream has no hole it was not told about, no repeat and no false notice.*)
(***************************************************************************)
EXTENDS SessionEventLog, SequenceTheorems, WellFoundedInduction, TLAPS

FrameSet == [index : Nat, notice : BOOLEAN]
EventSet == [index : Nat, size : Nat]

\* A chain of frames continues a cursor without a hole or a repeat; only its
\* first frame may jump, and then it is a notice.
Chain(c, p) ==
    \A i \in 1..Len(p) :
        IF p[i].notice THEN i = 1 /\ p[1].index > c
                       ELSE p[i].index = (IF i = 1 THEN c ELSE p[i - 1].index) + 1

LastIndex(c, p) == IF p = <<>> THEN c ELSE p[Len(p)].index

\* The types the other parts need.
LogTypes ==
    /\ nextIndex \in Nat
    /\ events \in Seq(EventSet)
    /\ subscribers \subseteq watching /\ watching \subseteq Watchers
    /\ replay \in [Watchers -> Seq(FrameSet)]
    /\ channel \in [Watchers -> Seq(FrameSet)]
    /\ cursor \in [Watchers -> Nat]
    /\ seen \in [Watchers -> SUBSET Nat]
    /\ excused \in [Watchers -> SUBSET Nat]

\* Channels carry events only; a notice is the first frame of a replay and
\* points below the window.
NoticesLead ==
    \A w \in Watchers :
        /\ \A i \in 1..Len(channel[w]) : ~channel[w][i].notice
        /\ \A i \in 1..Len(replay[w]) :
              replay[w][i].notice =>
                 /\ i = 1
                 /\ cursor[w] < replay[w][i].index
                 /\ replay[w][i].index < events[1].index

\* A stream that was dropped holds a chain too, and none reaches past the log.
Streams ==
    \A w \in watching :
        /\ Chain(cursor[w], Pending(w))
        /\ \A i \in 1..Len(Pending(w)) : Pending(w)[i].index <= nextIndex - 1
        /\ w \in subscribers => LastIndex(cursor[w], Pending(w)) = nextIndex - 1

\* What clients were told never reaches past their cursor, nor that past the log.
Cursors ==
    \A w \in Watchers :
        /\ cursor[w] <= nextIndex - 1
        /\ seen[w] \subseteq 1..cursor[w]
        /\ excused[w] \subseteq 1..cursor[w]
        /\ seen[w] \cap excused[w] = {}
        /\ 1..cursor[w] \subseteq seen[w] \cup excused[w]

Window ==
    /\ Len(events) >= 1
    /\ \A i \in 1..Len(events) : events[i].index = nextIndex - 1 - Len(events) + i
    /\ events[1].index >= 1
    /\ Len(events) <= Retention
    /\ Len(events) > 1 => retainedBytes <= RetentionBytes

LogInv == LogTypes /\ Window /\ NoticesLead /\ Streams /\ Cursors

-----------------------------------------------------------------------------
(* Chains. *)

\* An event with the next index extends a chain.
LEMMA ChainAppend ==
  ASSUME NEW c \in Nat, NEW p \in Seq(FrameSet), NEW e \in FrameSet,
         Chain(c, p), ~e.notice, e.index = LastIndex(c, p) + 1
  PROVE  /\ Chain(c, Append(p, e))
         /\ LastIndex(c, Append(p, e)) = e.index
<1> DEFINE q == Append(p, e)
<1>1. /\ q \in Seq(FrameSet) /\ Len(q) = Len(p) + 1 /\ q # <<>>
      /\ \A i \in 1..Len(p) : q[i] = p[i]
      /\ q[Len(p) + 1] = e
  BY AppendProperties
<1>2. ASSUME NEW i \in 1..Len(q)
      PROVE  IF q[i].notice THEN i = 1 /\ q[1].index > c
             ELSE q[i].index = (IF i = 1 THEN c ELSE q[i - 1].index) + 1
  <2>1. CASE i = Len(p) + 1
    <3>1. LastIndex(c, p) = IF i = 1 THEN c ELSE p[i - 1].index
      BY <2>1 DEF LastIndex
    <3> QED BY <3>1, <2>1, <1>1
  <2>2. CASE i \in 1..Len(p)
    BY <2>2, <1>1 DEF Chain
  <2> QED BY <2>1, <2>2, <1>1
<1> QED BY <1>1, <1>2 DEF Chain, LastIndex

\* The first frame of a chain moves the cursor, and the rest continues it.
LEMMA ChainTail ==
  ASSUME NEW c \in Nat, NEW p \in Seq(FrameSet), p # <<>>, Chain(c, p)
  PROVE  /\ Head(p).index > c
         /\ ~Head(p).notice => Head(p).index = c + 1
         /\ Chain(Head(p).index, Tail(p))
         /\ LastIndex(Head(p).index, Tail(p)) = LastIndex(c, p)
<1> DEFINE q == Tail(p)
           h == Head(p).index
<1>1. /\ Len(p) >= 1 /\ Head(p) = p[1] /\ p[1] \in FrameSet /\ Len(p) \in Nat
      /\ q \in Seq(FrameSet) /\ Len(q) = Len(p) - 1
      /\ \A i \in 1..Len(q) : q[i] = p[i + 1]
  OBVIOUS
<1>2. /\ h > c
      /\ ~Head(p).notice => h = c + 1
  BY <1>1 DEF Chain, FrameSet
<1>3. ASSUME NEW i \in 1..Len(q)
      PROVE  IF q[i].notice THEN i = 1 /\ q[1].index > h
             ELSE q[i].index = (IF i = 1 THEN h ELSE q[i - 1].index) + 1
  <2>1. i + 1 \in 1..Len(p) /\ i + 1 # 1 /\ q[i] = p[i + 1]
    BY <1>1
  <2>2. ~p[i + 1].notice /\ p[i + 1].index = p[(i + 1) - 1].index + 1
    BY <2>1 DEF Chain
  <2>3. (i + 1) - 1 = i /\ (i # 1 => i - 1 \in 1..Len(q) /\ q[i - 1] = p[i])
    BY <1>1
  <2> QED BY <2>1, <2>2, <2>3, <1>1
<1>4. LastIndex(h, q) = LastIndex(c, p)
  <2>1. CASE Len(q) = 0
    <3>1. q = <<>> /\ Len(p) = 1
      BY <2>1, <1>1
    <3>2. LastIndex(h, q) = h
      BY <3>1 DEF LastIndex
    <3>3. p[Len(p)].index = h
      BY <3>1, <1>1
    <3>4. LastIndex(c, p) = h
      BY <3>3 DEF LastIndex
    <3> QED BY <3>2, <3>4
  <2>2. CASE Len(q) # 0
    <3>0. q # <<>>
      <4>1. Len(<<>>) = 0
        OBVIOUS
      <4> HIDE DEF q
      <4> QED BY <4>1, <2>2, Zenon
    <3>1. Len(q) \in 1..Len(q) /\ Len(q) + 1 = Len(p)
      <4>1. Len(q) \in Nat /\ Len(q) = Len(p) - 1 /\ Len(p) \in Nat
        BY <1>1
      <4> QED BY <4>1, <2>2
    <3>2. q[Len(q)] = p[Len(p)]
      BY <3>1, <1>1
    <3> QED BY <3>0, <3>2 DEF LastIndex
  <2> QED BY <2>1, <2>2
<1> QED BY <1>2, <1>3, <1>4 DEF Chain
-----------------------------------------------------------------------------
(* Eviction and replay. *)

\* A nonempty set of naturals has a least element.
LEMMA NatMin ==
  ASSUME NEW T, T \subseteq Nat, T # {}
  PROVE  \E x \in T : \A y \in T : x <= y
<1> DEFINE R == {ss \in Nat \X Nat : ss[1] < ss[2]}
<1>1. IsWellFoundedOn(R, Nat)
  BY NatLessThanWellFounded DEF OpToRel
<1> HIDE DEF R
<1>2. PICK x \in T : \A y \in T : ~(<<y, x>> \in R)
  BY <1>1, WFMin
<1>3. \A y \in T : x <= y
  <2> TAKE y \in T
  <2>1. y \in Nat /\ x \in Nat
    OBVIOUS
  <2>2. ~(y < x)
    <3>1. <<y, x>> \in Nat \X Nat /\ <<y, x>>[1] = y /\ <<y, x>>[2] = x
      BY <2>1
    <3>2. y < x => <<y, x>> \in R
      BY <3>1 DEF R
    <3> QED BY <3>2, <1>2
  <2> QED BY <2>1, <2>2
<1> QED BY <1>3

\* The eviction loop stops before the newest event and within both limits.
LEMMA DropStops ==
  ASSUME NEW s \in Seq(EventSet), Len(s) >= 1, NEW total
  PROVE  /\ Drop(s, total) \in 0..(Len(s) - 1)
         /\ \/ Drop(s, total) = Len(s) - 1
            \/ /\ Len(s) - Drop(s, total) <= Retention
               /\ total - Bytes(SubSeq(s, 1, Drop(s, total))) <= RetentionBytes
<1> DEFINE Fits(n) == \/ n = Len(s) - 1
                      \/ /\ Len(s) - n <= Retention
                         /\ total - Bytes(SubSeq(s, 1, n)) <= RetentionBytes
           T == {n \in 0..(Len(s) - 1) : Fits(n)}
<1>1. Drop(s, total) = CHOOSE d \in 0..(Len(s) - 1) :
                          Fits(d) /\ \A e \in 0..(d - 1) : ~Fits(e)
  BY DEF Drop
<1>2. PICK x \in T : \A y \in T : x <= y
  <2>1. Len(s) - 1 \in T
    OBVIOUS
  <2>2. T \subseteq Nat
    OBVIOUS
  <2> QED BY <2>1, <2>2, NatMin
<1> HIDE DEF Fits
<1>3. x \in 0..(Len(s) - 1) /\ Fits(x) /\ \A e \in 0..(x - 1) : ~Fits(e)
  BY <1>2
<1>4. Drop(s, total) \in 0..(Len(s) - 1) /\ Fits(Drop(s, total))
  BY <1>1, <1>3
<1> QED BY <1>4 DEF Fits

\* The fields of a frame and of a notice.
LEMMA FrameFields ==
  \A i : /\ Frame(i).index = i /\ ~Frame(i).notice
         /\ Notice(i).index = i /\ Notice(i).notice
  BY DEF Frame, Notice

\* Frames and notices are frames of the stream's type.
LEMMA FrameTypes ==
  \A i \in Nat : Frame(i) \in FrameSet /\ Notice(i) \in FrameSet
  BY DEF Frame, Notice, FrameSet

\* Every frame of a stream has a natural index.
LEMMA FrameIndex ==
  ASSUME NEW p \in Seq(FrameSet)
  PROVE  \A i \in 1..Len(p) : p[i].index \in Nat
<1> TAKE i \in 1..Len(p)
<1>1. p[i] \in FrameSet
  OBVIOUS
<1> QED BY <1>1 DEF FrameSet

\* The window, counted from its oldest index.
LEMMA WindowFromOldest ==
  ASSUME LogTypes, Window
  PROVE  /\ Len(events) \in Nat /\ Len(events) >= 1
         /\ events[1].index \in Nat /\ events[1].index >= 1
         /\ events[1].index = nextIndex - Len(events)
         /\ \A i \in 1..Len(events) : events[i].index = events[1].index - 1 + i
<1>1. Len(events) \in Nat /\ Len(events) >= 1 /\ nextIndex \in Nat
  BY DEF LogTypes, Window
<1>2. 1 \in 1..Len(events)
  BY <1>1
<1>3. events[1] \in EventSet
  BY <1>2, ElementOfSeq DEF LogTypes
<1>4. events[1].index = nextIndex - 1 - Len(events) + 1
  BY <1>2 DEF Window
<1>5. \A i \in 1..Len(events) : events[i].index = nextIndex - 1 - Len(events) + i
  BY DEF Window
<1>6. events[1].index \in Nat /\ events[1].index >= 1
  BY <1>3 DEF EventSet, Window
<1> QED BY <1>1, <1>4, <1>5, <1>6

\* The frames of the m events that follow index a.
Successors(a, m) == [i \in 1..m |-> Frame(a + i)]

\* Successors is a sequence of m event frames.
LEMMA SuccessorsSeq ==
  ASSUME NEW a \in Nat, NEW m \in Nat
  PROVE  /\ Successors(a, m) \in Seq(FrameSet)
         /\ Len(Successors(a, m)) = m
         /\ \A i \in 1..m : /\ ~Successors(a, m)[i].notice
                            /\ Successors(a, m)[i].index = a + i
<1> DEFINE f == Successors(a, m)
<1>1. \A i \in 1..m : Frame(a + i) \in FrameSet
  BY FrameTypes
<1>2. f \in [1..m -> FrameSet]
  BY <1>1 DEF Successors
<1>3. f \in Seq(FrameSet) /\ Len(f) = m
  BY <1>2
<1>4. \A i \in 1..m : f[i] = Frame(a + i)
  BY DEF Successors
<1> QED BY <1>3, <1>4, FrameFields

\* Successors continues a cursor at a, up to a + m.
LEMMA SuccessorsChain ==
  ASSUME NEW a \in Nat, NEW m \in Nat
  PROVE  /\ Chain(a, Successors(a, m))
         /\ LastIndex(a, Successors(a, m)) = a + m
<1> DEFINE f == Successors(a, m)
<1>1. /\ f \in Seq(FrameSet) /\ Len(f) = m
      /\ \A i \in 1..m : ~f[i].notice /\ f[i].index = a + i
  BY SuccessorsSeq
<1> HIDE DEF f
<1>2. Chain(a, f)
  BY <1>1 DEF Chain
<1>3. CASE m = 0
  BY <1>1, <1>2, <1>3 DEF LastIndex, f
<1>4. CASE m # 0
  <2>1. f # <<>> /\ m \in 1..m
    BY <1>1, <1>4
  <2>2. LastIndex(a, f) = a + m
    BY <2>1, <1>1 DEF LastIndex
  <2> QED BY <2>2, <1>2 DEF f
<1> QED BY <1>3, <1>4

\* The elements of a concatenation.
LEMMA ConcatFrames ==
  ASSUME NEW g \in Seq(FrameSet), NEW f \in Seq(FrameSet), NEW r, r = g \o f
  PROVE  /\ r \in Seq(FrameSet)
         /\ Len(r) = Len(g) + Len(f)
         /\ \A j \in 1..Len(g) : r[j] = g[j]
         /\ \A j \in (Len(g) + 1)..(Len(g) + Len(f)) : r[j] = f[j - Len(g)]
  OBVIOUS

\* Appending to the live part of a stream appends to what it holds.
LEMMA ConcatAppend ==
  ASSUME NEW g \in Seq(FrameSet), NEW f \in Seq(FrameSet), NEW e \in FrameSet
  PROVE  g \o Append(f, e) = Append(g \o f, e)
  OBVIOUS

\* Sending the first frame of the replay sends the first frame held.
LEMMA ConcatTail ==
  ASSUME NEW g \in Seq(FrameSet), NEW f \in Seq(FrameSet), g # <<>>
  PROVE  /\ g \o f # <<>>
         /\ Head(g \o f) = Head(g)
         /\ Tail(g \o f) = Tail(g) \o f
  OBVIOUS

\* What Replay sends: the events after the cursor, or all of them after a notice.
LEMMA ReplayIs ==
  ASSUME LogTypes, Window, NEW c \in Nat, c <= nextIndex - 1
  PROVE  IF c < events[1].index - 1
         THEN Replay(c) = <<Notice(events[1].index - 1)>>
                            \o Successors(events[1].index - 1, Len(events))
         ELSE Replay(c) = <<>> \o Successors(c, nextIndex - 1 - c)
<1> DEFINE n == Len(events)
           o == events[1].index
           P(k) == \A i \in 1..n : events[i].index > c <=> i > k
           known == CHOOSE k \in 0..n : P(k)
           f == [i \in 1..(n - known) |-> Frame(events[known + i].index)]
<1>1. /\ n \in Nat /\ n >= 1 /\ o \in Nat /\ o >= 1 /\ o = nextIndex - n
      /\ \A i \in 1..n : events[i].index = o - 1 + i
      /\ nextIndex \in Nat
  BY WindowFromOldest DEF LogTypes
<1>2. Replay(c) = ResyncNotice(c) \o f
  BY DEF Replay
<1>3. ResyncNotice(c) = IF c < o - 1 THEN <<Notice(o - 1)>> ELSE <<>>
  <2>1. events # <<>>
    BY <1>1
  <2> QED BY <2>1 DEF ResyncNotice
<1>4. known \in 0..n /\ P(known)
  <2> DEFINE k0 == IF c < o THEN 0 ELSE c - o + 1
  <2> HIDE DEF n, o
  <2>1. k0 \in 0..n /\ P(k0)
    BY <1>1
  <2> HIDE DEF k0, P
  <2> QED BY <2>1
<1> HIDE DEF n, o, known
<1>5. /\ c < o => known = 0
      /\ c >= o => known = c - o + 1
  <2>1. \A i \in 1..n : o - 1 + i > c <=> i > known
    BY <1>1, <1>4
  <2> HIDE DEF P
  <2>2. CASE c < o
    <3>1. 1 \in 1..n /\ o - 1 + 1 > c
      BY <2>2, <1>1
    <3>2. 1 > known
      BY <3>1, <2>1
    <3> QED BY <3>2, <2>2, <1>1, <1>4
  <2>3. CASE c >= o
    <3> DEFINE k0 == c - o + 1
    <3>1. k0 \in 1..n
      BY <2>3, <1>1
    <3>2. ~(k0 > known)
      BY <3>1, <2>1, <1>1
    <3>3. k0 < n => k0 + 1 > known
      BY <3>1, <2>1, <1>1
    <3> QED BY <3>1, <3>2, <3>3, <1>4, <2>3, <1>1
  <2> QED BY <2>2, <2>3, <1>1
<1>6. \A i \in 1..(n - known) : events[known + i].index = o - 1 + known + i
  <2> TAKE i \in 1..(n - known)
  <2>1. known + i \in 1..n
    BY <1>1, <1>4
  <2>2. events[known + i].index = o - 1 + (known + i)
    BY <2>1, <1>1
  <2> QED BY <2>2, <1>1, <1>4
<1> HIDE DEF P
<1>7. CASE c < o - 1
  <2>1. known = 0 /\ n - known = n
    BY <1>7, <1>5, <1>1
  <2>2. \A i \in 1..n : events[known + i].index = o - 1 + i
    BY <2>1, <1>6, <1>1
  <2>3. f = Successors(o - 1, n)
    BY <2>1, <2>2 DEF Successors
  <2> QED BY <1>2, <1>3, <1>7, <2>3 DEF n, o
<1>8. CASE ~(c < o - 1)
  <2>1. /\ n - known = nextIndex - 1 - c
        /\ \A i \in 1..(n - known) : o - 1 + known + i = c + i
    BY <1>8, <1>1, <1>4, <1>5
  <2>2. f = Successors(c, nextIndex - 1 - c)
    BY <2>1, <1>6 DEF Successors
  <2> QED BY <1>2, <1>3, <1>8, <2>2 DEF o
<1> QED BY <1>7, <1>8 DEF o

\* A replay continues the cursor it was asked for and ends at the newest event.
LEMMA ReplayContinues ==
  ASSUME LogTypes, Window, NEW c \in Nat, c <= nextIndex - 1
  PROVE  /\ Replay(c) \in Seq(FrameSet)
         /\ Chain(c, Replay(c))
         /\ LastIndex(c, Replay(c)) = nextIndex - 1
         /\ \A i \in 1..Len(Replay(c)) : Replay(c)[i].index <= nextIndex - 1
         /\ \A i \in 1..Len(Replay(c)) :
               Replay(c)[i].notice =>
                  i = 1 /\ c < Replay(c)[i].index /\ Replay(c)[i].index < events[1].index
<1>1. /\ Len(events) \in Nat /\ nextIndex \in Nat
      /\ events[1].index \in Nat /\ events[1].index >= 1
      /\ events[1].index = nextIndex - Len(events)
  BY WindowFromOldest DEF LogTypes
<1>2. CASE c < events[1].index - 1
  <2> DEFINE a == events[1].index - 1
  <2>1. a \in Nat /\ c < a /\ a + Len(events) = nextIndex - 1 /\ a < events[1].index
    BY <1>1, <1>2
  <2>2. Replay(c) = <<Notice(a)>> \o Successors(a, Len(events))
    BY <1>2, ReplayIs
  <2> HIDE DEF a
  <2>3. PICK g : g = <<Notice(a)>>
    OBVIOUS
  <2>4. g \in Seq(FrameSet) /\ Len(g) = 1 /\ g[1].notice /\ g[1].index = a
    BY <2>1, <2>3, FrameTypes, FrameFields
  <2>5. PICK f : f = Successors(a, Len(events))
    OBVIOUS
  <2>6. /\ f \in Seq(FrameSet) /\ Len(f) = Len(events)
        /\ \A i \in 1..Len(events) : ~f[i].notice /\ f[i].index = a + i
    BY <2>1, <2>5, <1>1, SuccessorsSeq
  <2>7. PICK r : r = Replay(c)
    OBVIOUS
  <2>8. r = g \o f
    BY <2>2, <2>3, <2>5, <2>7
  <2>9. /\ r \in Seq(FrameSet) /\ Len(r) = Len(g) + Len(f)
        /\ \A j \in 1..Len(g) : r[j] = g[j]
        /\ \A j \in (Len(g) + 1)..(Len(g) + Len(f)) : r[j] = f[j - Len(g)]
    <3>1. g \in Seq(FrameSet) /\ f \in Seq(FrameSet)
      BY <2>4, <2>6
    <3> QED BY <3>1, <2>8, ConcatFrames
  <2>10. /\ r \in Seq(FrameSet) /\ Len(r) = Len(events) + 1 /\ r[1] = g[1]
         /\ \A j \in 2..(Len(events) + 1) : j - 1 \in 1..Len(events) /\ r[j] = f[j - 1]
    <3>1. Len(g) = 1 /\ Len(f) = Len(events)
      BY <2>4, <2>6
    <3>2. \A j \in 2..(Len(events) + 1) : r[j] = f[j - 1]
      BY <3>1, <2>9, <1>1
    <3> QED BY <3>1, <3>2, <2>9, <1>1
  <2>11. \A j \in 2..(Len(events) + 1) : ~r[j].notice /\ r[j].index = a + (j - 1)
    BY <2>6, <2>10
  <2>12. r[1].notice /\ r[1].index = a
    BY <2>4, <2>10
  <2>13. /\ Chain(c, r)
         /\ LastIndex(c, r) = a + Len(events)
         /\ \A i \in 1..Len(r) : r[i].notice => i = 1 /\ r[i].index = a
    <3>a. PICK m \in Nat : m = Len(events)
      BY <1>1
    <3>b. /\ c < a /\ a \in Nat
          /\ r \in Seq(FrameSet) /\ Len(r) = m + 1 /\ r[1].notice /\ r[1].index = a
          /\ \A j \in 2..(m + 1) : ~r[j].notice /\ r[j].index = a + (j - 1)
      BY <3>a, <2>1, <2>10, <2>11, <2>12
    <3> USE <3>b
    <3>1. ASSUME NEW i \in 2..(m + 1)
          PROVE  ~r[i].notice /\ r[i].index = r[i - 1].index + 1
      <4>1. ~r[i].notice /\ r[i].index = a + (i - 1)
        OBVIOUS
      <4>2. r[i - 1].index = a + (i - 2)
        <5>1. CASE i = 2
          BY <5>1
        <5>2. CASE i # 2
          <6>1. i - 1 \in 2..(m + 1)
            BY <5>2
          <6> QED BY <6>1
        <5> QED BY <5>1, <5>2
      <4> QED BY <4>1, <4>2
    <3>2. \A i \in 1..Len(r) : i = 1 \/ i \in 2..(m + 1)
      OBVIOUS
    <3>3. Chain(c, r)
      <4> SUFFICES ASSUME NEW i \in 1..Len(r)
                   PROVE  IF r[i].notice THEN i = 1 /\ r[1].index > c
                          ELSE r[i].index = (IF i = 1 THEN c ELSE r[i - 1].index) + 1
        BY DEF Chain
      <4>1. CASE i = 1
        BY <4>1
      <4>2. CASE i \in 2..(m + 1)
        <5>1. i # 1 /\ ~r[i].notice /\ r[i].index = r[i - 1].index + 1
          BY <4>2, <3>1
        <5> QED BY <5>1
      <4> QED BY <4>1, <4>2, <3>2
    <3>4. LastIndex(c, r) = a + m
      <4>1. LastIndex(c, r) = r[m + 1].index
        BY DEF LastIndex
      <4>2. CASE m = 0
        BY <4>1, <4>2
      <4>3. CASE m # 0
        <5>1. m + 1 \in 2..(m + 1)
          BY <4>3
        <5> QED BY <4>1, <5>1
      <4> QED BY <4>2, <4>3
    <3> QED BY <3>a, <3>1, <3>2, <3>3, <3>4
  <2>14. \A i \in 1..Len(r) : r[i].index <= nextIndex - 1
    <3> TAKE i \in 1..Len(r)
    <3>1. CASE i = 1
      BY <3>1, <2>1, <2>12, <1>1
    <3>2. CASE i # 1
      <4>1. i \in 2..(Len(events) + 1)
        BY <3>2, <2>10, <1>1
      <4> QED BY <4>1, <2>1, <2>11, <1>1
    <3> QED BY <3>1, <3>2
  <2> QED BY <2>1, <2>7, <2>10, <2>13, <2>14
<1>3. CASE ~(c < events[1].index - 1)
  <2> DEFINE m == nextIndex - 1 - c
  <2>1. m \in Nat /\ c + m = nextIndex - 1
    BY <1>1
  <2>2. Replay(c) = <<>> \o Successors(c, m)
    BY <1>3, ReplayIs
  <2> HIDE DEF m
  <2>3. Replay(c) = Successors(c, m)
    BY <2>1, <2>2, SuccessorsSeq
  <2> DEFINE r == Successors(c, m)
  <2>4. /\ r \in Seq(FrameSet) /\ Len(r) = m
        /\ \A i \in 1..m : ~r[i].notice /\ r[i].index = c + i
    BY <2>1, SuccessorsSeq
  <2>5. Chain(c, r) /\ LastIndex(c, r) = c + m
    BY <2>1, SuccessorsChain
  <2>6. Replay(c) = r
    BY <2>3
  <2> HIDE DEF r
  <2>7. \A i \in 1..Len(r) : r[i].index <= nextIndex - 1
    BY <2>1, <2>4, <1>1
  <2> QED BY <2>1, <2>4, <2>5, <2>6, <2>7
<1> QED BY <1>2, <1>3
-----------------------------------------------------------------------------
(* Every step preserves the invariant. *)

\* A fresh session: one event retained, no stream.
LEMMA InitSound == LogInit => LogInv
<1> SUFFICES ASSUME LogInit PROVE LogInv
  OBVIOUS
<1>1. PICK z \in Sizes : events = <<[index |-> 1, size |-> z]>>
  BY DEF LogInit
<1>2. z \in Nat /\ Retention \in Nat /\ Retention >= 1
  BY LogAssumption
<1>3. /\ events \in Seq(EventSet) /\ Len(events) = 1 /\ events[1].index = 1
  BY <1>1, <1>2 DEF EventSet
<1>4. LogTypes
  BY <1>3 DEF LogInit, LogTypes
<1>5. Window
  BY <1>2, <1>3 DEF LogInit, Window
<1>6. NoticesLead
  BY DEF LogInit, NoticesLead
<1>7. Streams
  BY DEF LogInit, Streams
<1>8. Cursors
  BY DEF LogInit, Cursors
<1> QED BY <1>4, <1>5, <1>6, <1>7, <1>8 DEF LogInv

\* The window after an append.
LEMMA AppendWindow ==
  ASSUME LogTypes, Window, NEW z \in Sizes, AppendEvent(z)
  PROVE  /\ events' \in Seq(EventSet)
         /\ Window'
         /\ events'[1].index >= events[1].index
         /\ nextIndex' = nextIndex + 1
<1> DEFINE grown == Append(events, [index |-> nextIndex, size |-> z])
           total == retainedBytes + z
           d == Drop(grown, total)
           n == Len(events)
<1>1. /\ n \in Nat /\ n >= 1 /\ nextIndex \in Nat /\ events \in Seq(EventSet)
      /\ \A i \in 1..n : events[i].index = nextIndex - 1 - n + i
      /\ events[1].index \in Nat /\ events[1].index >= 1
      /\ events[1].index = nextIndex - n
  BY WindowFromOldest DEF LogTypes, Window
<1>2. Retention \in Nat /\ Retention >= 1 /\ z \in Nat
  BY LogAssumption
<1>3. [index |-> nextIndex, size |-> z] \in EventSet
  BY <1>1, <1>2 DEF EventSet
<1>4. /\ grown \in Seq(EventSet) /\ Len(grown) = n + 1
      /\ \A i \in 1..n : grown[i] = events[i]
      /\ grown[n + 1].index = nextIndex
  BY <1>1, <1>3
<1>5. /\ nextIndex' = nextIndex + 1
      /\ events' = SubSeq(grown, d + 1, Len(grown))
      /\ retainedBytes' = total - Bytes(SubSeq(grown, 1, d))
  BY DEF AppendEvent
<1> HIDE DEF grown, total, n
<1>6. /\ d \in 0..(Len(grown) - 1)
      /\ \/ d = Len(grown) - 1
         \/ /\ Len(grown) - d <= Retention
            /\ total - Bytes(SubSeq(grown, 1, d)) <= RetentionBytes
  BY <1>1, <1>4, DropStops
<1> HIDE DEF d
<1>7. \A i \in 1..(n + 1) : grown[i].index = nextIndex - 1 - n + i
  <2> TAKE i \in 1..(n + 1)
  <2>1. CASE i = n + 1
    <3>1. grown[i].index = nextIndex
      BY <2>1, <1>4
    <3> QED BY <3>1, <2>1, <1>1
  <2>2. CASE i \in 1..n
    BY <2>2, <1>1, <1>4
  <2> QED BY <2>1, <2>2, <1>1
<1>8. d \in 0..n /\ d + 1 \in 1..(n + 1)
  BY <1>1, <1>4, <1>6
<1>9. /\ events' \in Seq(EventSet)
      /\ Len(events') = n + 1 - d
      /\ \A i \in 1..(n + 1 - d) : events'[i] = grown[d + i]
  BY <1>1, <1>4, <1>5, <1>8
<1>10. \A i \in 1..(n + 1 - d) : events'[i].index = nextIndex - 1 - n + d + i
  <2> TAKE i \in 1..(n + 1 - d)
  <2>1. d + i \in 1..(n + 1)
    BY <1>1, <1>8
  <2>2. events'[i].index = nextIndex - 1 - n + (d + i)
    BY <2>1, <1>7, <1>9
  <2> QED BY <2>2, <1>1, <1>8
<1>11. 1 \in 1..(n + 1 - d)
  BY <1>1, <1>8
<1>12. events'[1].index = nextIndex - n + d
  <2>1. events'[1].index = nextIndex - 1 - n + d + 1
    BY <1>10, <1>11
  <2> QED BY <2>1, <1>1, <1>8
<1>13. events'[1].index >= events[1].index /\ events'[1].index >= 1
  BY <1>12, <1>1, <1>8
<1>14. Len(events') <= Retention
  BY <1>9, <1>6, <1>4, <1>2, <1>1
<1>15. Len(events') > 1 => retainedBytes' <= RetentionBytes
  BY <1>9, <1>6, <1>5, <1>4, <1>1, <1>8
<1>16. /\ Len(events') >= 1
       /\ \A i \in 1..Len(events') : events'[i].index = nextIndex' - 1 - Len(events') + i
  <2>1. Len(events') >= 1
    BY <1>1, <1>8, <1>9
  <2>2. ASSUME NEW i \in 1..Len(events')
        PROVE  events'[i].index = nextIndex' - 1 - Len(events') + i
    <3>1. i \in 1..(n + 1 - d)
      BY <1>9
    <3>2. events'[i].index = nextIndex - 1 - n + d + i
      BY <3>1, <1>10
    <3>3. nextIndex - 1 - n + d + i = (nextIndex + 1) - 1 - (n + 1 - d) + i
      BY <3>1, <1>1, <1>8
    <3>4. nextIndex' = nextIndex + 1 /\ Len(events') = n + 1 - d
      BY <1>5, <1>9
    <3> QED BY <3>2, <3>3, <3>4
  <2> QED BY <2>1, <2>2
<1>17. Window'
  BY <1>13, <1>14, <1>15, <1>16 DEF Window
<1> QED BY <1>5, <1>9, <1>13, <1>17

\* What an append does to the streams.
LEMMA AppendSound ==
  ASSUME LogInv, NEW z \in Sizes, AppendEvent(z)
  PROVE  LogInv'
<1> DEFINE f == Frame(nextIndex)
<1>1. /\ LogTypes /\ Window /\ NoticesLead /\ Streams /\ Cursors
  BY DEF LogInv
<1>2. /\ events' \in Seq(EventSet) /\ Window'
      /\ events'[1].index >= events[1].index
      /\ nextIndex' = nextIndex + 1 /\ nextIndex \in Nat
      /\ events[1].index \in Nat /\ events'[1].index \in Int
  <2>1. /\ events' \in Seq(EventSet) /\ Window'
        /\ events'[1].index >= events[1].index
        /\ nextIndex' = nextIndex + 1
    BY <1>1, AppendWindow
  <2>2. events'[1] \in EventSet
    BY <2>1 DEF Window
  <2>3. events'[1].index \in Int
    BY <2>2 DEF EventSet
  <2> QED BY <2>1, <2>3, <1>1, WindowFromOldest DEF LogTypes
<1>3. /\ UNCHANGED <<watching, replay, cursor, seen, excused>>
      /\ subscribers' = {w \in subscribers : Len(channel[w]) < SubscriberBuffer}
      /\ channel' = [w \in Watchers |-> IF w \in subscribers' THEN Append(channel[w], f)
                                                              ELSE channel[w]]
  BY DEF AppendEvent, FanOut
<1>4. f \in FrameSet /\ ~f.notice /\ f.index = nextIndex
  BY <1>2, FrameTypes, FrameFields
<1> HIDE DEF f
<1>5. LogTypes'
  <2>1. \A w \in Watchers : channel[w] \in Seq(FrameSet) /\ Append(channel[w], f) \in Seq(FrameSet)
    BY <1>1, <1>4 DEF LogTypes
  <2>2. channel' \in [Watchers -> Seq(FrameSet)]
    BY <2>1, <1>3
  <2>3. subscribers' \subseteq watching' /\ watching' \subseteq Watchers
    BY <1>1, <1>3 DEF LogTypes
  <2> QED BY <2>2, <2>3, <1>1, <1>2, <1>3 DEF LogTypes
<1>6. NoticesLead'
  <2> SUFFICES ASSUME NEW w \in Watchers
               PROVE  /\ \A i \in 1..Len(channel'[w]) : ~channel'[w][i].notice
                      /\ \A i \in 1..Len(replay'[w]) :
                            replay'[w][i].notice =>
                               /\ i = 1
                               /\ cursor'[w] < replay'[w][i].index
                               /\ replay'[w][i].index < events'[1].index
    BY DEF NoticesLead
  <2>1. channel[w] \in Seq(FrameSet) /\ \A i \in 1..Len(channel[w]) : ~channel[w][i].notice
    BY <1>1 DEF NoticesLead, LogTypes
  <2>2. \A i \in 1..Len(channel'[w]) : ~channel'[w][i].notice
    <3>1. CASE w \in subscribers'
      <4>1. channel'[w] = Append(channel[w], f)
        BY <3>1, <1>3
      <4>2. /\ Len(channel'[w]) = Len(channel[w]) + 1
            /\ \A i \in 1..Len(channel[w]) : channel'[w][i] = channel[w][i]
            /\ channel'[w][Len(channel[w]) + 1] = f
        BY <4>1, <2>1, <1>4
      <4>3. \A i \in 1..Len(channel'[w]) : i \in 1..Len(channel[w]) \/ i = Len(channel[w]) + 1
        BY <4>2, <2>1
      <4> QED BY <4>2, <4>3, <2>1, <1>4
    <3>2. CASE w \notin subscribers'
      BY <3>2, <2>1, <1>3
    <3> QED BY <3>1, <3>2
  <2>3. ASSUME NEW i \in 1..Len(replay'[w]), replay'[w][i].notice
        PROVE  /\ i = 1
               /\ cursor'[w] < replay'[w][i].index
               /\ replay'[w][i].index < events'[1].index
    <3>1. /\ i = 1 /\ cursor[w] < replay[w][i].index
          /\ replay[w][i].index < events[1].index
      BY <2>3, <1>1, <1>3 DEF NoticesLead
    <3>2. replay[w][i] \in FrameSet
      BY <1>1, <1>3 DEF LogTypes
    <3>3. replay[w][i].index \in Nat
      BY <3>2 DEF FrameSet
    <3> QED BY <3>1, <3>3, <1>2, <1>3
  <2> QED BY <2>2, <2>3
<1>7. Streams'
  <2> SUFFICES ASSUME NEW w \in watching
               PROVE  /\ Chain(cursor'[w], Pending(w)')
                      /\ \A i \in 1..Len(Pending(w)') : Pending(w)'[i].index <= nextIndex' - 1
                      /\ w \in subscribers' => LastIndex(cursor'[w], Pending(w)') = nextIndex' - 1
    BY <1>3 DEF Streams
  <2>0. PICK p : p = Pending(w)
    OBVIOUS
  <2>1. /\ w \in Watchers /\ cursor[w] \in Nat
        /\ replay[w] \in Seq(FrameSet) /\ channel[w] \in Seq(FrameSet)
    BY <1>1 DEF LogTypes
  <2>2. p \in Seq(FrameSet)
    BY <2>0, <2>1 DEF Pending
  <2>3. /\ Chain(cursor[w], p)
        /\ \A i \in 1..Len(p) : p[i].index <= nextIndex - 1
        /\ w \in subscribers => LastIndex(cursor[w], p) = nextIndex - 1
    BY <2>0, <1>1 DEF Streams
  <2>4. \A i \in 1..Len(p) : p[i].index \in Nat
    BY <2>2, FrameIndex
  <2>5. CASE w \in subscribers'
    <3>1. Pending(w)' = replay[w] \o Append(channel[w], f)
      BY <2>1, <2>5, <1>3 DEF Pending
    <3>2. Pending(w)' = Append(p, f)
      BY <3>1, <2>0, <2>1, <1>4, ConcatAppend DEF Pending
    <3>3. w \in subscribers
      BY <2>5, <1>3
    <3>4. f.index = LastIndex(cursor[w], p) + 1
      BY <3>3, <2>3, <1>2, <1>4
    <3>5. Chain(cursor[w], Append(p, f)) /\ LastIndex(cursor[w], Append(p, f)) = f.index
      BY <3>4, <2>1, <2>2, <2>3, <1>4, ChainAppend
    <3>6. \A i \in 1..Len(Append(p, f)) : Append(p, f)[i].index <= nextIndex
      <4>1. \A i \in 1..Len(p) : p[i].index <= nextIndex
        BY <2>3, <2>4, <1>2
      <4> QED BY <4>1, <2>2, <1>2, <1>4
    <3> QED BY <3>2, <3>5, <3>6, <1>2, <1>3, <1>4
  <2>6. CASE w \notin subscribers'
    <3>1. Pending(w)' = p
      BY <2>0, <2>1, <2>6, <1>3 DEF Pending
    <3>2. \A i \in 1..Len(p) : p[i].index <= nextIndex' - 1
      BY <2>3, <2>4, <1>2
    <3> QED BY <3>1, <3>2, <2>3, <2>6, <1>3
  <2> QED BY <2>5, <2>6
<1>8. Cursors'
  BY <1>1, <1>2, <1>3 DEF Cursors, LogTypes
<1> QED BY <1>2, <1>5, <1>6, <1>7, <1>8 DEF LogInv

\* The other streams see nothing of a step of w's: their parts carry over.
LEMMA OtherStreams ==
  ASSUME LogInv, NEW w \in Watchers, UNCHANGED <<nextIndex, events, retainedBytes>>,
         \A v \in Watchers \ {w} :
            /\ replay'[v] = replay[v] /\ channel'[v] = channel[v]
            /\ cursor'[v] = cursor[v] /\ seen'[v] = seen[v]
            /\ excused'[v] = excused[v]
            /\ v \in watching' <=> v \in watching
            /\ v \in subscribers' <=> v \in subscribers,
         LogTypes',
         \A i \in 1..Len(channel'[w]) : ~channel'[w][i].notice,
         \A i \in 1..Len(replay'[w]) :
            replay'[w][i].notice =>
               /\ i = 1
               /\ cursor'[w] < replay'[w][i].index
               /\ replay'[w][i].index < events[1].index,
         w \in watching' =>
            /\ Chain(cursor'[w], Pending(w)')
            /\ \A i \in 1..Len(Pending(w)') : Pending(w)'[i].index <= nextIndex - 1
            /\ w \in subscribers' => LastIndex(cursor'[w], Pending(w)') = nextIndex - 1,
         cursor'[w] <= nextIndex - 1,
         seen'[w] \subseteq 1..cursor'[w],
         excused'[w] \subseteq 1..cursor'[w],
         seen'[w] \cap excused'[w] = {},
         1..cursor'[w] \subseteq seen'[w] \cup excused'[w]
  PROVE  LogInv'
<1>1. LogTypes /\ Window /\ NoticesLead /\ Streams /\ Cursors
  BY DEF LogInv
<1>2. Window'
  BY <1>1 DEF Window
<1>3. NoticesLead'
  BY <1>1 DEF NoticesLead
<1>4. Streams'
  <2> SUFFICES ASSUME NEW v \in watching', v # w
               PROVE  /\ Chain(cursor'[v], Pending(v)')
                      /\ \A i \in 1..Len(Pending(v)') : Pending(v)'[i].index <= nextIndex - 1
                      /\ v \in subscribers' => LastIndex(cursor'[v], Pending(v)') = nextIndex - 1
    BY DEF Streams
  <2>1. v \in Watchers \ {w} /\ v \in watching
    BY DEF LogTypes
  <2>2. Pending(v)' = Pending(v) /\ cursor'[v] = cursor[v]
    BY <2>1 DEF Pending
  <2> QED BY <2>1, <2>2, <1>1 DEF Streams
<1>5. Cursors'
  <2> SUFFICES ASSUME NEW v \in Watchers, v # w
               PROVE  /\ cursor'[v] <= nextIndex - 1
                      /\ seen'[v] \subseteq 1..cursor'[v]
                      /\ excused'[v] \subseteq 1..cursor'[v]
                      /\ seen'[v] \cap excused'[v] = {}
                      /\ 1..cursor'[v] \subseteq seen'[v] \cup excused'[v]
    BY DEF Cursors
  <2>1. cursor'[v] = cursor[v] /\ seen'[v] = seen[v] /\ excused'[v] = excused[v]
    OBVIOUS
  <2> QED BY <2>1, <1>1 DEF Cursors
<1> QED BY <1>2, <1>3, <1>4, <1>5 DEF LogInv

\* WatchEvents: the stream that opens starts with a sound replay.
LEMMA WatchSound ==
  ASSUME LogInv, NEW w \in Watchers, WatchEvents(w)
  PROVE  LogInv'
<1>1. LogTypes /\ Window /\ NoticesLead /\ Streams /\ Cursors
  BY DEF LogInv
<1>2. PICK r : r = Replay(cursor[w])
  OBVIOUS
<1>3. /\ watching' = watching \cup {w} /\ subscribers' = subscribers \cup {w}
      /\ replay' = [replay EXCEPT ![w] = r]
      /\ channel' = [channel EXCEPT ![w] = <<>>]
      /\ UNCHANGED <<nextIndex, events, retainedBytes, cursor, seen, excused>>
  BY <1>2 DEF WatchEvents
<1>4. cursor[w] \in Nat /\ cursor[w] <= nextIndex - 1
  BY <1>1 DEF LogTypes, Cursors
<1>5. /\ r \in Seq(FrameSet)
      /\ Chain(cursor[w], r)
      /\ LastIndex(cursor[w], r) = nextIndex - 1
      /\ \A i \in 1..Len(r) : r[i].index <= nextIndex - 1
      /\ \A i \in 1..Len(r) :
            r[i].notice => i = 1 /\ cursor[w] < r[i].index /\ r[i].index < events[1].index
  BY <1>1, <1>2, <1>4, ReplayContinues
<1>6. LogTypes'
  BY <1>1, <1>3, <1>5 DEF LogTypes
<1>7. replay'[w] = r /\ channel'[w] = <<>> /\ Pending(w)' = r
  <2>1. replay'[w] = r /\ channel'[w] = <<>>
    BY <1>1, <1>3 DEF LogTypes
  <2> QED BY <2>1, <1>5 DEF Pending
<1>8. \A v \in Watchers \ {w} :
         /\ replay'[v] = replay[v] /\ channel'[v] = channel[v]
         /\ cursor'[v] = cursor[v] /\ seen'[v] = seen[v]
         /\ excused'[v] = excused[v]
         /\ v \in watching' <=> v \in watching
         /\ v \in subscribers' <=> v \in subscribers
  BY <1>1, <1>3 DEF LogTypes
<1>9. /\ cursor'[w] = cursor[w]
      /\ seen'[w] \subseteq 1..cursor'[w] /\ excused'[w] \subseteq 1..cursor'[w]
      /\ seen'[w] \cap excused'[w] = {}
      /\ 1..cursor'[w] \subseteq seen'[w] \cup excused'[w]
  BY <1>1, <1>3 DEF Cursors
<1>10. \A i \in 1..Len(channel'[w]) : ~channel'[w][i].notice
  BY <1>7
<1> QED BY <1>3, <1>4, <1>5, <1>6, <1>7, <1>8, <1>9, <1>10, OtherStreams

\* Receive keeps the types of the client's state.
LEMMA ReceiveTypes ==
  ASSUME NEW w \in Watchers, NEW f, f.index \in Nat, Receive(w, f),
         cursor \in [Watchers -> Nat],
         seen \in [Watchers -> SUBSET Nat],
         excused \in [Watchers -> SUBSET Nat]
  PROVE  /\ cursor' \in [Watchers -> Nat]
         /\ seen' \in [Watchers -> SUBSET Nat]
         /\ excused' \in [Watchers -> SUBSET Nat]
<1>1. (cursor[w] + 1)..f.index \subseteq Nat
  OBVIOUS
<1> QED BY <1>1 DEF Receive

\* The first pending frame reaches the client, from either source.
LEMMA ReceiveSound ==
  ASSUME LogInv, NEW w \in watching, Pending(w) # <<>>,
         Receive(w, Head(Pending(w))),
         UNCHANGED <<nextIndex, events, retainedBytes, subscribers, watching>>,
         Pending(w)' = Tail(Pending(w)),
         LogTypes',
         \A v \in Watchers \ {w} : replay'[v] = replay[v] /\ channel'[v] = channel[v],
         \A i \in 1..Len(channel'[w]) : ~channel'[w][i].notice,
         \A i \in 1..Len(replay'[w]) : ~replay'[w][i].notice
  PROVE  LogInv'
<1>1. LogTypes /\ Streams /\ Cursors /\ w \in Watchers
  BY DEF LogInv, LogTypes
<1>2. PICK p : p = Pending(w)
  OBVIOUS
<1>3. PICK f : f = Head(p)
  OBVIOUS
<1>4. p \in Seq(FrameSet) /\ p # <<>>
  BY <1>1, <1>2 DEF LogTypes, Pending
<1>5. f \in FrameSet /\ f = p[1] /\ 1 \in 1..Len(p)
  BY <1>3, <1>4
<1>6. PICK c \in Nat : c = cursor[w]
  BY <1>1 DEF LogTypes
<1>7. /\ Chain(c, p)
      /\ \A i \in 1..Len(p) : p[i].index <= nextIndex - 1
      /\ w \in subscribers => LastIndex(c, p) = nextIndex - 1
  BY <1>1, <1>2, <1>6 DEF Streams
<1>8. /\ f.index \in Nat /\ f.index > c /\ f.index <= nextIndex - 1
      /\ ~f.notice => f.index = c + 1
      /\ Chain(f.index, Tail(p))
      /\ LastIndex(f.index, Tail(p)) = LastIndex(c, p)
  <2>1. f.index \in Nat /\ f.index <= nextIndex - 1
    BY <1>5, <1>7 DEF FrameSet
  <2> QED BY <2>1, <1>3, <1>4, <1>7, ChainTail
<1>9. /\ cursor' = [cursor EXCEPT ![w] = f.index]
      /\ seen' = [seen EXCEPT ![w] = IF f.notice THEN @ ELSE @ \cup {f.index}]
      /\ excused' = [excused EXCEPT ![w] = IF f.notice THEN @ \cup ((c + 1)..f.index) ELSE @]
  <2>1. ~(f.index <= c)
    BY <1>8
  <2> QED BY <2>1, <1>2, <1>3, <1>6 DEF Receive
<1>10. /\ cursor'[w] = f.index
       /\ seen'[w] = IF f.notice THEN seen[w] ELSE seen[w] \cup {f.index}
       /\ excused'[w] = IF f.notice THEN excused[w] \cup ((c + 1)..f.index) ELSE excused[w]
  BY <1>1, <1>9 DEF LogTypes
<1>11. /\ cursor'[w] <= nextIndex - 1
       /\ seen'[w] \subseteq 1..cursor'[w]
       /\ excused'[w] \subseteq 1..cursor'[w]
       /\ seen'[w] \cap excused'[w] = {}
       /\ 1..cursor'[w] \subseteq seen'[w] \cup excused'[w]
  <2>1. /\ seen[w] \subseteq 1..c /\ excused[w] \subseteq 1..c
        /\ seen[w] \cap excused[w] = {}
        /\ 1..c \subseteq seen[w] \cup excused[w]
    BY <1>1, <1>6 DEF Cursors
  <2>2. 1..f.index = 1..c \cup (c + 1)..f.index /\ 1..c \cap (c + 1)..f.index = {}
    BY <1>8
  <2>3. CASE f.notice
    BY <2>1, <2>2, <2>3, <1>8, <1>10
  <2>4. CASE ~f.notice
    <3>1. (c + 1)..f.index = {f.index}
      BY <2>4, <1>8
    <3> QED BY <3>1, <2>1, <2>2, <2>4, <1>8, <1>10
  <2> QED BY <2>3, <2>4
<1>12. \A i \in 1..Len(Tail(p)) : Tail(p)[i].index <= nextIndex - 1
  <2>1. \A i \in 1..Len(Tail(p)) : i + 1 \in 1..Len(p) /\ Tail(p)[i] = p[i + 1]
    BY <1>4
  <2> QED BY <2>1, <1>7
<1>13. /\ Chain(cursor'[w], Pending(w)')
       /\ \A i \in 1..Len(Pending(w)') : Pending(w)'[i].index <= nextIndex - 1
       /\ w \in subscribers' => LastIndex(cursor'[w], Pending(w)') = nextIndex - 1
  BY <1>2, <1>7, <1>8, <1>10, <1>12
<1>14. \A v \in Watchers \ {w} :
         /\ replay'[v] = replay[v] /\ channel'[v] = channel[v]
         /\ cursor'[v] = cursor[v] /\ seen'[v] = seen[v]
         /\ excused'[v] = excused[v]
         /\ v \in watching' <=> v \in watching
         /\ v \in subscribers' <=> v \in subscribers
  BY <1>1, <1>9 DEF LogTypes
<1> QED BY <1>1, <1>11, <1>13, <1>14, OtherStreams

\* The handler sends a replayed frame.
LEMMA SendReplaySound ==
  ASSUME LogInv, NEW w \in Watchers, SendReplay(w)
  PROVE  LogInv'
<1>1. LogTypes /\ NoticesLead
  BY DEF LogInv
<1>2. /\ replay[w] \in Seq(FrameSet) /\ channel[w] \in Seq(FrameSet) /\ replay[w] # <<>>
      /\ cursor[w] \in Nat
  BY <1>1 DEF LogTypes, SendReplay
<1>3. /\ Pending(w) # <<>> /\ Head(Pending(w)) = Head(replay[w])
      /\ Tail(Pending(w)) = Tail(replay[w]) \o channel[w]
  BY <1>2, ConcatTail DEF Pending
<1>4. /\ w \in watching
      /\ Receive(w, Head(Pending(w)))
      /\ replay' = [replay EXCEPT ![w] = Tail(replay[w])]
      /\ UNCHANGED <<nextIndex, events, retainedBytes, subscribers, watching, channel>>
  BY <1>3 DEF SendReplay
<1>5. replay'[w] = Tail(replay[w]) /\ Tail(replay[w]) \in Seq(FrameSet)
  BY <1>1, <1>2, <1>4 DEF LogTypes
<1>6. Pending(w)' = Tail(Pending(w))
  BY <1>3, <1>4, <1>5 DEF Pending
<1>7. LogTypes'
  <2>1. Head(replay[w]) \in FrameSet
    BY <1>2
  <2>2. Head(replay[w]).index \in Nat
    BY <2>1 DEF FrameSet
  <2>3. /\ cursor' \in [Watchers -> Nat]
        /\ seen' \in [Watchers -> SUBSET Nat]
        /\ excused' \in [Watchers -> SUBSET Nat]
    BY <2>2, <1>1, <1>2, ReceiveTypes DEF SendReplay, LogTypes
  <2> QED BY <2>3, <1>1, <1>4, <1>5 DEF LogTypes
<1>8. \A i \in 1..Len(replay'[w]) : ~replay'[w][i].notice
  <2>1. \A i \in 1..Len(Tail(replay[w])) :
           /\ i + 1 \in 1..Len(replay[w]) /\ i + 1 # 1
           /\ Tail(replay[w])[i] = replay[w][i + 1]
    BY <1>2
  <2> QED BY <2>1, <1>1, <1>5 DEF NoticesLead
<1>9. \A i \in 1..Len(channel'[w]) : ~channel'[w][i].notice
  BY <1>1, <1>4 DEF NoticesLead
<1>10. \A v \in Watchers \ {w} : replay'[v] = replay[v] /\ channel'[v] = channel[v]
  BY <1>1, <1>4 DEF LogTypes
<1> QED BY <1>3, <1>4, <1>6, <1>7, <1>8, <1>9, <1>10, ReceiveSound

\* The handler sends a live frame.
LEMMA SendLiveSound ==
  ASSUME LogInv, NEW w \in Watchers, SendLive(w)
  PROVE  LogInv'
<1>1. LogTypes /\ NoticesLead
  BY DEF LogInv
<1>2. /\ channel[w] \in Seq(FrameSet) /\ channel[w] # <<>> /\ replay[w] = <<>>
      /\ cursor[w] \in Nat
  BY <1>1 DEF LogTypes, SendLive
<1>3. Pending(w) = channel[w]
  BY <1>2 DEF Pending
<1>4. /\ w \in watching
      /\ Receive(w, Head(Pending(w)))
      /\ channel' = [channel EXCEPT ![w] = Tail(channel[w])]
      /\ UNCHANGED <<nextIndex, events, retainedBytes, subscribers, watching, replay>>
  BY <1>3 DEF SendLive
<1>5. channel'[w] = Tail(channel[w]) /\ Tail(channel[w]) \in Seq(FrameSet)
  BY <1>1, <1>2, <1>4 DEF LogTypes
<1>6. Pending(w)' = Tail(Pending(w))
  <2>1. PICK t \in Seq(FrameSet) : t = Tail(channel[w])
    BY <1>5
  <2>2. Pending(w)' = <<>> \o t
    BY <2>1, <1>2, <1>4, <1>5 DEF Pending
  <2>3. <<>> \o t = t
    OBVIOUS
  <2> QED BY <2>1, <2>2, <2>3, <1>3
<1>7. LogTypes'
  <2>1. Head(channel[w]) \in FrameSet
    BY <1>2
  <2>2. Head(channel[w]).index \in Nat
    BY <2>1 DEF FrameSet
  <2>3. /\ cursor' \in [Watchers -> Nat]
        /\ seen' \in [Watchers -> SUBSET Nat]
        /\ excused' \in [Watchers -> SUBSET Nat]
    BY <2>2, <1>1, <1>2, ReceiveTypes DEF SendLive, LogTypes
  <2> QED BY <2>3, <1>1, <1>4, <1>5 DEF LogTypes
<1>8. \A i \in 1..Len(replay'[w]) : ~replay'[w][i].notice
  BY <1>2, <1>4
<1>9. \A i \in 1..Len(channel'[w]) : ~channel'[w][i].notice
  <2>1. \A i \in 1..Len(Tail(channel[w])) :
           i + 1 \in 1..Len(channel[w]) /\ Tail(channel[w])[i] = channel[w][i + 1]
    BY <1>2
  <2> QED BY <2>1, <1>1, <1>5 DEF NoticesLead
<1>10. \A v \in Watchers \ {w} : replay'[v] = replay[v] /\ channel'[v] = channel[v]
  BY <1>1, <1>4 DEF LogTypes
<1> QED BY <1>2, <1>3, <1>4, <1>6, <1>7, <1>8, <1>9, <1>10, ReceiveSound

\* A stream that ends leaves the client and the other streams as they were.
LEMMA StreamEndSound ==
  ASSUME LogInv, NEW w \in Watchers, EndOfStream(w) \/ Break(w)
  PROVE  LogInv'
<1>1. LogTypes /\ NoticesLead /\ Cursors
  BY DEF LogInv
<1>2. /\ watching' = watching \ {w} /\ subscribers' = subscribers \ {w}
      /\ replay' = [replay EXCEPT ![w] = <<>>] /\ channel' = [channel EXCEPT ![w] = <<>>]
      /\ UNCHANGED <<nextIndex, events, retainedBytes, cursor, seen, excused>>
  <2>1. CASE EndOfStream(w)
    BY <2>1, <1>1 DEF EndOfStream, LogTypes
  <2>2. CASE Break(w)
    BY <2>2 DEF Break
  <2> QED BY <2>1, <2>2
<1>3. replay'[w] = <<>> /\ channel'[w] = <<>>
  BY <1>1, <1>2 DEF LogTypes
<1>4. LogTypes'
  BY <1>1, <1>2 DEF LogTypes
<1>5. \A v \in Watchers \ {w} :
         /\ replay'[v] = replay[v] /\ channel'[v] = channel[v]
         /\ cursor'[v] = cursor[v] /\ seen'[v] = seen[v]
         /\ excused'[v] = excused[v]
         /\ v \in watching' <=> v \in watching
         /\ v \in subscribers' <=> v \in subscribers
  BY <1>1, <1>2 DEF LogTypes
<1>6. /\ cursor'[w] <= nextIndex - 1
      /\ seen'[w] \subseteq 1..cursor'[w] /\ excused'[w] \subseteq 1..cursor'[w]
      /\ seen'[w] \cap excused'[w] = {}
      /\ 1..cursor'[w] \subseteq seen'[w] \cup excused'[w]
  BY <1>1, <1>2 DEF Cursors
<1>7. /\ \A i \in 1..Len(channel'[w]) : ~channel'[w][i].notice
      /\ \A i \in 1..Len(replay'[w]) : FALSE
  BY <1>3
<1> QED BY <1>2, <1>4, <1>5, <1>6, <1>7, OtherStreams

\* Every step of the specification preserves the invariant.
LEMMA NextSound == LogInv /\ [LogNext]_logVars => LogInv'
<1> SUFFICES ASSUME LogInv, [LogNext]_logVars PROVE LogInv'
  OBVIOUS
<1>1. ASSUME NEW z \in Sizes, AppendEvent(z) PROVE LogInv'
  BY <1>1, AppendSound
<1>2. ASSUME NEW w \in Watchers, StreamStep(w) PROVE LogInv'
  BY <1>2, WatchSound, SendReplaySound, SendLiveSound, StreamEndSound DEF StreamStep
<1>3. ASSUME NEW w \in Watchers, Break(w) PROVE LogInv'
  BY <1>3, StreamEndSound
<1>4. CASE UNCHANGED logVars
  BY <1>4 DEF logVars, LogInv, LogTypes, Window, NoticesLead, Streams, Cursors, Pending
<1> QED BY <1>1, <1>2, <1>3, <1>4 DEF LogNext

\* The log and its streams keep the invariant in every behaviour.
THEOREM LogInvariant == LogSpec => []LogInv
  BY InitSound, NextSound, PTL DEF LogSpec

-----------------------------------------------------------------------------
(* What the invariant says in the terms of the specification. *)

\* sessionEventLog.append keeps the newest run of consecutive events, never
\* drops the newest, and keeps both limits but for one oversized event.
THEOREM WindowAlwaysSound == LogSpec => []WindowSound
<1>1. LogInv => WindowSound
  <2> SUFFICES ASSUME LogInv PROVE WindowSound
    OBVIOUS
  <2>1. events \in Seq(EventSet) /\ Window
    BY DEF LogInv, LogTypes
  <2>2. DOMAIN events = 1..Len(events) /\ events # <<>>
    BY <2>1 DEF Window
  <2> QED BY <2>1, <2>2 DEF Window, WindowSound
<1> QED BY <1>1, LogInvariant, PTL

\* Whatever lies below a browser's cursor it received, or was told is gone: no
\* drop for a full channel, broken stream or eviction loses an event silently.
THEOREM GapsAreAnnounced == LogSpec => []NoSilentGap
<1>1. LogInv => NoSilentGap
  BY DEF LogInv, Cursors, NoSilentGap
<1> QED BY <1>1, LogInvariant, PTL

\* A resync notice of subscribe never denies an event that was delivered, nor
\* one that the window still holds, and it is a stream's first frame.
THEOREM NoticesAlwaysTrue == LogSpec => []NoticesAreTrue
<1>1. LogInv => NoticesAreTrue
  <2> SUFFICES ASSUME LogInv, NEW w \in Watchers
               PROVE  /\ seen[w] \cap excused[w] = {}
                      /\ \A i \in DOMAIN replay[w] :
                            replay[w][i].notice =>
                               /\ i = 1
                               /\ cursor[w] < replay[w][i].index
                               /\ \A e \in DOMAIN events :
                                     replay[w][i].index < events[e].index
    BY DEF NoticesAreTrue
  <2>1. LogTypes /\ Window /\ NoticesLead /\ Cursors
    BY DEF LogInv
  <2>2. /\ replay[w] \in Seq(FrameSet) /\ DOMAIN replay[w] = 1..Len(replay[w])
        /\ DOMAIN events = 1..Len(events)
    BY <2>1 DEF LogTypes
  <2>3. /\ events[1].index \in Nat /\ Len(events) \in Nat
        /\ \A e \in 1..Len(events) : events[e].index = events[1].index - 1 + e
    BY <2>1, WindowFromOldest
  <2>4. \A e \in DOMAIN events : events[e].index \in Int /\ events[e].index >= events[1].index
    BY <2>2, <2>3
  <2>5. ASSUME NEW i \in DOMAIN replay[w], replay[w][i].notice
        PROVE  /\ i = 1
               /\ cursor[w] < replay[w][i].index
               /\ \A e \in DOMAIN events : replay[w][i].index < events[e].index
    <3>1. /\ i = 1 /\ cursor[w] < replay[w][i].index
          /\ replay[w][i].index < events[1].index
      BY <2>1, <2>2, <2>5 DEF NoticesLead
    <3>2. replay[w][i].index \in Nat
      BY <2>2, FrameIndex
    <3> QED BY <3>1, <3>2, <2>3, <2>4
  <2> QED BY <2>1, <2>5 DEF Cursors
<1> QED BY <1>1, LogInvariant, PTL

\* The replay and the live channel of a stream join without a hole or a repeat,
\* and a subscribed stream's pending frames reach the newest event.
THEOREM HandoffAlwaysExact == LogSpec => []HandoffExact
<1>1. LogInv => HandoffExact
  <2> SUFFICES ASSUME LogInv, NEW w \in watching
               PROVE  LET p == Pending(w)
                          At(i) == IF i = 0 THEN cursor[w] ELSE p[i].index
                      IN  /\ \A i \in 1..Len(p) :
                                IF p[i].notice THEN i = 1 /\ At(1) > cursor[w]
                                               ELSE At(i) = At(i - 1) + 1
                          /\ w \in subscribers => At(Len(p)) = nextIndex - 1
    BY DEF HandoffExact
  <2>1. PICK p : p = Pending(w)
    OBVIOUS
  <2>2. /\ Chain(cursor[w], p)
        /\ w \in subscribers => LastIndex(cursor[w], p) = nextIndex - 1
    BY <2>1 DEF LogInv, Streams
  <2>3. p \in Seq(FrameSet)
    BY <2>1 DEF LogInv, LogTypes, Pending
  <2> DEFINE At(i) == IF i = 0 THEN cursor[w] ELSE p[i].index
  <2>4. ASSUME NEW i \in 1..Len(p)
        PROVE  IF p[i].notice THEN i = 1 /\ At(1) > cursor[w]
                              ELSE At(i) = At(i - 1) + 1
    BY <2>2 DEF Chain
  <2>5. w \in subscribers => At(Len(p)) = nextIndex - 1
    <3>1. Len(p) \in Nat /\ (Len(p) = 0 <=> p = <<>>)
      BY <2>3
    <3> QED BY <3>1, <2>2 DEF LastIndex
  <2> QED BY <2>1, <2>4, <2>5
<1> QED BY <1>1, LogInvariant, PTL
=============================================================================
