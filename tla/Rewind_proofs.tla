--------------------------- MODULE Rewind_proofs ---------------------------
(***************************************************************************)
(* Proofs about the rewind buffer of rewind.c.                             *)
(*                                                                         *)
(* About the ring (Rewind): for every size of it that holds two of the     *)
(* largest deltas, and every sequence of pushes and pops, it stays linked  *)
(* both ways, room can be made in it, it behaves as the stack RewindStack  *)
(* describes, and forgets only where it is full.  About the compression    *)
(* (RewindDelta): for two states of any size, a delta has the room that is *)
(* kept for it on builds that may read words at any place, and leads back. *)
(*                                                                         *)
(* What the model computes going from link to link is a recursive function,*)
(* and the invariant says there is a row of places and states such a way   *)
(* comes along.  Induction is out of reach of the provers, so both are     *)
(* brought together at a least number where they would differ (Along), and *)
(* the recursive functions are unfolded by one shown to exist (StepByStep).*)
(***************************************************************************)
EXTENDS Rewind, RewindDelta, SequencesExt, SequenceTheorems,
        NaturalsInduction, WellFoundedInduction, TLAPS

-----------------------------------------------------------------------------
(* Numbers and functions.                                                  *)

(* What the ring needs to be sound: twice the room of the largest delta with its*)
(* links.  In a shorter one state_manager_push_do, going back to the start, may*)
(* move the tail along a link it has not written yet (Capacity 9 in the README).*)
TwoDeltas == Capacity >= 2 * MaxCompSize

\* What is minimal in a set of numbers, and < as a set of pairs.
LEMMA MinimalOf ==
    ASSUME NEW R, NEW T \in SUBSET Nat, T # {}, IsWellFoundedOn(R, Nat)
    PROVE  \E x \in T : \A y \in T : ~ (<<y, x>> \in R)
  BY WFMin

\* Less than, as the set of pairs the library speaks of.
LEMMA LessOf ==
    ASSUME NEW x \in Nat, NEW y \in Nat, x < y
    PROVE  <<x, y>> \in OpToRel(<, Nat)
  BY DEF OpToRel

\* A set of numbers has a least one.
LEMMA Least ==
    ASSUME NEW T \in SUBSET Nat, T # {}
    PROVE  \E x \in T : \A y \in T : x <= y
<1>1. PICK x \in T : \A y \in T : ~ (<<y, x>> \in OpToRel(<, Nat))
  <2>1. \E x \in T : \A y \in T : ~ (<<y, x>> \in OpToRel(<, Nat))
    BY MinimalOf, NatLessThanWellFounded
  <2>2. QED
    BY <2>1
<1>2. \A y \in T : y \in Nat /\ x \in Nat
  OBVIOUS
<1>3. \A y \in T : ~ (y < x)
  BY <1>1, <1>2, LessOf
<1>4. QED
  BY <1>2, <1>3

\* Two functions that take the same steps agree.
LEMMA Along ==
    ASSUME NEW k \in Nat, NEW f, NEW g, f[0] = g[0],
           \A n \in 1 .. k : f[n - 1] = g[n - 1] => f[n] = g[n]
    PROVE  \A n \in 0 .. k : f[n] = g[n]
<1> DEFINE T == {n \in 0 .. k : f[n] # g[n]}
<1>1. SUFFICES ASSUME T # {} PROVE FALSE
  OBVIOUS
<1>2. T \in SUBSET Nat
  OBVIOUS
<1>3. PICK m \in T : \A y \in T : m <= y
  BY <1>1, <1>2, Least
<1>4. m \in 1 .. k
  BY <1>3
<1>5. m - 1 \notin T
  BY <1>3, <1>4
<1>6. f[m - 1] = g[m - 1]
  BY <1>4, <1>5
<1>7. QED
  BY <1>3, <1>4, <1>6

\* The function f begins with x, and F leads it from each place to the next.
StepsOf(N, D, F, x, f) ==
    /\ f \in [0 .. N -> D]
    /\ f[0] = x
    /\ \A n \in 1 .. N : f[n] = F[n][f[n - 1]]

\* A function can be defined step by step.
LEMMA StepByStep ==
    ASSUME NEW N \in Nat, NEW D, NEW x \in D, NEW F \in [1 .. N -> [D -> D]]
    PROVE  \E f : StepsOf(N, D, F, x, f)
<1> DEFINE T == {n \in 0 .. N : ~ \E f : StepsOf(n, D, F, x, f)}
<1>1. CASE T = {}
  BY <1>1
<1>2. ASSUME T # {} PROVE FALSE
  <2>1. PICK m \in T : \A y \in T : m <= y
    <3>1. T \in SUBSET Nat
      OBVIOUS
    <3>2. QED
      BY <1>2, <3>1, Least
  <2>2. m # 0
    <3>1. StepsOf(0, D, F, x, [n \in 0 .. 0 |-> x])
      BY DEF StepsOf
    <3>2. QED
      BY <2>1, <3>1
  <2>3. m \in 1 .. N /\ m - 1 \in 0 .. N /\ m - 1 \notin T
    BY <2>1, <2>2
  <2>4. PICK f : StepsOf(m - 1, D, F, x, f)
    BY <2>3
  <2> DEFINE g == [n \in 0 .. m |-> IF n = m THEN F[m][f[m - 1]] ELSE f[n]]
  <2>5. f[m - 1] \in D /\ F[m] \in [D -> D]
    BY <2>3, <2>4 DEF StepsOf
  <2>6. g \in [0 .. m -> D]
    BY <2>3, <2>4, <2>5 DEF StepsOf
  <2>7. g[0] = x
    BY <2>3, <2>4 DEF StepsOf
  <2>8. ASSUME NEW n \in 1 .. m PROVE g[n] = F[n][g[n - 1]]
    <3>1. CASE n = m
      BY <2>3, <3>1
    <3>2. CASE n # m
      BY <2>3, <2>4, <3>2 DEF StepsOf
    <3>3. QED
      BY <3>1, <3>2
  <2>9. StepsOf(m, D, F, x, g)
    <3> HIDE DEF g
    <3>1. QED
      BY <2>6, <2>7, <2>8 DEF StepsOf
  <2>10. QED
    BY <2>1, <2>9
<1>3. QED
  BY <1>1, <1>2

-----------------------------------------------------------------------------
(* The sizes.                                                              *)

\* What the assumption on the constants makes of the sizes derived from them.
LEMMA SizesOf ==
    /\ Delta \in Sizes /\ Delta \in Nat /\ MaxCompSize = Delta + 2
    /\ \A len \in Sizes : len \in Nat /\ 1 <= len /\ len <= Delta
    /\ Capacity \in Nat /\ Capacity > 1 + MaxCompSize
    /\ MaxDeltas \in Nat /\ 3 * MaxDeltas <= Capacity /\ Capacity < 3 * MaxDeltas + 3
<1>1. PICK greatest \in Sizes : \A len \in Sizes : len <= greatest
  BY RewindAssumption
<1>2. Sizes \subseteq Nat \ {0}
  BY RewindAssumption
<1>3. \A x \in Sizes : greatest >= x
  BY <1>1, <1>2
<1>4. Delta \in Sizes /\ \A x \in Sizes : Delta >= x
  BY <1>1, <1>3 DEF Delta, Max
<1>5. \A len \in Sizes : len \in Nat /\ 1 <= len /\ len <= Delta
  BY <1>2, <1>4
<1>6. MaxDeltas \in Nat /\ 3 * MaxDeltas <= Capacity /\ Capacity < 3 * MaxDeltas + 3
  <2>1. PICK c : c = Capacity
    OBVIOUS
  <2>2. c \in Nat
    BY <2>1, RewindAssumption
  <2>3. c \div 3 \in Nat /\ 3 * (c \div 3) <= c /\ c < 3 * (c \div 3) + 3
    BY <2>2
  <2>4. QED
    BY <2>1, <2>3 DEF MaxDeltas
<1>7. MaxCompSize = Delta + 2
  BY DEF MaxCompSize
<1>8. QED
  BY <1>2, <1>4, <1>5, <1>6, <1>7, RewindAssumption

-----------------------------------------------------------------------------
(* What Start, State and TailAfter are, one step at a time.                *)
\* Where a delta that ends before a starts.
Back(a) == IF IsLink(a - 1) THEN data[a - 1].to ELSE -1

\* Where one that starts at a ends.
Forth(a) == IF IsLink(a) THEN data[a].to ELSE -1

\* The starts of the deltas are found going back from the head.
LEMMA StartIs ==
    Start[0] = head /\ \A n \in 1 .. MaxDeltas : Start[n] = Back(Start[n - 1])
<1> DEFINE D == {head, -1} \union {data[a].to : a \in Words}
           F == [n \in 1 .. MaxDeltas |-> [a \in D |-> Back(a)]]
           Def(f) == [n \in 0 .. MaxDeltas |->
                        IF n = 0 THEN head
                        ELSE LET last == f[n - 1] - 1
                             IN IF IsLink(last) THEN data[last].to ELSE -1]
<1>1. \A a \in D : Back(a) \in D
  BY DEF Back, IsLink
<1>2. F \in [1 .. MaxDeltas -> [D -> D]]
  BY <1>1
<1>3. head \in D
  OBVIOUS
<1>4. PICK f : StepsOf(MaxDeltas, D, F, head, f)
  <2> HIDE DEF D, F
  <2>1. QED
    BY <1>2, <1>3, SizesOf, StepByStep
<1>5. \A n \in 1 .. MaxDeltas : f[n] = Back(f[n - 1])
  <2>1. SUFFICES ASSUME NEW n \in 1 .. MaxDeltas PROVE f[n] = Back(f[n - 1])
    OBVIOUS
  <2>2. f[n - 1] \in D /\ f[n] = F[n][f[n - 1]]
    <3> HIDE DEF D, F
    <3>1. QED
      BY <1>4, SizesOf DEF StepsOf
  <2> HIDE DEF D
  <2>3. QED
    BY <2>2
<1>6. f = Def(f)
  <2>1. f = [n \in 0 .. MaxDeltas |-> f[n]]
    BY <1>4 DEF StepsOf
  <2>2. f[0] = head
    BY <1>4 DEF StepsOf
  <2>3. \A n \in 0 .. MaxDeltas : n # 0 => n \in 1 .. MaxDeltas
    BY SizesOf
  <2> HIDE DEF D, F
  <2>4. \A n \in 0 .. MaxDeltas : f[n] = Def(f)[n]
    BY <1>5, <2>2, <2>3 DEF Back
  <2>5. QED
    BY <2>1, <2>4
<1>7. Start = Def(Start)
  BY <1>6 DEF Start
<1>8. 0 \in 0 .. MaxDeltas /\ \A n \in 1 .. MaxDeltas : n \in 0 .. MaxDeltas /\ n # 0
  BY SizesOf
<1>9. QED
  BY <1>7, <1>8, Zenon DEF Back

\* The tail is moved along the links in front of the deltas.
LEMMA TailAfterIs ==
    TailAfter[0] = tail /\ \A n \in 1 .. MaxDeltas : TailAfter[n] = Forth(TailAfter[n - 1])
<1> DEFINE D == {tail, -1} \union {data[a].to : a \in Words}
           F == [n \in 1 .. MaxDeltas |-> [a \in D |-> Forth(a)]]
           Def(f) == [n \in 0 .. MaxDeltas |->
                        IF n = 0 THEN tail
                        ELSE LET t == f[n - 1] IN IF IsLink(t) THEN data[t].to ELSE -1]
<1>1. \A a \in D : Forth(a) \in D
  BY DEF Forth, IsLink
<1>2. F \in [1 .. MaxDeltas -> [D -> D]]
  BY <1>1
<1>3. tail \in D
  OBVIOUS
<1>4. PICK f : StepsOf(MaxDeltas, D, F, tail, f)
  <2> HIDE DEF D, F
  <2>1. QED
    BY <1>2, <1>3, SizesOf, StepByStep
<1>5. \A n \in 1 .. MaxDeltas : f[n] = Forth(f[n - 1])
  <2>1. SUFFICES ASSUME NEW n \in 1 .. MaxDeltas PROVE f[n] = Forth(f[n - 1])
    OBVIOUS
  <2>2. f[n - 1] \in D /\ f[n] = F[n][f[n - 1]]
    <3> HIDE DEF D, F
    <3>1. QED
      BY <1>4, SizesOf DEF StepsOf
  <2> HIDE DEF D
  <2>3. QED
    BY <2>2
<1>6. f = Def(f)
  <2>1. f = [n \in 0 .. MaxDeltas |-> f[n]]
    BY <1>4 DEF StepsOf
  <2>2. f[0] = tail
    BY <1>4 DEF StepsOf
  <2>3. \A n \in 0 .. MaxDeltas : n # 0 => n \in 1 .. MaxDeltas
    BY SizesOf
  <2> HIDE DEF D, F
  <2>4. \A n \in 0 .. MaxDeltas : f[n] = Def(f)[n]
    BY <1>5, <2>2, <2>3 DEF Forth
  <2>5. QED
    BY <2>1, <2>4
<1>7. TailAfter = Def(TailAfter)
  BY <1>6 DEF TailAfter
<1>8. 0 \in 0 .. MaxDeltas /\ \A n \in 1 .. MaxDeltas : n \in 0 .. MaxDeltas /\ n # 0
  BY SizesOf
<1>9. QED
  BY <1>7, <1>8, Zenon DEF Forth

\* The states are found applying one delta after the other.
LEMMA StateIs ==
    /\ State[0] = thisblock
    /\ \A n \in 1 .. MaxDeltas : State[n] = Decompress(Start[n], State[n - 1])
<1> DEFINE D == {thisblock, Corrupt}
                  \union {data[(Start[n] + 1) % Capacity].old : n \in 1 .. MaxDeltas}
           F == [n \in 1 .. MaxDeltas |-> [b \in D |-> Decompress(Start[n], b)]]
           Def(f) == [n \in 0 .. MaxDeltas |->
                        IF n = 0 THEN thisblock ELSE Decompress(Start[n], f[n - 1])]
<1>1. \A n \in 1 .. MaxDeltas : \A b \in D : Decompress(Start[n], b) \in D
  BY DEF Decompress
<1>2. F \in [1 .. MaxDeltas -> [D -> D]]
  <2> HIDE DEF D
  <2>1. QED
    BY <1>1
<1>3. thisblock \in D
  OBVIOUS
<1>4. PICK f : StepsOf(MaxDeltas, D, F, thisblock, f)
  <2> HIDE DEF D, F
  <2>1. QED
    BY <1>2, <1>3, SizesOf, StepByStep
<1>5. \A n \in 1 .. MaxDeltas : f[n] = Decompress(Start[n], f[n - 1])
  <2>1. SUFFICES ASSUME NEW n \in 1 .. MaxDeltas
                 PROVE  f[n] = Decompress(Start[n], f[n - 1])
    OBVIOUS
  <2>2. f[n - 1] \in D /\ f[n] = F[n][f[n - 1]]
    <3> HIDE DEF D, F
    <3>1. QED
      BY <1>4, SizesOf DEF StepsOf
  <2> HIDE DEF D
  <2>3. QED
    BY <2>2
<1>6. f = Def(f)
  <2>1. f = [n \in 0 .. MaxDeltas |-> f[n]]
    BY <1>4 DEF StepsOf
  <2>2. f[0] = thisblock
    BY <1>4 DEF StepsOf
  <2>3. \A n \in 0 .. MaxDeltas : n # 0 => n \in 1 .. MaxDeltas
    BY SizesOf
  <2> HIDE DEF D, F
  <2>4. \A n \in 0 .. MaxDeltas : f[n] = Def(f)[n]
    BY <1>5, <2>2, <2>3
  <2>5. QED
    BY <2>1, <2>4
<1>7. State = Def(State)
  BY <1>6 DEF State
<1>8. 0 \in 0 .. MaxDeltas /\ \A n \in 1 .. MaxDeltas : n \in 0 .. MaxDeltas /\ n # 0
  BY SizesOf
<1>9. QED
  BY <1>7, <1>8, Zenon

-----------------------------------------------------------------------------
(* The ring is held by three things no variable names: how many deltas k there*)
(* are, the places p[0] = head, p[1], ..., p[k] = tail they start at, and the*)
(* states s[0], ..., s[k] they lead from and to.                           *)

\* A place, counted on: those up to the head come a lap after those beyond it.
Lap(h, a) == IF a <= h THEN a + Capacity ELSE a

\* The places go down along the lap, three words at least from one to the next,
\* and behind each there is room for a delta of the greatest size.
Places(k, p, h, t) ==
    /\ k \in Nat /\ p \in [0 .. k -> Words]
    /\ p[0] = h /\ p[k] = t
    /\ \A i \in 0 .. k :
         /\ p[i] = 1 \/ p[i] >= 4
         /\ p[i] + MaxCompSize <= Capacity + 1
         /\ p[i] <= h \/ p[i] >= h + 2
    /\ \A i, j \in 0 .. k : i <= j => Lap(h, p[i]) - Lap(h, p[j]) >= 3 * (j - i)

\* What a block may hold: a state, or the zeroes it was allocated with.
Blocks == States \union {Zero}

\* The delta from new to old lies between here and next, linked to both.
Kept(d, new, old, here, next, len) ==
    /\ d[here] = Link(next) /\ d[next - 1] = Link(here)
    /\ \A w \in 1 .. len : d[here + w] = DeltaWord(new, old, len)
    /\ \/ next = here + len + 2
       \/ next = 1 /\ here + 1 + len + MaxCompSize > Capacity

\* From the whole state b on, each place holds the delta to the state before.
Holds(k, p, s, d, b) ==
    /\ s \in [0 .. k -> Blocks] /\ s[0] = b
    /\ \A i \in 1 .. k : \E len \in Sizes : Kept(d, s[i - 1], s[i], p[i], p[i - 1], len)

\* The ring as it is.
Ring(k, p, s) == Places(k, p, head, tail) /\ Holds(k, p, s, data, thisblock)

\* No more places than MaxDeltas, none on the words in front of the start, and
\* only the last is the tail.
LEMMA PlacesGive ==
    ASSUME NEW k, NEW p, NEW h, NEW t, Places(k, p, h, t)
    PROVE  /\ k \in 0 .. MaxDeltas
           /\ h \in 1 .. Capacity - 1 /\ t \in 1 .. Capacity - 1
           /\ \A i \in 0 .. k : p[i] \in Int /\ 1 <= p[i] /\ p[i] + MaxCompSize <= Capacity + 1
           /\ \A i \in 0 .. k : p[i] = t => i = k
<1>1. /\ k \in Nat /\ 0 \in 0 .. k /\ k \in 0 .. k
      /\ \A i \in 0 .. k : p[i] \in 0 .. Capacity - 1
      /\ p[0] = h /\ p[k] = t
      /\ Capacity \in Nat /\ Delta \in Nat /\ MaxCompSize = Delta + 2
  BY SizesOf DEF Places, Words
<1>2. \A i \in 0 .. k : p[i] \in Int /\ 1 <= p[i] /\ p[i] + MaxCompSize <= Capacity + 1
  <2>1. SUFFICES ASSUME NEW i \in 0 .. k
                 PROVE  p[i] \in Int /\ 1 <= p[i] /\ p[i] + MaxCompSize <= Capacity + 1
    OBVIOUS
  <2>2. (p[i] = 1 \/ p[i] >= 4) /\ p[i] + MaxCompSize <= Capacity + 1
    BY DEF Places
  <2>3. p[i] \in Int
    BY <1>1
  <2>4. QED
    BY <2>2, <2>3
<1>3. h \in 1 .. Capacity - 1 /\ t \in 1 .. Capacity - 1
  BY <1>1, <1>2
<1>4. \A i \in 0 .. k : p[i] = t => i = k
  <2>1. SUFFICES ASSUME NEW i \in 0 .. k, p[i] = t PROVE i = k
    OBVIOUS
  <2>2. i <= k /\ Lap(h, p[i]) - Lap(h, p[k]) >= 3 * (k - i)
    BY <1>1 DEF Places
  <2>3. Lap(h, t) \in Int
    BY <1>1, <1>3 DEF Lap
  <2>4. QED
    BY <1>1, <2>1, <2>2, <2>3
<1>5. 3 * k <= Capacity
  <2>1. Lap(h, h) - Lap(h, t) >= 3 * (k - 0)
    BY <1>1 DEF Places
  <2>2. t <= h \/ t >= h + 2
    BY <1>1 DEF Places
  <2>3. QED
    BY <1>1, <1>3, <2>1, <2>2 DEF Lap
<1>6. k <= MaxDeltas
  BY <1>1, <1>5, SizesOf
<1>7. QED
  BY <1>1, <1>2, <1>3, <1>4, <1>6, SizesOf

\* How much is free before a place.
LEMMA RemainingIs ==
    ASSUME NEW h \in 1 .. Capacity - 1, NEW t \in 1 .. Capacity - 1, t <= h \/ t >= h + 2
    PROVE  ((t + Capacity - 1 - h - 1) % Capacity) + 1
             = IF t <= h THEN Capacity - 1 - (h - t) ELSE t - h - 1
<1>1. PICK c : c = Capacity
  OBVIOUS
<1>2. c \in Nat /\ h \in 1 .. c - 1 /\ t \in 1 .. c - 1
  BY <1>1, SizesOf
<1>3. \A x \in 0 .. c - 1 : x % c = x
  BY <1>2
<1>4. \A x \in 0 .. c - 1 : (x + c) % c = x
  BY <1>2
<1>5. CASE t <= h
  <2>1. t + c - 1 - h - 1 \in 0 .. c - 1
    BY <1>2, <1>5
  <2>2. (t + c - 1 - h - 1) % c = t + c - 1 - h - 1
    BY <1>3, <2>1
  <2>3. QED
    BY <1>1, <1>2, <1>5, <2>2
<1>6. CASE t >= h + 2
  <2>1. t - h - 2 \in 0 .. c - 1
    BY <1>2, <1>6
  <2>2. t + c - 1 - h - 1 = (t - h - 2) + c
    BY <1>2
  <2>3. (t + c - 1 - h - 1) % c = t - h - 2
    BY <1>4, <2>1, <2>2
  <2>4. QED
    BY <1>1, <1>2, <1>6, <2>3
<1>7. QED
  BY <1>5, <1>6

\* The same for the head and a place of the ring.
LEMMA RemainingOf ==
    ASSUME NEW k, NEW p, Places(k, p, head, tail), NEW i \in 0 .. k
    PROVE  Remaining(p[i]) = IF p[i] <= head THEN Capacity - 1 - (head - p[i])
                             ELSE p[i] - head - 1
<1>1. /\ head \in 1 .. Capacity - 1 /\ p[i] \in Int /\ 1 <= p[i]
      /\ p[i] + MaxCompSize <= Capacity + 1
  BY PlacesGive
<1>2. p[i] \in 1 .. Capacity - 1
  BY <1>1, SizesOf
<1>3. p[i] <= head \/ p[i] >= head + 2
  BY DEF Places
<1>4. QED
  BY <1>1, <1>2, <1>3, RemainingIs DEF Remaining

-----------------------------------------------------------------------------
(* Read back, a ring is what it holds.                                     *)
\* Start, State and TailAfter find the places and states there are.
ReadsAs(k, p, s) ==
    /\ k \in 0 .. MaxDeltas
    /\ \A n \in 0 .. k : Start[n] = p[n] /\ State[n] = s[n] /\ TailAfter[n] = p[k - n]
    /\ ReachesTail /\ Deltas = k

\* Whatever the ring holds, that is what is read back from it.
ReadsBack == \A k, p, s : Ring(k, p, s) => ReadsAs(k, p, s)

\* Shown one delta at a time, since no induction theorem can be used here.
LEMMA RingReadsBack == ReadsBack
<1> SUFFICES ASSUME NEW k, NEW p, NEW s, Ring(k, p, s) PROVE ReadsAs(k, p, s)
  BY DEF ReadsBack
<1> USE DEF Ring
<1>1. /\ k \in 0 .. MaxDeltas /\ p[0] = head /\ p[k] = tail /\ s[0] = thisblock
      /\ \A i \in 0 .. k : p[i] \in Int /\ 1 <= p[i] /\ p[i] + MaxCompSize <= Capacity + 1
      /\ \A i \in 0 .. k : p[i] = tail => i = k
  <2>1. Places(k, p, head, tail)
    OBVIOUS
  <2>2. p[0] = head /\ p[k] = tail /\ s[0] = thisblock
    BY <2>1 DEF Places, Holds
  <2>3. QED
    BY <2>1, <2>2, PlacesGive
<1>2. \A n \in 1 .. k : n \in 0 .. k /\ n - 1 \in 0 .. k /\ n \in 1 .. MaxDeltas
  BY <1>1, SizesOf
<1>3. \A n \in 1 .. k : \E len \in Sizes : Kept(data, s[n - 1], s[n], p[n], p[n - 1], len)
  BY DEF Holds
<1>4. \A i \in 0 .. k : p[i] \in Words /\ p[i] - 1 \in Words
  BY <1>1, SizesOf DEF Words
<1>5. \A n \in 1 .. k : /\ IsLink(p[n]) /\ data[p[n]].to = p[n - 1]
                        /\ IsLink(p[n - 1] - 1) /\ data[p[n - 1] - 1].to = p[n]
  <2>1. SUFFICES ASSUME NEW n \in 1 .. k
                 PROVE  /\ IsLink(p[n]) /\ data[p[n]].to = p[n - 1]
                        /\ IsLink(p[n - 1] - 1) /\ data[p[n - 1] - 1].to = p[n]
    OBVIOUS
  <2>2. data[p[n]] = Link(p[n - 1]) /\ data[p[n - 1] - 1] = Link(p[n])
    BY <1>3 DEF Kept
  <2>3. \A a : Link(a).kind = "link" /\ Link(a).to = a
    BY DEF Link
  <2>4. QED
    BY <1>2, <1>4, <2>2, <2>3 DEF IsLink
<1>6. \A n \in 0 .. k : Start[n] = p[n]
  <2>1. Start[0] = p[0]
    BY <1>1, StartIs
  <2>2. ASSUME NEW n \in 1 .. k, Start[n - 1] = p[n - 1] PROVE Start[n] = p[n]
    BY <1>2, <1>5, <2>2, StartIs, Zenon DEF Back
  <2>3. k \in Nat
    BY <1>1
  <2>4. QED
    BY <2>1, <2>2, <2>3, Along
<1>7. ASSUME NEW n \in 1 .. k PROVE Decompress(p[n], s[n - 1]) = s[n]
  <2>1. PICK len \in Sizes : Kept(data, s[n - 1], s[n], p[n], p[n - 1], len)
    BY <1>3
  <2>2. len \in Nat /\ 1 <= len /\ len <= Delta
    BY SizesOf
  <2>3. p[n] \in Int /\ 1 <= p[n] /\ p[n] + MaxCompSize <= Capacity + 1
    BY <1>1, <1>2
  <2>4. \A w \in 1 .. len : p[n] + w \in 0 .. Capacity - 1
    BY <2>2, <2>3, SizesOf
  <2>5. (p[n] + 1) % Capacity = p[n] + 1
    <3>1. PICK c, q : c = Capacity /\ q = p[n] + 1
      OBVIOUS
    <3>2. c \in Nat /\ q \in 0 .. c - 1
      BY <2>2, <2>3, <3>1, SizesOf
    <3>3. q % c = q
      BY <3>2
    <3>4. QED
      BY <3>1, <3>3
  <2>6. data[p[n] + 1] = DeltaWord(s[n - 1], s[n], len)
    BY <2>1, <2>2 DEF Kept
  <2>7. /\ DeltaWord(s[n - 1], s[n], len).kind = "delta"
        /\ DeltaWord(s[n - 1], s[n], len).new = s[n - 1]
        /\ DeltaWord(s[n - 1], s[n], len).old = s[n]
        /\ DeltaWord(s[n - 1], s[n], len).len = len
    BY DEF DeltaWord
  <2>8. \A w \in 1 .. len : p[n] + w \in Words /\ data[p[n] + w] = DeltaWord(s[n - 1], s[n], len)
    BY <2>1, <2>4 DEF Kept, Words
  <2>9. QED
    BY <2>5, <2>6, <2>7, <2>8 DEF Decompress
<1>8. \A n \in 0 .. k : State[n] = s[n]
  <2>1. State[0] = s[0]
    BY <1>1, StateIs
  <2>2. ASSUME NEW n \in 1 .. k, State[n - 1] = s[n - 1] PROVE State[n] = s[n]
    BY <1>2, <1>6, <1>7, <2>2, StateIs
  <2>3. k \in Nat
    BY <1>1
  <2>4. QED
    BY <2>1, <2>2, <2>3, Along
<1>9. \A n \in 0 .. k : TailAfter[n] = p[k - n]
  <2> DEFINE q == [n \in 0 .. k |-> p[k - n]]
  <2>1. \A n \in 0 .. k : q[n] = p[k - n]
    OBVIOUS
  <2>2. k \in Nat /\ 0 \in 0 .. k /\ k - 0 = k
    BY <1>1
  <2>3. TailAfter[0] = q[0]
    BY <1>1, <2>1, <2>2, TailAfterIs
  <2>4. ASSUME NEW n \in 1 .. k, TailAfter[n - 1] = q[n - 1] PROVE TailAfter[n] = q[n]
    <3>1. /\ n \in 0 .. k /\ n - 1 \in 0 .. k /\ n \in 1 .. MaxDeltas
          /\ k - (n - 1) \in 1 .. k /\ k - (n - 1) - 1 = k - n
      BY <1>2, <2>2
    <3>2. IsLink(p[k - (n - 1)]) /\ data[p[k - (n - 1)]].to = p[k - n]
      BY <1>5, <3>1
    <3>3. QED
      BY <2>1, <2>4, <3>1, <3>2, TailAfterIs DEF Forth
  <2> HIDE DEF q
  <2>5. QED
    BY <2>1, <2>2, <2>3, <2>4, Along
<1>10. ReachesTail
  BY <1>1, <1>6 DEF ReachesTail
<1>11. Deltas = k
  <2>1. k \in {n \in 0 .. MaxDeltas : Start[n] = tail}
    BY <1>1, <1>6
  <2>2. \A y \in {n \in 0 .. MaxDeltas : Start[n] = tail} : k <= y
    BY <1>1, <1>6, SizesOf
  <2>3. QED
    BY <1>1, <2>1, <2>2, SizesOf DEF Deltas, Min
<1>12. QED
  BY <1>1, <1>6, <1>8, <1>9, <1>10, <1>11 DEF ReadsAs

\* What lies on which side of the head.
LEMMA LapsOf ==
    ASSUME NEW k, NEW p, NEW h, NEW t, Places(k, p, h, t), NEW i \in 0 .. k
    PROVE  /\ t <= h => p[i] <= h /\ t <= p[i]
           /\ t > h /\ p[i] > h => t <= p[i]
           /\ i # 0 => 0 \in 0 .. k /\ i - 1 \in 0 .. k
           /\ i # 0 /\ p[i] <= h => p[i] + 3 <= p[i - 1] /\ p[i - 1] <= h
<1>1. /\ k \in Nat /\ k \in 0 .. k /\ p[k] = t
      /\ h \in 1 .. Capacity - 1 /\ t \in 1 .. Capacity - 1 /\ Capacity \in Nat
      /\ \A j \in 0 .. k : p[j] \in Int /\ 1 <= p[j] /\ p[j] <= Capacity - 1
  <2>1. k \in 0 .. MaxDeltas /\ k \in Nat /\ p[k] = t
    BY PlacesGive DEF Places
  <2>2. \A j \in 0 .. k : p[j] \in Int /\ 1 <= p[j] /\ p[j] <= Capacity - 1
    BY PlacesGive, SizesOf
  <2>3. QED
    BY <2>1, <2>2, PlacesGive, SizesOf
<1>2. Lap(h, p[i]) - Lap(h, t) >= 3 * (k - i) /\ k - i >= 0
  BY <1>1 DEF Places
<1>3. i # 0 => i - 1 \in 0 .. k /\ Lap(h, p[i - 1]) - Lap(h, p[i]) >= 3 * (i - (i - 1))
  BY <1>1 DEF Places
<1>4. p[i] \in Int /\ 1 <= p[i] /\ p[i] <= Capacity - 1
  BY <1>1
<1>5. (t <= h => p[i] <= h /\ t <= p[i]) /\ (t > h /\ p[i] > h => t <= p[i])
  BY <1>1, <1>2, <1>4 DEF Lap
<1>6. i # 0 /\ p[i] <= h => p[i] + 3 <= p[i - 1] /\ p[i - 1] <= h
  <2>1. SUFFICES ASSUME i # 0, p[i] <= h PROVE p[i] + 3 <= p[i - 1] /\ p[i - 1] <= h
    OBVIOUS
  <2>2. p[i - 1] \in Int /\ 1 <= p[i - 1] /\ p[i - 1] <= Capacity - 1
    BY <1>1, <1>3, <2>1
  <2>3. Lap(h, p[i - 1]) - Lap(h, p[i]) >= 3
    BY <1>3, <2>1
  <2>4. QED
    BY <1>1, <1>4, <2>1, <2>2, <2>3 DEF Lap
<1>7. QED
  BY <1>1, <1>3, <1>5, <1>6

-----------------------------------------------------------------------------
(* Going back: the last delta is taken off the ring.                       *)
Behind(k, f) == [i \in 0 .. k - 1 |-> f[i + 1]]

\* The places left when the head goes back to the last delta.
LEMMA BackPlaces ==
    ASSUME NEW k, NEW p, NEW h, NEW t, Places(k, p, h, t), k # 0
    PROVE  Places(k - 1, Behind(k, p), p[1], t)
<1> DEFINE q == Behind(k, p)
<1>1. /\ k \in Nat /\ k - 1 \in Nat /\ 1 \in 0 .. k /\ k \in 0 .. k /\ p[0] = h /\ p[k] = t
      /\ h \in 1 .. Capacity - 1 /\ Capacity \in Nat
      /\ \A i \in 0 .. k - 1 : i + 1 \in 1 .. k /\ i + 1 \in 0 .. k
  <2>1. k \in Nat /\ p[0] = h /\ p[k] = t
    BY DEF Places
  <2>2. h \in 1 .. Capacity - 1 /\ Capacity \in Nat
    BY PlacesGive, SizesOf
  <2>3. /\ k - 1 \in Nat /\ 1 \in 0 .. k /\ k \in 0 .. k
        /\ \A i \in 0 .. k - 1 : i + 1 \in 1 .. k /\ i + 1 \in 0 .. k
    BY <2>1
  <2>4. QED
    BY <2>1, <2>2, <2>3
<1>2. \A i \in 0 .. k - 1 : q[i] = p[i + 1]
  BY DEF Behind
<1>3. q \in [0 .. k - 1 -> Words]
  BY <1>1 DEF Behind, Places
<1>4. q[0] = p[1] /\ q[k - 1] = t
  BY <1>1, <1>2
<1>5. \A i \in 0 .. k : /\ p[i] \in Int /\ 1 <= p[i] /\ p[i] <= Capacity - 1
                        /\ p[i] = 1 \/ p[i] >= 4
                        /\ p[i] + MaxCompSize <= Capacity + 1
                        /\ p[i] <= h \/ p[i] >= h + 2
  <2>1. SUFFICES ASSUME NEW i \in 0 .. k
                 PROVE  /\ p[i] \in Int /\ 1 <= p[i] /\ p[i] <= Capacity - 1
                        /\ p[i] = 1 \/ p[i] >= 4
                        /\ p[i] + MaxCompSize <= Capacity + 1
                        /\ p[i] <= h \/ p[i] >= h + 2
    OBVIOUS
  <2>2. /\ p[i] = 1 \/ p[i] >= 4
        /\ p[i] + MaxCompSize <= Capacity + 1
        /\ p[i] <= h \/ p[i] >= h + 2
    BY DEF Places
  <2>3. p[i] \in Int /\ 1 <= p[i] /\ p[i] + MaxCompSize <= Capacity + 1
    BY PlacesGive
  <2>4. p[i] <= Capacity - 1
    BY <2>3, SizesOf
  <2>5. QED
    BY <2>2, <2>3, <2>4
\* Seen from the place the head goes back to, the laps are what they were, or all
\* that is left is of one lap.
<1>6. \A i \in 1 .. k : /\ p[i] <= p[1] \/ p[i] >= p[1] + 2
                        /\ \/ Lap(p[1], p[i]) = Lap(h, p[i]) /\ p[1] <= h
                           \/ Lap(p[1], p[i]) = Lap(h, p[i]) + Capacity /\ p[1] > h
  <2>1. SUFFICES ASSUME NEW i \in 1 .. k
                 PROVE  /\ p[i] <= p[1] \/ p[i] >= p[1] + 2
                        /\ \/ Lap(p[1], p[i]) = Lap(h, p[i]) /\ p[1] <= h
                           \/ Lap(p[1], p[i]) = Lap(h, p[i]) + Capacity /\ p[1] > h
    OBVIOUS
  <2>2. Lap(h, p[1]) - Lap(h, p[i]) >= 3 * (i - 1) /\ i - 1 >= 0
    BY <1>1 DEF Places
  <2>3. /\ p[i] \in Int /\ 1 <= p[i] /\ p[i] <= Capacity - 1
        /\ p[1] \in Int /\ 1 <= p[1] /\ p[1] <= Capacity - 1
        /\ p[1] <= h \/ p[1] >= h + 2
        /\ p[i] <= h \/ p[i] >= h + 2
    BY <1>1, <1>5
  <2>4. QED
    BY <1>1, <2>2, <2>3 DEF Lap
<1>7. ASSUME NEW i \in 0 .. k - 1, NEW j \in 0 .. k - 1, i <= j
      PROVE  Lap(p[1], q[i]) - Lap(p[1], q[j]) >= 3 * (j - i)
  <2>1. Lap(h, p[i + 1]) - Lap(h, p[j + 1]) >= 3 * ((j + 1) - (i + 1))
    BY <1>1, <1>7 DEF Places
  <2>2. Lap(h, p[i + 1]) \in Int /\ Lap(h, p[j + 1]) \in Int
    BY <1>1, <1>5 DEF Lap
  <2>3. \A n \in {i, j} :
           \/ Lap(p[1], p[n + 1]) = Lap(h, p[n + 1]) /\ p[1] <= h
           \/ Lap(p[1], p[n + 1]) = Lap(h, p[n + 1]) + Capacity /\ p[1] > h
    BY <1>1, <1>6
  <2>4. p[1] \in Int
    BY <1>1, <1>5
  <2> HIDE DEF q
  <2>5. QED
    BY <1>1, <1>2, <2>1, <2>2, <2>3, <2>4
<1>8. \A i \in 0 .. k - 1 : /\ q[i] = 1 \/ q[i] >= 4
                            /\ q[i] + MaxCompSize <= Capacity + 1
                            /\ q[i] <= p[1] \/ q[i] >= p[1] + 2
  BY <1>1, <1>2, <1>5, <1>6
<1>9. QED
  BY <1>1, <1>3, <1>4, <1>7, <1>8 DEF Places

\* The deltas left lead on from the state the last one led to.
LEMMA BackHolds ==
    ASSUME NEW k \in Nat, NEW p, NEW s, NEW d, NEW b, Holds(k, p, s, d, b), k # 0
    PROVE  Holds(k - 1, Behind(k, p), Behind(k, s), d, s[1]) /\ s[1] \in Blocks
<1>1. /\ 1 \in 0 .. k /\ 0 \in 0 .. k - 1
      /\ \A i \in 0 .. k - 1 : i + 1 \in 0 .. k
      /\ \A i \in 1 .. k - 1 : /\ i + 1 \in 1 .. k /\ i - 1 \in 0 .. k - 1 /\ i \in 0 .. k - 1
                               /\ (i - 1) + 1 = i /\ (i + 1) - 1 = i
  OBVIOUS
<1>2. s \in [0 .. k -> Blocks]
  BY DEF Holds
<1>3. \A i \in 1 .. k - 1 : \E len \in Sizes : Kept(d, s[i], s[i + 1], p[i + 1], p[i], len)
  <2>1. SUFFICES ASSUME NEW i \in 1 .. k - 1
                 PROVE  \E len \in Sizes : Kept(d, s[i], s[i + 1], p[i + 1], p[i], len)
    OBVIOUS
  <2>2. \E len \in Sizes : Kept(d, s[(i + 1) - 1], s[i + 1], p[i + 1], p[(i + 1) - 1], len)
    BY <1>1, Zenon DEF Holds
  <2>3. (i + 1) - 1 = i
    OBVIOUS
  <2>4. QED
    BY <2>2, <2>3, Zenon
<1>4. \A f : \A i \in 0 .. k - 1 : Behind(k, f)[i] = f[i + 1]
  BY DEF Behind
<1>5. Behind(k, s) \in [0 .. k - 1 -> Blocks] /\ Behind(k, s)[0] = s[1]
  BY <1>1, <1>2 DEF Behind
<1>6. \A i \in 1 .. k - 1 :
         /\ Behind(k, s)[i - 1] = s[i] /\ Behind(k, s)[i] = s[i + 1]
         /\ Behind(k, p)[i - 1] = p[i] /\ Behind(k, p)[i] = p[i + 1]
  BY <1>1, <1>4
<1>7. QED
  BY <1>1, <1>2, <1>3, <1>5, <1>6 DEF Holds

-----------------------------------------------------------------------------
(* Giving up the oldest deltas.                                            *)
UpTo(m, f) == [i \in 0 .. m |-> f[i]]

\* The places left when the tail is moved on to one of them.
LEMMA ForgetPlaces ==
    ASSUME NEW k, NEW p, NEW h, NEW t, Places(k, p, h, t), NEW m \in 0 .. k
    PROVE  Places(m, UpTo(m, p), h, p[m])
<1>1. /\ k \in Nat /\ m \in Nat /\ 0 \in 0 .. m /\ m \in 0 .. m
      /\ \A i \in 0 .. m : i \in 0 .. k /\ UpTo(m, p)[i] = p[i]
  BY DEF Places, UpTo
<1>2. UpTo(m, p) \in [0 .. m -> Words]
  BY <1>1 DEF Places, UpTo
<1>3. QED
  BY <1>1, <1>2 DEF Places

\* The deltas left are the ones there were.
LEMMA ForgetHolds ==
    ASSUME NEW k \in Nat, NEW p, NEW s, NEW d, NEW b, Holds(k, p, s, d, b), NEW m \in 0 .. k
    PROVE  Holds(m, UpTo(m, p), UpTo(m, s), d, b)
<1>1. /\ 0 \in 0 .. m
      /\ \A i \in 0 .. m : i \in 0 .. k /\ UpTo(m, p)[i] = p[i] /\ UpTo(m, s)[i] = s[i]
      /\ \A i \in 1 .. m : i \in 1 .. k /\ i \in 0 .. m /\ i - 1 \in 0 .. m
  BY DEF UpTo
<1>2. UpTo(m, s) \in [0 .. m -> Blocks]
  BY <1>1 DEF Holds, UpTo
<1>3. QED
  BY <1>1, <1>2 DEF Holds

\* There is room for a delta of the greatest size between head and tail.
Room(h, t) == (IF t <= h THEN Capacity - 1 - (h - t) ELSE t - h - 1) > MaxCompSize

\* Where the link behind a delta put at h is.
LinkAt(h, len) == IF Wraps(h + 1 + len) THEN 0 ELSE h + 1 + len

\* The ring's memory after a delta was put at h.
Written(d, h, len, new, old) ==
    [a \in Words |-> IF a = h THEN Link(LinkAt(h, len) + 1)
                     ELSE IF a \in h + 1 .. h + len THEN DeltaWord(new, old, len)
                     ELSE IF a = LinkAt(h, len) THEN Link(h)
                     ELSE d[a]]

\* x in front of the k + 1 values of f.
Onto(k, x, f) == [i \in 0 .. k + 1 |-> IF i = 0 THEN x ELSE f[i - 1]]

\* Going back to the start happens only in a ring of one lap, and behind the start.
LEMMA WrapsInOneLap ==
    ASSUME NEW k, NEW p, NEW h, NEW t, Places(k, p, h, t), Room(h, t),
           NEW len \in Sizes, TwoDeltas
    PROVE  /\ h \in Int /\ 1 <= h /\ h + MaxCompSize <= Capacity + 1
           /\ t > h => t >= h + MaxCompSize + 2
           /\ Wraps(h + 1 + len) => t <= h /\ h >= 4
<1>1. /\ h \in 1 .. Capacity - 1 /\ t \in 1 .. Capacity - 1
      /\ h + MaxCompSize <= Capacity + 1 /\ t + MaxCompSize <= Capacity + 1
      /\ h = 1 \/ h >= 4
  <2>1. k \in Nat /\ p[0] = h /\ p[k] = t /\ 0 \in 0 .. k /\ k \in 0 .. k
    BY DEF Places
  <2>2. h + MaxCompSize <= Capacity + 1 /\ t + MaxCompSize <= Capacity + 1
    BY <2>1, PlacesGive
  <2>3. h = 1 \/ h >= 4
    BY <2>1 DEF Places
  <2>4. QED
    BY <2>2, <2>3, PlacesGive
<1>2. len \in Nat /\ 1 <= len /\ len <= Delta /\ Delta \in Nat /\ MaxCompSize = Delta + 2
      /\ Capacity \in Nat
  BY SizesOf
<1>3. t > h => t >= h + MaxCompSize + 2
  BY <1>1, <1>2 DEF Room
<1>4. Wraps(h + 1 + len) => t <= h /\ h >= 4
  BY <1>1, <1>2, <1>3 DEF Wraps, TwoDeltas
<1>5. QED
  BY <1>1, <1>3, <1>4

\* The place behind a delta that is put at the head is a place for the next one.
LEMMA PushPlaces ==
    ASSUME NEW k, NEW p, NEW h, NEW t, Places(k, p, h, t), Room(h, t),
           NEW len \in Sizes, TwoDeltas, Wraps(h + 1 + len) => t # 1
    PROVE  Places(k + 1, Onto(k, LinkAt(h, len) + 1, p), LinkAt(h, len) + 1, t)
<1> DEFINE n == LinkAt(h, len) + 1
           q == Onto(k, n, p)
<1>1. /\ k \in Nat /\ 0 \in 0 .. k /\ k \in 0 .. k /\ p[0] = h /\ p[k] = t
      /\ \A i \in 1 .. k + 1 : i - 1 \in 0 .. k /\ i # 0
  BY DEF Places
<1>2. /\ len \in Nat /\ 1 <= len /\ len <= Delta /\ Delta \in Nat /\ MaxCompSize = Delta + 2
      /\ Capacity \in Nat
  BY SizesOf
<1>3. h \in 1 .. Capacity - 1 /\ t \in 1 .. Capacity - 1
  BY PlacesGive
<1>4. /\ h + MaxCompSize <= Capacity + 1
      /\ t > h => t >= h + MaxCompSize + 2
      /\ Wraps(h + 1 + len) => t <= h /\ h >= 4
  BY WrapsInOneLap
<1>5. /\ n \in Nat
      /\ \/ ~Wraps(h + 1 + len) /\ n = h + len + 2 /\ n + MaxCompSize <= Capacity + 1
         \/ Wraps(h + 1 + len) /\ n = 1 /\ t <= h /\ t # 1
  BY <1>2, <1>3, <1>4 DEF LinkAt, Wraps
<1>6. n \in Words /\ n + MaxCompSize <= Capacity + 1 /\ (n = 1 \/ n >= 4)
  BY <1>2, <1>3, <1>5, SizesOf DEF Words
<1>7. q[0] = n /\ \A i \in 1 .. k + 1 : q[i] = p[i - 1]
  <2> HIDE DEF n
  <2>1. QED
    BY <1>1 DEF Onto
<1>8. q \in [0 .. k + 1 -> Words]
  <2>1. \A i \in 0 .. k : p[i] \in Words
    BY DEF Places
  <2>2. \A i \in 0 .. k + 1 : (IF i = 0 THEN n ELSE p[i - 1]) \in Words
    <3> HIDE DEF n
    <3>1. QED
      BY <1>1, <1>6, <2>1
  <2> HIDE DEF n
  <2>3. QED
    BY <2>2 DEF Onto
<1>9. q[k + 1] = t
  <2>1. k + 1 \in 1 .. k + 1 /\ (k + 1) - 1 = k
    BY <1>1
  <2> HIDE DEF q
  <2>2. QED
    BY <1>1, <1>7, <2>1
<1> HIDE DEF n, q
<1>10. ASSUME NEW i \in 0 .. k
       PROVE  /\ p[i] \in Int /\ 1 <= p[i] /\ p[i] <= Capacity - 1
              /\ p[i] = 1 \/ p[i] >= 4
              /\ p[i] + MaxCompSize <= Capacity + 1
              /\ p[i] <= n \/ p[i] >= n + 2
              /\ \/ n = h + len + 2 /\ Lap(n, p[i]) = Lap(h, p[i])
                 \/ n = 1 /\ p[i] <= h /\ Lap(n, p[i]) = p[i]
  <2>1. /\ p[i] = 1 \/ p[i] >= 4
        /\ p[i] + MaxCompSize <= Capacity + 1
        /\ p[i] <= h \/ p[i] >= h + 2
    BY DEF Places
  <2>2. p[i] \in Int /\ 1 <= p[i] /\ p[i] <= Capacity - 1
    BY <1>2, <2>1, PlacesGive
  <2>3. (t <= h => p[i] <= h /\ t <= p[i]) /\ (t > h /\ p[i] > h => t <= p[i])
    BY LapsOf
  <2>4. CASE n = h + len + 2 /\ ~Wraps(h + 1 + len)
    BY <1>2, <1>3, <1>4, <2>1, <2>2, <2>3, <2>4 DEF Lap
  <2>5. CASE Wraps(h + 1 + len) /\ n = 1 /\ t <= h /\ t # 1
    BY <1>2, <1>3, <2>1, <2>2, <2>3, <2>5 DEF Lap
  <2>6. QED
    BY <1>5, <2>4, <2>5, <2>1, <2>2
<1>11. \A i, j \in 0 .. k : /\ i <= j => Lap(h, p[i]) - Lap(h, p[j]) >= 3 * (j - i)
                            /\ Lap(h, p[i]) \in Int /\ Lap(h, p[j]) \in Int
  <2>1. \A i \in 0 .. k : Lap(h, p[i]) \in Int
    BY <1>2, <1>3, <1>10 DEF Lap
  <2>2. QED
    BY <2>1 DEF Places
<1>12. ASSUME NEW i \in 0 .. k + 1, NEW j \in 0 .. k + 1, i <= j
       PROVE  Lap(n, q[i]) - Lap(n, q[j]) >= 3 * (j - i)
  <2>1. CASE j = 0
    BY <1>2, <1>5, <1>7, <1>12, <2>1 DEF Lap
  <2>2. CASE i = 0 /\ j # 0
    <3>1. j - 1 \in 0 .. k /\ q[j] = p[j - 1] /\ q[i] = n
      BY <1>1, <1>7, <2>2
    <3>2. Lap(h, p[0]) - Lap(h, p[j - 1]) >= 3 * ((j - 1) - 0) /\ Lap(h, p[j - 1]) \in Int
      BY <1>1, <1>11, <3>1
    <3>3. Lap(h, p[0]) = h + Capacity /\ Lap(n, n) = n + Capacity
      BY <1>1, <1>2, <1>3, <1>5 DEF Lap
    <3>4. p[j - 1] \in Int
      BY <1>10, <3>1
    <3>5. \/ n = h + len + 2 /\ Lap(n, p[j - 1]) = Lap(h, p[j - 1])
          \/ n = 1 /\ p[j - 1] <= h /\ Lap(n, p[j - 1]) = p[j - 1]
      BY <1>10, <3>1
    <3>6. n = 1 => h + 3 <= Capacity + 1 - Delta + 1
      BY <1>2, <1>3, <1>4
    <3>7. CASE n = h + len + 2 /\ Lap(n, p[j - 1]) = Lap(h, p[j - 1])
      BY <1>1, <1>2, <1>3, <2>2, <3>1, <3>2, <3>3, <3>7
    <3>8. CASE n = 1 /\ p[j - 1] <= h /\ Lap(n, p[j - 1]) = p[j - 1]
      <4>1. Lap(h, p[j - 1]) = p[j - 1] + Capacity
        BY <3>8 DEF Lap
      <4>2. p[j - 1] <= h - 3 * (j - 1)
        BY <1>1, <1>2, <1>3, <2>2, <3>2, <3>3, <3>4, <4>1
      <4>3. Delta >= 1
        BY <1>2
      <4>4. n + Capacity - p[j - 1] >= 3 * (j - 0)
        BY <1>1, <1>2, <1>3, <1>4, <2>2, <3>4, <3>8, <4>2, <4>3
      <4>5. Lap(n, q[i]) = n + Capacity /\ Lap(n, q[j]) = p[j - 1]
        BY <3>1, <3>3, <3>8, Zenon
      <4>6. QED
        BY <1>1, <1>2, <1>5, <2>2, <3>4, <4>4, <4>5
    <3>9. QED
      BY <3>5, <3>7, <3>8
  <2>3. CASE i # 0
    <3>1. i - 1 \in 0 .. k /\ j - 1 \in 0 .. k /\ q[i] = p[i - 1] /\ q[j] = p[j - 1]
      BY <1>1, <1>7, <1>12, <2>3
    <3>2. /\ Lap(h, p[i - 1]) - Lap(h, p[j - 1]) >= 3 * ((j - 1) - (i - 1))
          /\ Lap(h, p[i - 1]) \in Int /\ Lap(h, p[j - 1]) \in Int
      BY <1>11, <1>12, <3>1
    <3>3. /\ p[i - 1] \in Int /\ p[j - 1] \in Int
          /\ \/ n = h + len + 2 /\ Lap(n, p[i - 1]) = Lap(h, p[i - 1])
             \/ n = 1 /\ p[i - 1] <= h /\ Lap(n, p[i - 1]) = p[i - 1]
          /\ \/ n = h + len + 2 /\ Lap(n, p[j - 1]) = Lap(h, p[j - 1])
             \/ n = 1 /\ p[j - 1] <= h /\ Lap(n, p[j - 1]) = p[j - 1]
      BY <1>10, <3>1
    <3>4. p[i - 1] <= h => Lap(h, p[i - 1]) = p[i - 1] + Capacity
      BY DEF Lap
    <3>5. p[j - 1] <= h => Lap(h, p[j - 1]) = p[j - 1] + Capacity
      BY DEF Lap
    <3>6. QED
      BY <1>2, <1>3, <3>1, <3>2, <3>3, <3>4, <3>5
  <2>4. QED
    BY <2>1, <2>2, <2>3
<1>13. ASSUME NEW i \in 0 .. k + 1
       PROVE  /\ q[i] = 1 \/ q[i] >= 4
              /\ q[i] + MaxCompSize <= Capacity + 1
              /\ q[i] <= n \/ q[i] >= n + 2
  <2>1. CASE i = 0
    BY <1>5, <1>6, <1>7, <2>1
  <2>2. CASE i # 0
    <3>1. i - 1 \in 0 .. k /\ q[i] = p[i - 1]
      BY <1>1, <1>7, <2>2
    <3>2. QED
      BY <1>10, <3>1
  <2>3. QED
    BY <2>1, <2>2
<1>14. Places(k + 1, q, n, t)
  <2>1. k + 1 \in Nat
    BY <1>1
  <2>2. QED
    BY <1>7, <1>8, <1>9, <1>12, <1>13, <2>1 DEF Places
<1>15. QED
  BY <1>14 DEF n, q

\* Nothing is written where a delta of the ring lies.
LEMMA Untouched ==
    ASSUME NEW k, NEW p, NEW h, NEW t, Places(k, p, h, t), Room(h, t),
           NEW len \in Sizes, TwoDeltas,
           NEW i \in 1 .. k, NEW l \in Sizes,
           \/ p[i - 1] = p[i] + l + 2
           \/ p[i - 1] = 1 /\ p[i] + 1 + l + MaxCompSize > Capacity,
           NEW a, a \in p[i] .. p[i] + l \/ a = p[i - 1] - 1
    PROVE  a \in Words /\ a \notin h .. h + len /\ a # LinkAt(h, len)
<1>1. /\ len \in Nat /\ 1 <= len /\ len <= Delta /\ Delta \in Nat /\ MaxCompSize = Delta + 2
      /\ Capacity \in Nat /\ l \in Nat /\ 1 <= l /\ l <= Delta
  BY SizesOf
<1>2. h \in 1 .. Capacity - 1 /\ t \in 1 .. Capacity - 1
  BY PlacesGive
<1>3. /\ h + MaxCompSize <= Capacity + 1
      /\ t > h => t >= h + MaxCompSize + 2
      /\ Wraps(h + 1 + len) => t <= h /\ h >= 4
  BY WrapsInOneLap
<1>4. i \in 0 .. k /\ i # 0 /\ i - 1 \in 0 .. k
  BY DEF Places
<1>5. /\ p[i] \in Int /\ 1 <= p[i] /\ p[i] + MaxCompSize <= Capacity + 1
      /\ p[i - 1] \in Int /\ 1 <= p[i - 1] /\ p[i - 1] + MaxCompSize <= Capacity + 1
  BY <1>4, PlacesGive
<1>6. /\ t <= h => p[i] <= h /\ t <= p[i]
      /\ t > h /\ p[i] > h => t <= p[i]
      /\ p[i] <= h => p[i] + 3 <= p[i - 1] /\ p[i - 1] <= h
  BY <1>4, LapsOf
<1>7. /\ a \in Int
      /\ \/ p[i] <= a /\ a <= p[i] + l
         \/ a = p[i] + l + 1
         \/ a = 0 /\ p[i - 1] = 1
  <2>1. PICK x, y : x = p[i] /\ y = p[i - 1]
    OBVIOUS
  <2>2. x \in Int /\ y \in Int /\ (y = x + l + 2 \/ y = 1) /\ (a \in x .. x + l \/ a = y - 1)
    BY <1>5, <2>1
  <2>3. /\ a \in Int
        /\ \/ x <= a /\ a <= x + l
           \/ a = x + l + 1
           \/ a = 0 /\ y = 1
    BY <1>1, <2>2
  <2>4. QED
    BY <2>1, <2>3
<1>8. /\ LinkAt(h, len) \in Int
      /\ \/ LinkAt(h, len) = 0 /\ Wraps(h + 1 + len)
         \/ LinkAt(h, len) = h + 1 + len /\ ~Wraps(h + 1 + len)
  <2>1. h + 1 + len \in Int
    BY <1>1, <1>2
  <2>2. CASE Wraps(h + 1 + len)
    <3>1. LinkAt(h, len) = 0
      BY <2>2, Zenon DEF LinkAt
    <3>2. QED
      BY <2>2, <3>1
  <2>3. CASE ~Wraps(h + 1 + len)
    <3>1. LinkAt(h, len) = h + 1 + len
      BY <2>3, Zenon DEF LinkAt
    <3>2. QED
      BY <2>1, <2>3, <3>1
  <2>4. QED
    BY <2>2, <2>3
<1>9. CASE p[i] <= h
  <2>1. p[i - 1] = p[i] + l + 2 /\ p[i - 1] <= h
    BY <1>1, <1>5, <1>6, <1>9
  <2>2. 1 <= a /\ a < h
    BY <1>1, <1>2, <1>5, <2>1
  <2>3. QED
    BY <1>1, <1>2, <1>7, <1>8, <2>2 DEF Words
<1>10. CASE p[i] > h
  <2>1. t > h /\ t <= p[i] /\ t >= h + MaxCompSize + 2
    BY <1>2, <1>3, <1>5, <1>6, <1>10
  <2>2. ~Wraps(h + 1 + len)
    BY <1>2, <1>3, <2>1
  <2>3. a = 0 \/ a >= h + len + 2
    BY <1>1, <1>2, <1>5, <1>7, <2>1
  <2>4. a <= Capacity - 1
    BY <1>1, <1>2, <1>5, <1>7
  <2>5. QED
    BY <1>1, <1>2, <1>7, <1>8, <2>2, <2>3, <2>4 DEF Words
<1>11. QED
  BY <1>2, <1>5, <1>9, <1>10

\* A delta is put on top of the ones there are, which stay what they were.
LEMMA PushHolds ==
    ASSUME NEW k, NEW p, NEW h, NEW t, Places(k, p, h, t), Room(h, t),
           NEW len \in Sizes, TwoDeltas,
           NEW s, NEW d, NEW b, Holds(k, p, s, d, b), NEW new \in Blocks
    PROVE  Holds(k + 1, Onto(k, LinkAt(h, len) + 1, p), Onto(k, new, s),
                 Written(d, h, len, new, b), new)
<1> DEFINE n == LinkAt(h, len) + 1
           e == Written(d, h, len, new, b)
           q == Onto(k, n, p)
           r == Onto(k, new, s)
<1>1. /\ k \in Nat /\ 0 \in 0 .. k /\ p[0] = h /\ s[0] = b /\ s \in [0 .. k -> Blocks]
      /\ \A i \in 1 .. k + 1 : i - 1 \in 0 .. k /\ i \in 0 .. k + 1 /\ i # 0
      /\ 0 \in 0 .. k + 1
  BY DEF Places, Holds
<1>2. /\ len \in Nat /\ 1 <= len /\ len <= Delta /\ Delta \in Nat /\ MaxCompSize = Delta + 2
      /\ Capacity \in Nat
  BY SizesOf
<1>3. /\ h \in 1 .. Capacity - 1 /\ h + MaxCompSize <= Capacity + 1
      /\ Wraps(h + 1 + len) => t <= h /\ h >= 4
  BY PlacesGive, WrapsInOneLap
<1>4. \A f, x : Onto(k, x, f)[0] = x /\ \A i \in 1 .. k + 1 : Onto(k, x, f)[i] = f[i - 1]
  BY <1>1 DEF Onto
<1>5. q[0] = n /\ r[0] = new /\ \A i \in 1 .. k + 1 : q[i] = p[i - 1] /\ r[i] = s[i - 1]
  BY <1>4
<1>6. r \in [0 .. k + 1 -> Blocks]
  <2>1. \A i \in 0 .. k + 1 : (IF i = 0 THEN new ELSE s[i - 1]) \in Blocks
    BY <1>1
  <2>2. QED
    BY <2>1 DEF Onto
<1>7. Kept(e, new, b, h, n, len)
  <2>1. /\ LinkAt(h, len) \in Words /\ LinkAt(h, len) # h /\ LinkAt(h, len) \notin h + 1 .. h + len
        /\ n = LinkAt(h, len) + 1 /\ n - 1 = LinkAt(h, len)
        /\ h \in Words /\ h \notin h + 1 .. h + len
        /\ \/ n = h + len + 2
           \/ n = 1 /\ h + 1 + len + MaxCompSize > Capacity
    BY <1>2, <1>3 DEF LinkAt, Wraps, Words
  <2>2. e[h] = Link(LinkAt(h, len) + 1)
    BY <2>1 DEF Written
  <2>3. e[LinkAt(h, len)] = Link(h)
    BY <2>1 DEF Written
  <2>4. \A w \in 1 .. len : e[h + w] = DeltaWord(new, b, len)
    <3>1. SUFFICES ASSUME NEW w \in 1 .. len PROVE e[h + w] = DeltaWord(new, b, len)
      OBVIOUS
    <3>2. h + w \in Words /\ h + w # h /\ h + w \in h + 1 .. h + len
      BY <1>2, <1>3 DEF Words
    <3>3. QED
      BY <3>2 DEF Written
  <2> HIDE DEF e, n
  <2>5. QED
    BY <2>1, <2>2, <2>3, <2>4 DEF Kept, n
<1>8. ASSUME NEW i \in 1 .. k, NEW l \in Sizes, Kept(d, s[i - 1], s[i], p[i], p[i - 1], l)
      PROVE  Kept(e, s[i - 1], s[i], p[i], p[i - 1], l)
  <2>1. \/ p[i - 1] = p[i] + l + 2
        \/ p[i - 1] = 1 /\ p[i] + 1 + l + MaxCompSize > Capacity
    BY <1>8 DEF Kept
  <2>2. l \in Nat /\ 1 <= l
    BY SizesOf
  <2>3. i \in 0 .. k /\ i - 1 \in 0 .. k /\ p[i] \in Int /\ p[i - 1] \in Int
    <3>1. i \in 0 .. k /\ i - 1 \in 0 .. k
      BY <1>1
    <3>2. QED
      BY <3>1, PlacesGive
  <2>4. ASSUME NEW a, a \in p[i] .. p[i] + l \/ a = p[i - 1] - 1
        PROVE  e[a] = d[a]
    <3>1. a \in Words /\ a \notin h .. h + len /\ a # LinkAt(h, len)
      BY <2>1, <2>4, Untouched
    <3>2. a # h /\ a \notin h + 1 .. h + len
      BY <1>2, <1>3, <3>1
    <3>3. QED
      BY <3>1, <3>2 DEF Written
  <2>5. e[p[i]] = d[p[i]] /\ e[p[i - 1] - 1] = d[p[i - 1] - 1]
    <3>1. p[i] \in p[i] .. p[i] + l
      BY <2>2, <2>3
    <3> HIDE DEF e
    <3>2. QED
      BY <2>4, <3>1
  <2>6. \A w \in 1 .. l : e[p[i] + w] = d[p[i] + w]
    <3>1. \A w \in 1 .. l : p[i] + w \in p[i] .. p[i] + l
      BY <2>2, <2>3
    <3> HIDE DEF e
    <3>2. QED
      BY <2>4, <3>1
  <2> HIDE DEF e
  <2>7. QED
    BY <1>8, <2>5, <2>6 DEF Kept
<1> HIDE DEF e, n, q, r
<1>9. ASSUME NEW i \in 1 .. k + 1
      PROVE  \E l \in Sizes : Kept(e, r[i - 1], r[i], q[i], q[i - 1], l)
  <2>1. CASE i = 1
    <3>1. r[1] = b /\ q[1] = h /\ r[0] = new /\ q[0] = n
      BY <1>1, <1>5
    <3>2. i - 1 = 0
      BY <2>1
    <3>3. QED
      BY <1>7, <2>1, <3>1, <3>2
  <2>2. CASE i # 1
    <3>1. /\ i - 1 \in 1 .. k /\ i - 1 \in 1 .. k + 1
          /\ r[i] = s[i - 1] /\ q[i] = p[i - 1]
          /\ r[i - 1] = s[(i - 1) - 1] /\ q[i - 1] = p[(i - 1) - 1]
      BY <1>1, <1>5, <2>2
    <3>2. PICK l \in Sizes : Kept(d, s[(i - 1) - 1], s[i - 1], p[i - 1], p[(i - 1) - 1], l)
      BY <3>1, Zenon DEF Holds
    <3>3. Kept(e, s[(i - 1) - 1], s[i - 1], p[i - 1], p[(i - 1) - 1], l)
      BY <1>8, <3>1, <3>2
    <3>4. QED
      BY <3>1, <3>3
  <2>3. QED
    BY <2>1, <2>2
<1>10. Holds(k + 1, q, r, e, new)
  BY <1>5, <1>6, <1>9 DEF Holds
<1>11. QED
  BY <1>10 DEF e, n, q, r

-----------------------------------------------------------------------------
(* The invariant.                                                          *)

\* A whole copy counts as one state.
One(b) == IF b THEN 1 ELSE 0

\* rewind.c's count of the entries is not below what there is: it misses what
\* going back to the start cuts off.
Counts(k) ==
    /\ entries \in Int /\ pushed \in 0 .. Pushes
    /\ k + One(valid) <= entries
    /\ entries + One(pushing) <= pushed

\* Only a ring that holds no delta may do without a whole copy while a state is
\* being pushed.
Whole(k) ==
    /\ nextblock \in Blocks /\ valid \in BOOLEAN /\ pushing \in BOOLEAN
    /\ pushing => nextblock \in States
    /\ pushing /\ ~valid => k = 0

\* What goes with the k deltas.
Tally(k) == Counts(k) /\ Whole(k)

\* One of a Boolean, for provers that take no Boolean for a term.
LEMMA OneIs ==
    /\ One(TRUE) = 1 /\ One(FALSE) = 0
    /\ \A b : One(b) \in {0, 1} /\ (b => One(b) = 1) /\ (~b => One(b) = 0)
  BY DEF One

(* There are places and states that the ring holds.                        *)
RewindInv == \E k, p, s : Ring(k, p, s) /\ Tally(k)

\* What a push gives up at the tail, and that it has to.
LEMMA DiscardedIs ==
    ASSUME NEW k, NEW p, NEW s, Ring(k, p, s)
    PROVE  /\ RoomCanBeMade /\ Discarded \in 0 .. k
           /\ TailAfter[Discarded] = p[k - Discarded]
           /\ Room(head, p[k - Discarded])
           /\ Discarded # 0 => ~Room(head, p[k - Discarded + 1])
<1>1. Places(k, p, head, tail) /\ ReadsAs(k, p, s)
  BY RingReadsBack DEF ReadsBack, Ring
<1>2. /\ k \in 0 .. MaxDeltas /\ k \in Nat /\ MaxDeltas \in Nat /\ p[0] = head
      /\ \A n \in 0 .. k : n \in 0 .. MaxDeltas /\ k - n \in 0 .. k /\ TailAfter[n] = p[k - n]
  BY <1>1, SizesOf DEF ReadsAs, Places
<1>3. ASSUME NEW n \in 0 .. k PROVE EnoughFor(n) <=> Room(head, p[k - n])
  <2>1. PICK i \in 0 .. k : i = k - n
    BY <1>2
  <2>2. Remaining(p[i]) = IF p[i] <= head THEN Capacity - 1 - (head - p[i])
                          ELSE p[i] - head - 1
    BY <1>1, RemainingOf
  <2>3. p[i] \in Int /\ 1 <= p[i] /\ head \in Int /\ Capacity \in Nat /\ MaxCompSize \in Int
    BY <1>1, PlacesGive, SizesOf
  <2>4. TailAfter[n] = p[i]
    BY <1>2, <2>1
  <2>5. EnoughFor(n) <=> Remaining(p[i]) > MaxCompSize
    BY <2>2, <2>3, <2>4 DEF EnoughFor, Close
  <2>6. QED
    BY <2>1, <2>2, <2>5 DEF Room
<1>4. Room(head, p[k - k])
  <2>1. k - k = 0 /\ head \in 1 .. Capacity - 1 /\ Capacity > 1 + MaxCompSize
        /\ Capacity \in Nat /\ MaxCompSize \in Int
    BY <1>1, <1>2, PlacesGive, SizesOf
  <2>2. QED
    BY <1>2, <2>1 DEF Room
<1> DEFINE T == {n \in 0 .. MaxDeltas : EnoughFor(n)}
<1>5. k \in T
  BY <1>2, <1>3, <1>4
<1>6. T \in SUBSET Nat
  BY <1>2
<1>7. \E x \in T : \A y \in T : x <= y
  <2> HIDE DEF T
  <2>1. QED
    BY <1>5, <1>6, Least
<1>8. Discarded \in T /\ \A y \in T : Discarded <= y
  BY <1>7 DEF Discarded, Min
<1>9. Discarded \in 0 .. k
  BY <1>2, <1>5, <1>8
<1>10. Discarded # 0 => ~Room(head, p[k - Discarded + 1])
  <2>1. SUFFICES ASSUME Discarded # 0, Room(head, p[k - Discarded + 1]) PROVE FALSE
    OBVIOUS
  <2>2. PICK n \in 0 .. k : n = Discarded - 1
    BY <1>2, <1>9, <2>1
  <2>3. k - n = k - Discarded + 1
    BY <1>2, <1>9, <2>2
  <2>4. n \in T
    BY <1>2, <1>3, <2>1, <2>3
  <2>5. n < Discarded
    BY <1>9, <2>2
  <2>6. QED
    BY <1>8, <1>9, <2>2, <2>4, <2>5
<1>11. Room(head, p[k - Discarded])
  BY <1>3, <1>8, <1>9
<1>12. QED
  BY <1>2, <1>5, <1>9, <1>10, <1>11 DEF RoomCanBeMade

\* The ring holds nothing at first.
LEMMA InitKeeps == Init => RewindInv
<1> SUFFICES ASSUME Init PROVE RewindInv
  OBVIOUS
<1> DEFINE p == [i \in 0 .. 0 |-> 1]
           s == [i \in 0 .. 0 |-> Zero]
<1>1. head = 1 /\ tail = 1 /\ thisblock = Zero /\ nextblock = Zero
  BY DEF Init
<1>2. Places(0, p, 1, 1)
  <2>1. 1 \in Words /\ 1 + MaxCompSize <= Capacity + 1
    BY SizesOf DEF Words
  <2>2. Lap(1, 1) - Lap(1, 1) >= 3 * (0 - 0)
    BY SizesOf DEF Lap
  <2>3. \A i \in 0 .. 0 : i = 0 /\ p[i] = 1
    OBVIOUS
  <2>4. p \in [0 .. 0 -> Words] /\ 0 \in 0 .. 0
    BY <2>1
  <2> HIDE DEF p
  <2>5. QED
    BY <2>1, <2>2, <2>3, <2>4 DEF Places
<1>3. Holds(0, p, s, data, Zero)
  BY DEF Holds, Blocks
<1>4. Tally(0)
  <2>1. Counts(0)
    <3>1. entries = 0 /\ pushed = 0 /\ One(valid) = 0 /\ One(pushing) = 0
      BY OneIs, Zenon DEF Init
    <3>2. QED
      BY <3>1, RewindAssumption DEF Counts
  <2>2. Whole(0)
    BY DEF Whole, Init, Blocks
  <2>3. QED
    BY <2>1, <2>2 DEF Tally
<1>5. QED
  BY <1>1, <1>2, <1>3, <1>4 DEF RewindInv, Ring

\* state_manager_pop finds the last delta.
LEMMA PopDeltaGoesBack ==
    ASSUME NEW k, NEW p, NEW s, Ring(k, p, s), PopDelta, UNCHANGED <<data, tail>>
    PROVE  /\ k \in Nat /\ k # 0 /\ thisblock' = s[1]
           /\ Ring(k - 1, Behind(k, p), Behind(k, s))'
<1>1. /\ Places(k, p, head, tail) /\ Holds(k, p, s, data, thisblock)
      /\ k \in Nat /\ p[0] = head /\ p[k] = tail
  BY DEF Ring, Places
<1>2. k # 0
  BY <1>1 DEF PopDelta
<1>3. ReadsAs(k, p, s)
  BY RingReadsBack DEF ReadsBack
<1>4. 1 \in 0 .. k /\ 1 - 1 = 0 /\ 1 \in 1 .. MaxDeltas /\ 0 \in 0 .. k
  BY <1>1, <1>2, <1>3, SizesOf DEF ReadsAs
<1>5. /\ Start[1] = p[1] /\ State[1] = s[1] /\ State[0] = s[0] /\ Start[0] = p[0]
      /\ Start[1] = Back(Start[1 - 1]) /\ State[1] = Decompress(Start[1], State[1 - 1])
  BY <1>3, <1>4, StartIs, StateIs DEF ReadsAs
<1>6. p[1] \in Int /\ 1 <= p[1] /\ s[0] = thisblock
  BY <1>1, <1>4, PlacesGive DEF Holds
<1>7. IsLink(head - 1) /\ data[head - 1].to = p[1]
  BY <1>1, <1>4, <1>5, <1>6 DEF Back
<1>8. Linked(head - 1) = {p[1]}
  BY <1>7 DEF Linked
<1>9. head' = p[1] /\ thisblock' = Decompress(p[1], thisblock)
  BY <1>8 DEF PopDelta
<1>10. thisblock' = s[1]
  BY <1>4, <1>5, <1>6, <1>9
<1>11. Places(k - 1, Behind(k, p), p[1], tail)
  BY <1>1, <1>2, BackPlaces
<1>12. Holds(k - 1, Behind(k, p), Behind(k, s), data, s[1])
  BY <1>1, <1>2, BackHolds
<1>13. QED
  BY <1>1, <1>2, <1>9, <1>10, <1>11, <1>12 DEF Ring

\* Handing back the whole copy leaves the deltas alone.
LEMMA PopWholeKeeps ==
    ASSUME NEW k, NEW p, NEW s, Ring(k, p, s), Tally(k), PopWhole
    PROVE  Ring(k, p, s)' /\ Tally(k)'
<1>1. Ring(k, p, s)'
  BY DEF Ring, PopWhole
<1>2. k \in Nat
  BY DEF Ring, Places
<1>3. Tally(k)'
  <2>1. Counts(k)'
    <3>1. /\ One(valid) = 1 /\ One(valid)' = 0 /\ One(pushing)' = One(pushing)
          /\ One(pushing) \in {0, 1}
      BY OneIs DEF PopWhole
    <3>2. entries' = entries - 1 /\ pushed' = pushed
      BY DEF PopWhole
    <3>3. QED
      BY <1>2, <3>1, <3>2 DEF Counts, Tally
  <2>2. Whole(k)'
    BY DEF Tally, Whole, PopWhole
  <2>3. QED
    BY <2>1, <2>2 DEF Tally
<1>4. QED
  BY <1>1, <1>3

\* Handing back a delta.
LEMMA PopKeeps ==
    ASSUME NEW k, NEW p, NEW s, Ring(k, p, s), Tally(k), Pop
    PROVE  /\ k \in Nat /\ k # 0 /\ thisblock' = s[1]
           /\ Ring(k - 1, Behind(k, p), Behind(k, s))' /\ Tally(k - 1)'
<1>1. /\ k \in Nat /\ k # 0 /\ thisblock' = s[1]
      /\ Ring(k - 1, Behind(k, p), Behind(k, s))'
  BY PopDeltaGoesBack DEF Pop
<1>2. Tally(k - 1)'
  <2>1. Counts(k - 1)'
    <3>1. One(valid)' = One(valid) /\ One(pushing)' = One(pushing)
          /\ One(valid) \in {0, 1} /\ One(pushing) \in {0, 1}
      BY OneIs DEF Pop
    <3>2. entries' = entries - 1 /\ pushed' = pushed
      BY DEF Pop
    <3>3. QED
      BY <1>1, <3>1, <3>2 DEF Counts, Tally
  <2>2. Whole(k - 1)'
    BY DEF Tally, Whole, Pop
  <2>3. QED
    BY <2>1, <2>2 DEF Tally
<1>3. QED
  BY <1>1, <1>2

\* Either there is a whole copy of the last state, or there is none to restore,
\* or it is restored.
LEMMA PushWhereKeeps ==
    ASSUME NEW k, NEW p, NEW s, Ring(k, p, s), Tally(k), NEW new \in States, PushWhere(new)
    PROVE  \/ Ring(k, p, s)' /\ Tally(k)' /\ valid' = valid
           \/ /\ k \in Nat /\ k # 0 /\ ~valid /\ valid'
              /\ Ring(k - 1, Behind(k, p), Behind(k, s))' /\ Tally(k - 1)'
<1>1. /\ k \in Nat /\ p[0] = head /\ p[k] = tail
      /\ \A i \in 0 .. k : p[i] = tail => i = k
  <2>1. Places(k, p, head, tail)
    BY DEF Ring
  <2>2. \A i \in 0 .. k : p[i] = tail => i = k
    BY <2>1, PlacesGive
  <2>3. QED
    BY <2>1, <2>2 DEF Places
<1>2. UNCHANGED <<data, tail, entries, given>>
  BY DEF PushWhere
<1>3. /\ One(pushing) = 0 /\ One(pushing)' = 1
      /\ pushed' = pushed + 1 /\ pushed < Pushes
      /\ Pushes \in Nat
  BY OneIs, RewindAssumption, Zenon DEF PushWhere
<1>4. CASE valid \/ head = tail
  <2>1. Ring(k, p, s)' /\ valid' = valid
    BY <1>4 DEF PushWhere, Ring
  <2>2. head = tail => k = 0
    BY <1>1
  <2>3. Tally(k)'
    <3>1. Counts(k)'
      BY <1>1, <1>2, <2>1, <1>3 DEF Counts, Tally
    <3>2. Whole(k)'
      BY <1>4, <2>1, <2>2, Zenon DEF Tally, Whole, PushWhere, Blocks
    <3>3. QED
      BY <3>1, <3>2 DEF Tally
  <2>4. QED
    BY <2>1, <2>3
<1>5. CASE ~ (valid \/ head = tail)
  <2>1. PopDelta /\ valid' = TRUE
    BY <1>5 DEF PushWhere
  <2>2. k # 0 /\ Ring(k - 1, Behind(k, p), Behind(k, s))'
    BY <1>2, <2>1, PopDeltaGoesBack
  <2>3. Tally(k - 1)'
    <3>1. Counts(k - 1)'
      <4>1. One(valid) = 0 /\ One(valid)' = 1
        <5>1. ~valid /\ valid'
          BY <1>5, <2>1
        <5>2. QED
          BY <5>1 DEF One
      <4>2. QED
        BY <1>1, <1>2, <1>3, <4>1 DEF Counts, Tally
    <3>2. Whole(k - 1)'
      BY <2>1, Zenon DEF Tally, Whole, PushWhere, Blocks
    <3>3. QED
      BY <3>1, <3>2 DEF Tally
  <2>4. QED
    BY <1>1, <1>5, <2>1, <2>2, <2>3
<1>6. QED
  BY <1>4, <1>5

\* The first state is kept whole.
LEMMA PushFirstKeeps ==
    ASSUME NEW k, NEW p, NEW s, Ring(k, p, s), Tally(k), PushFirst,
           NEW new, new = nextblock
    PROVE  /\ k = 0 /\ new \in States
           /\ Ring(0, p, [i \in 0 .. 0 |-> new])' /\ Tally(0)'
<1>1. k = 0 /\ new \in States /\ new \in Blocks
  BY DEF Tally, Whole, PushFirst, Blocks
<1>2. Places(0, p, head', tail')
  BY <1>1 DEF Ring, PushFirst
<1>3. thisblock' = new /\ nextblock' = thisblock
  BY DEF PushFirst, SwapBlocks
<1>4. Holds(0, p, [i \in 0 .. 0 |-> new], data', thisblock')
  BY <1>1, <1>3 DEF Holds
<1>5. thisblock \in Blocks
  BY <1>1 DEF Ring, Holds
<1>6. Counts(0)'
  <2>1. /\ One(valid) = 0 /\ One(valid)' = 1
        /\ One(pushing) = 1 /\ One(pushing)' = 0
    <3>1. ~valid /\ valid' /\ pushing /\ ~pushing'
      BY DEF PushFirst
    <3>2. QED
      BY <3>1 DEF One
  <2>2. entries' = entries + 1 /\ pushed' = pushed
    BY DEF PushFirst
  <2>3. QED
    BY <1>1, <2>1, <2>2 DEF Counts, Tally
<1>7. Whole(0)'
  BY <1>3, <1>5, Zenon DEF Whole, PushFirst
<1>8. Ring(0, p, [i \in 0 .. 0 |-> new])'
  BY <1>2, <1>4 DEF Ring
<1>9. QED
  BY <1>1, <1>6, <1>7, <1>8 DEF Tally

\* Where the tail is after a push: the deltas up to the m-th are kept.
KeepsUpTo(k, p, n, m) ==
    /\ m \in 0 .. k /\ m <= k - n /\ k - n <= m + 1
    /\ Room(head, p[m])
    /\ m # k - n => k - n = m + 1 /\ p[k - n] = 1

\* The tail goes to one of the places, and never stays at the start when the head
\* goes back there.
LEMMA TailGoesTo ==
    ASSUME NEW k, NEW p, NEW s, Ring(k, p, s), TwoDeltas, NEW len \in Sizes, PushDo(len)
    PROVE  \E m : /\ KeepsUpTo(k, p, Discarded, m) /\ tail' = p[m]
                  /\ Wraps(head + 1 + len) => p[m] # 1
                  /\ m # k - Discarded => Wraps(head + 1 + len)
<1>1. /\ Places(k, p, head, tail) /\ Holds(k, p, s, data, thisblock)
      /\ k \in Nat /\ p[0] = head
  BY DEF Ring, Places
<1>2. /\ Discarded \in 0 .. k /\ TailAfter[Discarded] = p[k - Discarded]
      /\ Room(head, p[k - Discarded])
  BY DiscardedIs
<1>3. PICK c : c = k - Discarded
  OBVIOUS
<1>4. c \in 0 .. k /\ TailAfter[Discarded] = p[c] /\ Room(head, p[c])
  BY <1>1, <1>2, <1>3
<1>5. tail' \in IF Wraps(head + 1 + len) THEN TailOnWrap(p[c]) ELSE {p[c]}
  BY <1>4 DEF PushDo
<1>6. CASE ~Wraps(head + 1 + len) \/ p[c] # 1
  <2>1. tail' = p[c]
    BY <1>5, <1>6 DEF TailOnWrap
  <2>2. KeepsUpTo(k, p, Discarded, c)
    BY <1>1, <1>2, <1>3, <1>4 DEF KeepsUpTo
  <2>3. QED
    BY <1>3, <1>6, <2>1, <2>2
<1>7. CASE Wraps(head + 1 + len) /\ p[c] = 1
  <2>1. Places(c, UpTo(c, p), head, p[c])
    BY <1>1, <1>4, ForgetPlaces
  <2>2. head >= 4 /\ p[c] <= head
    BY <1>4, <1>7, <2>1, WrapsInOneLap
  <2>3. c # 0
    BY <1>1, <1>7, <2>2
  <2>4. c \in 1 .. k /\ c - 1 \in 0 .. k
    BY <1>1, <1>4, <2>3
  <2>5. data[1] = Link(p[c - 1])
    BY <1>1, <1>7, <2>4 DEF Holds, Kept
  <2>6. IsLink(1) /\ data[1].to = p[c - 1]
    BY <2>5, SizesOf DEF IsLink, Link, Words
  <2>7. tail' = p[c - 1]
    BY <1>5, <1>7, <2>6 DEF TailOnWrap, Linked
  <2>8. p[c] + 3 <= p[c - 1] /\ p[c - 1] <= head
    <3>1. p[c] <= head
      BY <2>2
    <3>2. c \in 0 .. k /\ c # 0
      BY <1>4, <2>3
    <3>3. QED
      BY <1>1, <3>1, <3>2, LapsOf
  <2>9. p[c - 1] \in Int /\ head \in Int /\ Capacity \in Int /\ MaxCompSize \in Int
    BY <1>1, <2>4, PlacesGive, SizesOf
  <2>10. Room(head, p[c - 1]) /\ p[c - 1] # 1
    BY <1>4, <1>7, <2>2, <2>8, <2>9 DEF Room
  <2>11. KeepsUpTo(k, p, Discarded, c - 1)
    BY <1>1, <1>2, <1>3, <1>4, <1>7, <2>4, <2>10 DEF KeepsUpTo
  <2>12. QED
    BY <1>7, <2>7, <2>10, <2>11
<1>8. QED
  BY <1>6, <1>7

\* A delta is put on what is kept.
LEMMA PushDoKeeps ==
    ASSUME NEW k, NEW p, NEW s, Ring(k, p, s), Tally(k), TwoDeltas,
           NEW len \in Sizes, PushDo(len), NEW new, new = nextblock,
           NEW m, KeepsUpTo(k, p, Discarded, m), tail' = p[m],
           Wraps(head + 1 + len) => p[m] # 1
    PROVE  /\ k \in Nat /\ m \in 0 .. k /\ new \in States
           /\ \E n : /\ n = LinkAt(head, len) + 1
                     /\ Ring(m + 1, Onto(m, n, UpTo(m, p)), Onto(m, new, UpTo(m, s)))'
           /\ Tally(m + 1)'
<1>1. /\ Places(k, p, head, tail) /\ Holds(k, p, s, data, thisblock)
      /\ k \in Nat /\ m \in 0 .. k /\ Room(head, p[m])
  BY DEF Ring, Places, KeepsUpTo
<1>2. Places(m, UpTo(m, p), head, p[m]) /\ Holds(m, UpTo(m, p), UpTo(m, s), data, thisblock)
  BY <1>1, ForgetPlaces, ForgetHolds
<1>3. new \in States /\ new \in Blocks
  BY DEF Tally, Whole, PushDo, Blocks
<1>4. PICK n : n = LinkAt(head, len) + 1
  OBVIOUS
<1>5. Places(m + 1, Onto(m, n, UpTo(m, p)), n, p[m])
  BY <1>1, <1>2, <1>4, PushPlaces
<1>6. Holds(m + 1, Onto(m, n, UpTo(m, p)), Onto(m, new, UpTo(m, s)),
            Written(data, head, len, new, thisblock), new)
  BY <1>1, <1>2, <1>3, <1>4, PushHolds
<1>7. head' = n /\ data' = Written(data, head, len, new, thisblock)
  BY <1>4 DEF PushDo, Written, LinkAt
<1>8. thisblock' = new /\ nextblock' = thisblock
  BY DEF PushDo, SwapBlocks
<1>9. Ring(m + 1, Onto(m, n, UpTo(m, p)), Onto(m, new, UpTo(m, s)))'
  BY <1>5, <1>6, <1>7, <1>8 DEF Ring
<1>10. thisblock \in Blocks
  BY <1>1 DEF Holds
<1>11. Counts(m + 1)'
  <2>1. /\ One(valid) = 1 /\ One(valid)' = 1
        /\ One(pushing) = 1 /\ One(pushing)' = 0
    <3>1. valid /\ valid' /\ pushing /\ ~pushing'
      BY DEF PushDo
    <3>2. QED
      BY <3>1 DEF One
  <2>2. entries' = entries + 1 - Discarded /\ pushed' = pushed
    BY DEF PushDo
  <2>3. Discarded \in 0 .. k /\ m <= k - Discarded
    BY DiscardedIs DEF KeepsUpTo
  <2>4. QED
    BY <1>1, <2>1, <2>2, <2>3 DEF Counts, Tally
<1>12. Whole(m + 1)'
  <2>1. valid' = valid /\ valid /\ pushing' = FALSE
    BY DEF PushDo
  <2>2. QED
    BY <1>8, <1>10, <2>1, Zenon DEF Whole
<1>13. QED
  BY <1>1, <1>3, <1>4, <1>9, <1>11, <1>12 DEF Tally

-----------------------------------------------------------------------------
\* Where a state is forgotten, little is left free.
LEMMA LittleIsFree ==
    ASSUME NEW k, NEW p, NEW s, Ring(k, p, s), TwoDeltas,
           NEW len \in Sizes, PushDo(len),
           NEW m, KeepsUpTo(k, p, Discarded, m), tail' = p[m], m < k,
           Wraps(head + 1 + len) => p[m] # 1,
           m # k - Discarded => Wraps(head + 1 + len),
           NEW n, n = LinkAt(head, len) + 1
    PROVE  ((p[m] + Capacity - 1 - n - 1) % Capacity) + 1 < 2 * MaxCompSize + Delta
<1>1. /\ Places(k, p, head, tail) /\ Holds(k, p, s, data, thisblock)
      /\ k \in Nat /\ m \in 0 .. k /\ Room(head, p[m]) /\ m + 1 \in 1 .. k /\ m + 1 \in 0 .. k
  BY DEF Ring, Places, KeepsUpTo
<1>2. Places(m, UpTo(m, p), head, p[m])
  BY <1>1, ForgetPlaces
<1>3. Places(m + 1, Onto(m, n, UpTo(m, p)), n, p[m])
  BY <1>1, <1>2, PushPlaces
<1>4. n \in 1 .. Capacity - 1 /\ p[m] \in 1 .. Capacity - 1
  BY <1>3, PlacesGive
<1>5. p[m] <= n \/ p[m] >= n + 2
  <2>1. /\ m + 1 \in 0 .. m + 1 /\ m + 1 \in Nat
        /\ Onto(m, n, UpTo(m, p))[m + 1] = p[m]
    BY <1>1, <1>3 DEF Places
  <2>2. QED
    BY <1>3, <2>1 DEF Places
<1>6. ((p[m] + Capacity - 1 - n - 1) % Capacity) + 1
        = IF p[m] <= n THEN Capacity - 1 - (n - p[m]) ELSE p[m] - n - 1
  BY <1>4, <1>5, RemainingIs
<1>7. PICK l \in Sizes : Kept(data, s[(m + 1) - 1], s[m + 1], p[m + 1], p[(m + 1) - 1], l)
  BY <1>1, Zenon DEF Holds
<1>8. (m + 1) - 1 = m
  BY <1>1
<1>9. \/ p[m] = p[m + 1] + l + 2
      \/ p[m] = 1 /\ p[m + 1] + 1 + l + MaxCompSize > Capacity
  BY <1>7, <1>8 DEF Kept
<1>10. PICK a, t, h : a = p[m + 1] /\ t = p[m] /\ h = head
  OBVIOUS
<1>11. /\ len \in Nat /\ 1 <= len /\ len <= Delta /\ Delta \in Nat /\ MaxCompSize = Delta + 2
       /\ Capacity \in Nat /\ l \in Nat /\ 1 <= l /\ l <= Delta
  BY SizesOf
<1>12. /\ a \in Int /\ 1 <= a /\ a + MaxCompSize <= Capacity + 1
       /\ h \in Int /\ 1 <= h /\ h + MaxCompSize <= Capacity + 1
       /\ t \in Int /\ 1 <= t /\ t + MaxCompSize <= Capacity + 1
       /\ a = 1 \/ a >= 4
       /\ t > h => t >= h + MaxCompSize + 2
       /\ Wraps(h + 1 + len) => t <= h /\ h >= 4
  <2>1. a \in Int /\ 1 <= a /\ a + MaxCompSize <= Capacity + 1
    BY <1>1, <1>10, PlacesGive
  <2>2. t \in Int /\ 1 <= t /\ t + MaxCompSize <= Capacity + 1
    BY <1>1, <1>10, PlacesGive
  <2>3. a = 1 \/ a >= 4
    BY <1>1, <1>10 DEF Places
  <2>4. /\ h \in Int /\ 1 <= h /\ h + MaxCompSize <= Capacity + 1
        /\ t > h => t >= h + MaxCompSize + 2
        /\ Wraps(h + 1 + len) => t <= h /\ h >= 4
    BY <1>1, <1>2, <1>10, WrapsInOneLap
  <2>5. QED
    BY <2>1, <2>2, <2>3, <2>4
<1>13. /\ t = a + l + 2 \/ (t = 1 /\ a + 1 + l + MaxCompSize > Capacity)
       /\ n \in Int
       /\ \/ ~Wraps(h + 1 + len) /\ n = h + len + 2
          \/ Wraps(h + 1 + len) /\ n = 1 /\ t # 1
  <2>1. CASE Wraps(h + 1 + len)
    <3>1. n = 1 /\ t # 1
      BY <1>10, <2>1 DEF LinkAt
    <3>2. QED
      BY <1>9, <1>10, <2>1, <3>1
  <2>2. CASE ~Wraps(h + 1 + len)
    <3>1. n = h + len + 2
      BY <1>10, <1>11, <1>12, <2>2 DEF LinkAt
    <3>2. QED
      BY <1>9, <1>10, <1>11, <1>12, <2>2, <3>1
  <2>3. QED
    BY <2>1, <2>2
<1>14. \/ a = 1 /\ Wraps(h + 1 + len)
       \/ (IF a <= h THEN Capacity - 1 - (h - a) ELSE a - h - 1) <= MaxCompSize
  <2>1. CASE m # k - Discarded
    BY <1>10, <2>1 DEF KeepsUpTo
  <2>2. CASE m = k - Discarded
    <3>1. Discarded \in 0 .. k
      BY DiscardedIs
    <3>2. Discarded # 0 /\ k - Discarded + 1 = m + 1
      BY <1>1, <2>2, <3>1
    <3>3. ~Room(head, p[m + 1])
      BY <3>2, DiscardedIs
    <3>4. QED
      BY <1>10, <1>11, <1>12, <3>3 DEF Room
  <2>3. QED
    BY <2>1, <2>2
<1>15. (IF t <= n THEN Capacity - 1 - (n - t) ELSE t - n - 1) < 2 * MaxCompSize + Delta
  <2>1. CASE Wraps(h + 1 + len)
    <3>1. n = 1 /\ t = a + l + 2 /\ t <= h
      BY <1>12, <1>13, <2>1
    <3>2. QED
      BY <1>11, <1>12, <1>14, <2>1, <3>1
  <2>2. CASE ~Wraps(h + 1 + len)
    <3>1. n = h + len + 2
      BY <1>13, <2>2
    <3>2. CASE t = a + l + 2
      BY <1>11, <1>12, <1>14, <2>2, <3>1, <3>2
    <3>3. CASE t = 1 /\ a + 1 + l + MaxCompSize > Capacity
      BY <1>11, <1>12, <1>14, <2>2, <3>1, <3>3
    <3>4. QED
      BY <1>13, <3>2, <3>3
  <2>3. QED
    BY <2>1, <2>2
<1>16. QED
  BY <1>6, <1>10, <1>15

-----------------------------------------------------------------------------
(* The stack: what is read back from the ring, with the whole copy on top. *)
StackOf(k, s, whole) == [i \in 1 .. k + One(whole) |-> s[k + 1 - i]]

\* A formula of one state, so that it can be had of two.
StackReads == \A k, p, s : Ring(k, p, s) => Stack = StackOf(k, s, valid)

\* What the model reads back is the stack of the states the ring holds.
LEMMA StackIs == StackReads
<1> SUFFICES ASSUME NEW k, NEW p, NEW s, Ring(k, p, s) PROVE Stack = StackOf(k, s, valid)
  BY DEF StackReads
<1>1. ReadsAs(k, p, s) /\ k \in Nat
  BY RingReadsBack DEF ReadsBack, Ring, Places
<1>2. Depth = k + One(valid) /\ One(valid) \in {0, 1}
  BY <1>1, OneIs DEF Depth, ReadsAs, One
<1>3. Stack = [i \in 1 .. k + One(valid) |-> State[k + 1 - i]]
  BY <1>1, <1>2 DEF Stack, ReadsAs
<1>4. \A i \in 1 .. k + One(valid) : State[k + 1 - i] = s[k + 1 - i]
  <2>1. \A i \in 1 .. k + One(valid) : k + 1 - i \in 0 .. k
    BY <1>1, <1>2
  <2>2. QED
    BY <1>1, <2>1 DEF ReadsAs
<1>5. QED
  BY <1>3, <1>4 DEF StackOf

\* Such a stack, element by element.
LEMMA StackOfIs ==
    ASSUME NEW k \in Nat, NEW s \in [0 .. k -> Blocks]
    PROVE  /\ StackOf(k, s, TRUE) \in Seq(Blocks) /\ Len(StackOf(k, s, TRUE)) = k + 1
           /\ StackOf(k, s, FALSE) \in Seq(Blocks) /\ Len(StackOf(k, s, FALSE)) = k
           /\ \A i \in 1 .. k + 1 : StackOf(k, s, TRUE)[i] = s[k + 1 - i]
           /\ \A i \in 1 .. k : StackOf(k, s, FALSE)[i] = s[k + 1 - i]
<1>1. StackOf(k, s, TRUE) = [i \in 1 .. k + 1 |-> s[k + 1 - i]]
  BY OneIs DEF StackOf
<1>2. StackOf(k, s, FALSE) = [i \in 1 .. k |-> s[k + 1 - i]]
  <2>1. k + One(FALSE) = k
    BY DEF One
  <2>2. QED
    BY <2>1 DEF StackOf
<1>3. \A i \in 1 .. k + 1 : k + 1 - i \in 0 .. k
  OBVIOUS
<1>4. \A i \in 1 .. k + 1 : s[k + 1 - i] \in Blocks
  BY <1>3
<1>5. \A i \in 1 .. k : i \in 1 .. k + 1
  OBVIOUS
<1>6. \A n \in 0 .. k + 1 : \A f \in [1 .. n -> Blocks] : f \in Seq(Blocks) /\ Len(f) = n
  OBVIOUS
<1>7. /\ StackOf(k, s, TRUE) \in [1 .. k + 1 -> Blocks] /\ k + 1 \in 0 .. k + 1
      /\ StackOf(k, s, FALSE) \in [1 .. k -> Blocks] /\ k \in 0 .. k + 1
  <2>1. StackOf(k, s, TRUE) \in [1 .. k + 1 -> Blocks]
    BY <1>1, <1>4
  <2>2. StackOf(k, s, FALSE) \in [1 .. k -> Blocks]
    <3>1. \A i \in 1 .. k : s[k + 1 - i] \in Blocks
      BY <1>4, <1>5
    <3>2. QED
      BY <1>2, <3>1
  <2>3. k + 1 \in 0 .. k + 1 /\ k \in 0 .. k + 1
    OBVIOUS
  <2>4. QED
    BY <2>1, <2>2, <2>3
<1>8. /\ \A i \in 1 .. k + 1 : StackOf(k, s, TRUE)[i] = s[k + 1 - i]
      /\ \A i \in 1 .. k : StackOf(k, s, FALSE)[i] = s[k + 1 - i]
  BY <1>1, <1>2
<1>9. QED
  BY <1>6, <1>7, <1>8

\* Handing back the whole copy, handing back a delta, and restoring one.
LEMMA PopsTheLast ==
    ASSUME NEW k \in Nat, NEW s \in [0 .. k -> Blocks]
    PROVE  /\ StackOf(k, s, TRUE) # <<>>
           /\ Last(StackOf(k, s, TRUE)) = s[0]
           /\ Front(StackOf(k, s, TRUE)) = StackOf(k, s, FALSE)
           /\ k # 0 => /\ StackOf(k, s, FALSE) # <<>>
                       /\ Last(StackOf(k, s, FALSE)) = s[1]
                       /\ Front(StackOf(k, s, FALSE)) = StackOf(k - 1, Behind(k, s), FALSE)
                       /\ StackOf(k - 1, Behind(k, s), TRUE) = StackOf(k, s, FALSE)
<1> DEFINE whole == StackOf(k, s, TRUE)
           deltas == StackOf(k, s, FALSE)
<1>1. /\ whole \in Seq(Blocks) /\ Len(whole) = k + 1
      /\ deltas \in Seq(Blocks) /\ Len(deltas) = k
      /\ \A i \in 1 .. k + 1 : whole[i] = s[k + 1 - i]
      /\ \A i \in 1 .. k : deltas[i] = s[k + 1 - i]
  BY StackOfIs
<1> HIDE DEF whole, deltas
<1>2. whole # <<>>
  BY <1>1
<1>3. Last(whole) = s[0]
  <2>1. k + 1 \in 1 .. k + 1 /\ k + 1 - (k + 1) = 0
    OBVIOUS
  <2>2. QED
    BY <1>1, <2>1 DEF Last
<1>4. Front(whole) = deltas
  <2>1. Front(whole) = SubSeq(whole, 1, k)
    BY <1>1 DEF Front
  <2>2. SubSeq(whole, 1, k) \in Seq(Blocks) /\ Len(SubSeq(whole, 1, k)) = k
        /\ \A i \in 1 .. k : SubSeq(whole, 1, k)[i] = whole[i]
    BY <1>1
  <2>3. \A i \in 1 .. k : SubSeq(whole, 1, k)[i] = deltas[i]
    BY <1>1, <2>2
  <2>4. QED
    BY <1>1, <2>1, <2>2, <2>3, SeqEqual
<1>5. ASSUME k # 0
      PROVE  /\ deltas # <<>> /\ Last(deltas) = s[1]
             /\ Front(deltas) = StackOf(k - 1, Behind(k, s), FALSE)
             /\ StackOf(k - 1, Behind(k, s), TRUE) = deltas
  <2> DEFINE r == Behind(k, s)
             below == StackOf(k - 1, r, FALSE)
             again == StackOf(k - 1, r, TRUE)
  <2>1. k - 1 \in Nat /\ k \in 1 .. k /\ k + 1 - k = 1 /\ (k - 1) + 1 = k
    BY <1>5
  <2>2. r \in [0 .. k - 1 -> Blocks] /\ \A i \in 0 .. k - 1 : r[i] = s[i + 1]
    <3>1. \A i \in 0 .. k - 1 : i + 1 \in 0 .. k
      OBVIOUS
    <3>2. QED
      BY <3>1 DEF Behind
  <2> HIDE DEF r
  <2>3. /\ below \in Seq(Blocks) /\ Len(below) = k - 1
        /\ again \in Seq(Blocks) /\ Len(again) = k
        /\ \A i \in 1 .. k : again[i] = r[k - i]
        /\ \A i \in 1 .. k - 1 : below[i] = r[k - i]
    <3>1. /\ below \in Seq(Blocks) /\ Len(below) = k - 1
          /\ again \in Seq(Blocks) /\ Len(again) = (k - 1) + 1
          /\ \A i \in 1 .. (k - 1) + 1 : again[i] = r[(k - 1) + 1 - i]
          /\ \A i \in 1 .. k - 1 : below[i] = r[(k - 1) + 1 - i]
      BY <2>1, <2>2, StackOfIs
    <3> HIDE DEF below, again
    <3>2. QED
      BY <2>1, <3>1
  <2> HIDE DEF below, again
  <2>4. \A i \in 1 .. k : k - i \in 0 .. k - 1 /\ (k - i) + 1 = k + 1 - i
    OBVIOUS
  <2>5. \A i \in 1 .. k : r[k - i] = deltas[i]
    BY <1>1, <2>2, <2>4
  <2>6. again = deltas
    <3>1. /\ again \in Seq(Blocks) /\ deltas \in Seq(Blocks)
          /\ Len(again) = k /\ Len(deltas) = k
      BY <1>1, <2>3
    <3>2. \A i \in 1 .. k : again[i] = deltas[i]
      BY <2>3, <2>5
    <3>3. QED
      BY <3>1, <3>2, SeqEqual
  <2>7. Front(deltas) = below
    <3>1. Front(deltas) = SubSeq(deltas, 1, k - 1)
      BY <1>1 DEF Front
    <3>2. SubSeq(deltas, 1, k - 1) \in Seq(Blocks) /\ Len(SubSeq(deltas, 1, k - 1)) = k - 1
          /\ \A i \in 1 .. k - 1 : SubSeq(deltas, 1, k - 1)[i] = deltas[i]
      BY <1>1, <2>1
    <3>3. \A i \in 1 .. k - 1 : SubSeq(deltas, 1, k - 1)[i] = below[i]
      <4>1. \A i \in 1 .. k - 1 : i \in 1 .. k
        OBVIOUS
      <4>2. QED
        BY <2>3, <2>5, <3>2, <4>1
    <3>4. QED
      BY <2>3, <3>1, <3>2, <3>3, SeqEqual
  <2>8. deltas # <<>> /\ Last(deltas) = s[1]
    BY <1>1, <2>1 DEF Last
  <2>9. QED
    BY <2>6, <2>7, <2>8 DEF r, below, again
<1>6. QED
  BY <1>2, <1>3, <1>4, <1>5 DEF whole, deltas

\* Putting a state on what is kept of a stack.
LEMMA PushesOnTop ==
    ASSUME NEW k \in Nat, NEW s \in [0 .. k -> Blocks], NEW m \in 0 .. k, NEW new \in Blocks
    PROVE  StackOf(m + 1, Onto(m, new, UpTo(m, s)), TRUE)
             = Append(SubSeq(StackOf(k, s, TRUE), k - m + 1, Len(StackOf(k, s, TRUE))), new)
<1> DEFINE old == StackOf(k, s, TRUE)
           r == Onto(m, new, UpTo(m, s))
           now == StackOf(m + 1, r, TRUE)
           cut == SubSeq(old, k - m + 1, k + 1)
<1>1. /\ old \in Seq(Blocks) /\ Len(old) = k + 1
      /\ \A i \in 1 .. k + 1 : old[i] = s[k + 1 - i]
  BY StackOfIs
<1>2. /\ m \in Nat /\ m + 1 \in Nat
      /\ \A i \in 0 .. m : i \in 0 .. k
      /\ \A i \in 1 .. m + 1 : i # 0 /\ i - 1 \in 0 .. m /\ i \in 0 .. m + 1
      /\ 0 \in 0 .. m + 1
  OBVIOUS
<1>3. /\ r \in [0 .. m + 1 -> Blocks] /\ r[0] = new
      /\ \A i \in 1 .. m + 1 : r[i] = s[i - 1]
  <2>1. \A i \in 0 .. m : UpTo(m, s)[i] = s[i] /\ s[i] \in Blocks
    BY <1>2 DEF UpTo
  <2>2. \A i \in 0 .. m + 1 : i # 0 => i \in 1 .. m + 1
    BY <1>2
  <2>3. \A i \in 0 .. m + 1 : (IF i = 0 THEN new ELSE UpTo(m, s)[i - 1]) \in Blocks
    BY <1>2, <2>1, <2>2
  <2>4. QED
    BY <1>2, <2>1, <2>3 DEF Onto
<1> HIDE DEF r
<1>4. /\ now \in Seq(Blocks) /\ Len(now) = m + 2
      /\ \A i \in 1 .. m + 2 : now[i] = r[m + 2 - i]
  <2>1. /\ now \in Seq(Blocks) /\ Len(now) = (m + 1) + 1
        /\ \A i \in 1 .. (m + 1) + 1 : now[i] = r[(m + 1) + 1 - i]
    BY <1>2, <1>3, StackOfIs
  <2>2. (m + 1) + 1 = m + 2
    BY <1>2
  <2> HIDE DEF now
  <2>3. QED
    BY <2>1, <2>2
<1> HIDE DEF old, now
<1>5. /\ cut \in Seq(Blocks) /\ Len(cut) = m + 1
      /\ \A i \in 1 .. m + 1 : cut[i] = old[(k - m) + i]
  <2>1. k - m + 1 \in 1 .. k + 1 /\ k + 1 \in Nat /\ (k + 1) - (k - m + 1) + 1 = m + 1
    OBVIOUS
  <2>2. /\ cut \in Seq(Blocks) /\ Len(cut) = (k + 1) - (k - m + 1) + 1
        /\ \A i \in 1 .. (k + 1) - (k - m + 1) + 1 : cut[i] = old[(k - m + 1) + i - 1]
    BY <1>1, <2>1
  <2>3. \A i \in 1 .. m + 1 : (k - m + 1) + i - 1 = (k - m) + i
    OBVIOUS
  <2> HIDE DEF cut
  <2>4. QED
    BY <2>1, <2>2, <2>3
<1> HIDE DEF cut
<1>6. /\ Append(cut, new) \in Seq(Blocks) /\ Len(Append(cut, new)) = m + 2
      /\ \A i \in 1 .. m + 1 : Append(cut, new)[i] = cut[i]
      /\ Append(cut, new)[m + 2] = new
  BY <1>2, <1>5
<1>7. \A i \in 1 .. m + 1 : now[i] = cut[i]
  <2>1. SUFFICES ASSUME NEW i \in 1 .. m + 1 PROVE now[i] = cut[i]
    OBVIOUS
  <2>2. /\ i \in 1 .. m + 2 /\ m + 2 - i \in 1 .. m + 1 /\ (m + 2 - i) - 1 = m + 1 - i
        /\ (k - m) + i \in 1 .. k + 1 /\ k + 1 - ((k - m) + i) = m + 1 - i
    OBVIOUS
  <2>3. now[i] = s[m + 1 - i]
    BY <1>3, <1>4, <2>2
  <2>4. cut[i] = s[m + 1 - i]
    BY <1>1, <1>5, <2>2
  <2>5. QED
    BY <2>3, <2>4
<1>8. now[m + 2] = new
  <2>1. m + 2 \in 1 .. m + 2 /\ m + 2 - (m + 2) = 0
    OBVIOUS
  <2>2. QED
    BY <1>3, <1>4, <2>1
<1>9. \A i \in 1 .. m + 2 : now[i] = Append(cut, new)[i]
  <2>1. \A i \in 1 .. m + 2 : i \in 1 .. m + 1 \/ i = m + 2
    OBVIOUS
  <2>2. QED
    BY <1>6, <1>7, <1>8, <2>1
<1>10. now = Append(cut, new)
  BY <1>4, <1>6, <1>9, SeqEqual
<1>11. QED
  BY <1>1, <1>10 DEF old, now, r, cut

-----------------------------------------------------------------------------
(* The theorems.                                                           *)

\* Every step keeps the ring a ring.
LEMMA NextKeeps ==
    ASSUME TwoDeltas, RewindInv, [Next]_vars
    PROVE  RewindInv'
<1>1. PICK k, p, s : Ring(k, p, s) /\ Tally(k)
  BY DEF RewindInv
<1>2. CASE PopWhole
  BY <1>1, <1>2, PopWholeKeeps DEF RewindInv
<1>3. CASE Pop
  BY <1>1, <1>3, PopKeeps DEF RewindInv
<1>4. ASSUME NEW new \in States, PushWhere(new) PROVE RewindInv'
  BY <1>1, <1>4, PushWhereKeeps DEF RewindInv
<1>5. CASE PushFirst
  <2>1. PICK new : new = nextblock
    OBVIOUS
  <2>2. Ring(0, p, [i \in 0 .. 0 |-> new])' /\ Tally(0)'
    BY <1>1, <1>5, <2>1, PushFirstKeeps
  <2>3. QED
    BY <2>2 DEF RewindInv
<1>6. ASSUME NEW len \in Sizes, PushDo(len) PROVE RewindInv'
  <2>1. PICK new : new = nextblock
    OBVIOUS
  <2>2. PICK m : /\ KeepsUpTo(k, p, Discarded, m) /\ tail' = p[m]
                 /\ Wraps(head + 1 + len) => p[m] # 1
    BY <1>1, <1>6, TailGoesTo
  <2>3. /\ \E n : /\ n = LinkAt(head, len) + 1
                  /\ Ring(m + 1, Onto(m, n, UpTo(m, p)), Onto(m, new, UpTo(m, s)))'
        /\ Tally(m + 1)'
    BY <1>1, <1>6, <2>1, <2>2, PushDoKeeps
  <2>4. QED
    BY <2>3 DEF RewindInv
<1>7. CASE UNCHANGED vars
  <2>1. Ring(k, p, s)' /\ Tally(k)'
    BY <1>1, <1>7 DEF Ring, Tally, Counts, Whole, vars
  <2>2. QED
    BY <2>1 DEF RewindInv
<1>8. QED
  BY <1>2, <1>3, <1>4, <1>5, <1>6, <1>7 DEF Next

(* In every state the buffer can be in, head and tail are the ends of a row of*)
(* deltas that lead from the whole state back to the oldest one, whatever  *)
(* state_manager_push_where, _push_do and _pop of rewind.c were called for.*)
THEOREM RewindInvariant ==
    ASSUME TwoDeltas PROVE Spec => []RewindInv
<1>1. RewindInv /\ [Next]_vars => RewindInv'
  BY NextKeeps
<1>2. QED
  BY InitKeeps, <1>1, PTL DEF Spec

\* The invariant gives what the run checks.
LEMMA RingIsSound ==
    ASSUME RewindInv PROVE RingInv
<1>1. PICK k, p, s : Ring(k, p, s) /\ Tally(k)
  BY DEF RewindInv
<1>2. /\ Places(k, p, head, tail) /\ Holds(k, p, s, data, thisblock)
      /\ k \in Nat /\ k \in 0 .. k /\ 0 \in 0 .. k /\ s \in [0 .. k -> Blocks] /\ s[0] = thisblock
  BY <1>1 DEF Ring, Places, Holds
<1>3. ReadsAs(k, p, s)
  BY <1>1, RingReadsBack DEF ReadsBack
<1>4. TypeOK
  <2>1. head \in Words /\ tail \in Words
    BY <1>2, PlacesGive, SizesOf DEF Words
  <2>2. entries \in 0 .. Pushes
    <3>1. One(valid) \in {0, 1} /\ One(pushing) \in {0, 1} /\ Pushes \in Nat
      BY OneIs, RewindAssumption
    <3>2. QED
      BY <1>1, <1>2, <3>1 DEF Tally, Counts
  <2>3. thisblock \in Blocks /\ Whole(k)
    BY <1>1, <1>2 DEF Tally
  <2>4. QED
    BY <2>1, <2>2, <2>3 DEF TypeOK, Whole, Blocks
<1>5. LinkedBothWays
  <2>1. ASSUME NEW n \in 1 .. k PROVE IsLink(Start[n]) /\ data[Start[n]].to = Start[n - 1]
    <3>1. n \in 0 .. k /\ n - 1 \in 0 .. k
      BY <1>2
    <3>2. Start[n] = p[n] /\ Start[n - 1] = p[n - 1] /\ p[n] \in Words
      BY <1>2, <1>3, <3>1 DEF ReadsAs, Places
    <3>3. data[p[n]] = Link(p[n - 1])
      BY <1>2 DEF Holds, Kept
    <3>4. QED
      BY <3>2, <3>3 DEF IsLink, Link
  <2>2. QED
    BY <1>3, <2>1 DEF LinkedBothWays, ReadsAs
<1>6. MakesRoom
  BY <1>1, DiscardedIs DEF MakesRoom
<1>7. QED
  BY <1>4, <1>5, <1>6 DEF RingInv

(* From the head state_manager_pop always gets back to the tail over links that*)
(* agree, and the loop of state_manager_push_do that gives up the oldest deltas*)
(* (recheckcapacity, rewind.c) always ends with room for the greatest delta.*)
THEOREM RingHolds ==
    ASSUME TwoDeltas PROVE Spec => []RingInv
<1>1. RewindInv => RingInv
  BY RingIsSound
<1>2. QED
  BY RewindInvariant, <1>1, PTL

-----------------------------------------------------------------------------
\* What each step does to what is read back.
LEMMA StepsOfStack ==
    ASSUME TwoDeltas, RewindInv, StackReads, StackReads', [Next]_vars
    PROVE  \/ Promise!Next
           \/ UNCHANGED Promise!vars
<1>1. PICK k, p, s : Ring(k, p, s) /\ Tally(k)
  BY DEF RewindInv
<1>2. /\ k \in Nat /\ s \in [0 .. k -> Blocks] /\ s[0] = thisblock
      /\ Stack = StackOf(k, s, valid)
  BY <1>1 DEF Ring, Places, Holds, StackReads
<1>3. CASE PopWhole
  <2>1. valid = TRUE /\ valid' = FALSE /\ given' = Append(given, thisblock)
    BY <1>3 DEF PopWhole
  <2>2. Stack' = StackOf(k, s, FALSE)
    BY <1>1, <1>3, <2>1, PopWholeKeeps DEF StackReads
  <2>3. Stack # <<>> /\ Last(Stack) = thisblock /\ Stack' = Front(Stack)
    BY <1>2, <2>1, <2>2, PopsTheLast
  <2>4. Promise!Pop
    BY <2>1, <2>3 DEF Promise!Pop, Promise!Last, Promise!Front, Last, Front
  <2>5. QED
    BY <2>4 DEF Promise!Next
<1>4. CASE Pop
  <2>1. valid = FALSE /\ valid' = FALSE /\ given' = Append(given, thisblock')
    BY <1>1, <1>4 DEF Pop, Tally, Whole
  <2>2. k # 0 /\ thisblock' = s[1] /\ Ring(k - 1, Behind(k, p), Behind(k, s))'
    BY <1>1, <1>4, PopKeeps
  <2>3. Stack' = StackOf(k - 1, Behind(k, s), FALSE)
    BY <2>1, <2>2 DEF StackReads
  <2>4. Stack # <<>> /\ Last(Stack) = thisblock' /\ Stack' = Front(Stack)
    BY <1>2, <2>1, <2>2, <2>3, PopsTheLast
  <2>5. Promise!Pop
    BY <2>1, <2>4 DEF Promise!Pop, Promise!Last, Promise!Front, Last, Front
  <2>6. QED
    BY <2>5 DEF Promise!Next
<1>5. ASSUME NEW new \in States, PushWhere(new) PROVE UNCHANGED Promise!vars
  <2>1. given' = given /\ valid \in BOOLEAN /\ valid' \in BOOLEAN
    BY <1>1, <1>5 DEF PushWhere, Tally, Whole
  <2>2. CASE Ring(k, p, s)' /\ valid' = valid
    <3>1. Stack' = StackOf(k, s, valid)
      BY <2>2 DEF StackReads
    <3>2. QED
      BY <1>2, <2>1, <3>1 DEF Promise!vars
  <2>3. CASE k # 0 /\ ~valid /\ valid' /\ Ring(k - 1, Behind(k, p), Behind(k, s))'
    <3>1. valid = FALSE /\ valid' = TRUE
      BY <2>1, <2>3
    <3>2. Stack' = StackOf(k - 1, Behind(k, s), TRUE)
      BY <2>3, <3>1 DEF StackReads
    <3>3. Stack' = Stack
      BY <1>2, <2>3, <3>1, <3>2, PopsTheLast
    <3>4. QED
      BY <2>1, <3>3 DEF Promise!vars
  <2>4. QED
    BY <1>1, <1>5, <2>2, <2>3, PushWhereKeeps
<1>6. CASE PushFirst
  <2>1. PICK new : new = nextblock
    OBVIOUS
  <2>2. k = 0 /\ new \in States /\ Ring(0, p, [i \in 0 .. 0 |-> new])'
    BY <1>1, <1>6, <2>1, PushFirstKeeps
  <2>3. valid = FALSE /\ valid' = TRUE /\ given' = <<>>
    BY <1>1, <1>6 DEF PushFirst, Tally, Whole
  <2>4. Stack' = StackOf(0, [i \in 0 .. 0 |-> new], TRUE)
    BY <2>2, <2>3 DEF StackReads
  <2>5. Stack' = <<new>>
    <3>1. new \in Blocks /\ [i \in 0 .. 0 |-> new] \in [0 .. 0 -> Blocks]
      BY <2>2 DEF Blocks
    <3>2. /\ Stack' \in Seq(Blocks) /\ Len(Stack') = 0 + 1
          /\ \A i \in 1 .. 0 + 1 : Stack'[i] = [j \in 0 .. 0 |-> new][0 + 1 - i]
      BY <2>4, <3>1, StackOfIs
    <3>3. \A i \in 1 .. Len(Stack') : Stack'[i] = <<new>>[i]
      BY <3>2
    <3>4. <<new>> \in Seq(Blocks) /\ Len(<<new>>) = Len(Stack')
      BY <3>1, <3>2
    <3>5. QED
      BY <3>2, <3>3, <3>4, SeqEqual
  <2>6. Stack = <<>>
    BY <1>2, <2>2, <2>3, StackOfIs
  <2>7. Stack' = Append(SubSeq(Stack, 0 + 1, Len(Stack)), new)
    BY <2>5, <2>6
  <2>8. Promise!Push(new)
    <3>1. 0 \in 0 .. Len(Stack)
      BY <2>6
    <3>2. QED
      BY <2>3, <2>7, <3>1 DEF Promise!Push
  <2>9. QED
    BY <2>2, <2>8 DEF Promise!Next
<1>7. ASSUME NEW len \in Sizes, PushDo(len) PROVE Promise!Next
  <2>1. PICK new : new = nextblock
    OBVIOUS
  <2>2. PICK m : /\ KeepsUpTo(k, p, Discarded, m) /\ tail' = p[m]
                 /\ Wraps(head + 1 + len) => p[m] # 1
    BY <1>1, <1>7, TailGoesTo
  <2>3. /\ m \in 0 .. k /\ new \in States
        /\ \E n : /\ n = LinkAt(head, len) + 1
                  /\ Ring(m + 1, Onto(m, n, UpTo(m, p)), Onto(m, new, UpTo(m, s)))'
    BY <1>1, <1>7, <2>1, <2>2, PushDoKeeps
  <2>4. valid = TRUE /\ valid' = TRUE /\ given' = <<>>
    BY <1>1, <1>7 DEF PushDo, Tally, Whole
  <2>5. Stack' = StackOf(m + 1, Onto(m, new, UpTo(m, s)), TRUE)
    BY <2>3, <2>4 DEF StackReads
  <2>6. Stack' = Append(SubSeq(Stack, k - m + 1, Len(Stack)), new)
    BY <1>2, <2>3, <2>4, <2>5, PushesOnTop DEF Blocks
  <2>7. k - m \in 0 .. Len(Stack)
    <3>1. Len(Stack) = k + 1
      BY <1>2, <2>4, StackOfIs
    <3>2. QED
      BY <1>2, <2>3, <3>1
  <2>8. Promise!Push(new)
    BY <2>4, <2>6, <2>7 DEF Promise!Push
  <2>9. QED
    BY <2>3, <2>8 DEF Promise!Next
<1>8. CASE UNCHANGED vars
  <2>1. Ring(k, p, s)' /\ valid' = valid /\ given' = given
    BY <1>1, <1>8 DEF Ring, vars
  <2>2. Stack' = StackOf(k, s, valid)
    BY <2>1 DEF StackReads
  <2>3. QED
    BY <1>2, <2>1, <2>2 DEF Promise!vars
<1>9. QED
  BY <1>3, <1>4, <1>5, <1>6, <1>7, <1>8 DEF Next

\* A new buffer is an empty stack.
LEMMA StackStarts ==
    ASSUME Init PROVE Promise!Init
<1>1. /\ head = 1 /\ tail = 1 /\ valid = FALSE /\ given = <<>>
  BY DEF Init
<1>2. PICK k, p, s : Ring(k, p, s) /\ Tally(k)
  BY InitKeeps DEF RewindInv
<1>3. k = 0
  <2>1. Places(k, p, head, tail) /\ p[0] = head /\ 0 \in 0 .. k
    BY <1>2 DEF Ring, Places
  <2>2. QED
    BY <1>1, <2>1, PlacesGive
<1>4. Stack = StackOf(0, s, FALSE) /\ s \in [0 .. 0 -> Blocks]
  BY <1>1, <1>2, <1>3, StackIs DEF StackReads, Ring, Holds
<1>5. Stack = <<>>
  BY <1>4, StackOfIs
<1>6. QED
  BY <1>1, <1>5 DEF Promise!Init

(* The ring implements the stack: state_manager_pop hands back the states that*)
(* were pushed, the last first and bit for bit, and what state_manager_push_do*)
(* forgets are the oldest ones.                                            *)
THEOREM RewindIsAStack ==
    ASSUME TwoDeltas PROVE Spec => IsAStack
<1>1. Init => Promise!Init
  BY StackStarts
<1>2. StackReads
  BY StackIs
<1>3. RewindInv /\ StackReads /\ StackReads' /\ [Next]_vars => [Promise!Next]_(Promise!vars)
  BY StepsOfStack
<1>4. QED
  BY RewindInvariant, <1>1, <1>2, <1>3, PTL DEF Spec, IsAStack, Promise!Spec

-----------------------------------------------------------------------------
\* A step that forgets is a push that had no room.
LEMMA PushForgetsForRoom ==
    ASSUME TwoDeltas, RewindInv, StackReads, StackReads', [Next]_vars, pushing,
           Len(Stack') < Len(Stack) + (IF pushing /\ ~pushing' THEN 1 ELSE 0)
    PROVE  Remaining(tail)' < 2 * MaxCompSize + Delta
<1>1. PICK k, p, s : Ring(k, p, s) /\ Tally(k)
  BY DEF RewindInv
<1>2. /\ k \in Nat /\ s \in [0 .. k -> Blocks] /\ Stack = StackOf(k, s, valid)
  BY <1>1 DEF Ring, Places, Holds, StackReads
<1>3. ~PopWhole /\ ~Pop /\ \A new \in States : ~PushWhere(new)
  BY DEF PopWhole, Pop, PushWhere
<1>4. ~ (UNCHANGED vars)
  <2>1. SUFFICES ASSUME UNCHANGED vars PROVE FALSE
    OBVIOUS
  <2>2. Ring(k, p, s)' /\ valid' = valid /\ pushing' = pushing
    BY <1>1, <2>1 DEF Ring, vars
  <2>3. Stack' = Stack
    BY <1>2, <2>2 DEF StackReads
  <2>4. Len(Stack) \in Nat
    BY <1>1, <1>2, StackOfIs DEF Tally, Whole
  <2>5. QED
    BY <2>2, <2>3, <2>4
<1>5. ~PushFirst
  <2>1. SUFFICES ASSUME PushFirst PROVE FALSE
    OBVIOUS
  <2>2. PICK new : new = nextblock
    OBVIOUS
  <2>3. k = 0 /\ new \in Blocks /\ Ring(0, p, [i \in 0 .. 0 |-> new])'
    BY <1>1, <2>1, <2>2, PushFirstKeeps DEF Blocks
  <2>4. valid = FALSE /\ valid' = TRUE
    BY <1>1, <2>1 DEF PushFirst, Tally, Whole
  <2>5. Stack' = StackOf(0, [i \in 0 .. 0 |-> new], TRUE)
    BY <2>3, <2>4 DEF StackReads
  <2>6. Len(Stack') = 0 + 1 /\ Len(Stack) = 0
    BY <1>2, <2>3, <2>4, <2>5, StackOfIs
  <2>7. QED
    BY <2>6
<1>6. PICK len \in Sizes : PushDo(len)
  BY <1>3, <1>4, <1>5 DEF Next
<1>7. PICK m : /\ KeepsUpTo(k, p, Discarded, m) /\ tail' = p[m]
               /\ Wraps(head + 1 + len) => p[m] # 1
               /\ m # k - Discarded => Wraps(head + 1 + len)
  BY <1>1, <1>6, TailGoesTo
<1>8. PICK new, n : new = nextblock /\ n = LinkAt(head, len) + 1
  OBVIOUS
<1>9. /\ m \in 0 .. k /\ new \in States
      /\ Ring(m + 1, Onto(m, n, UpTo(m, p)), Onto(m, new, UpTo(m, s)))'
  BY <1>1, <1>6, <1>7, <1>8, PushDoKeeps
<1>10. valid = TRUE /\ valid' = TRUE /\ pushing /\ ~pushing'
  BY <1>1, <1>6 DEF PushDo, Tally, Whole
<1>11. m < k
  <2>1. Stack' = StackOf(m + 1, Onto(m, new, UpTo(m, s)), TRUE)
    BY <1>9, <1>10 DEF StackReads
  <2>2. Onto(m, new, UpTo(m, s)) \in [0 .. m + 1 -> Blocks] /\ m + 1 \in Nat
    BY <1>9 DEF Ring, Holds, Places
  <2>3. Len(Stack') = (m + 1) + 1
    BY <2>1, <2>2, StackOfIs
  <2>4. Len(Stack) = k + 1
    BY <1>2, <1>10, StackOfIs
  <2>5. QED
    BY <1>2, <1>9, <1>10, <2>3, <2>4
<1>12. head' = n
  BY <1>6, <1>8 DEF PushDo, LinkAt
<1>13. ((p[m] + Capacity - 1 - n - 1) % Capacity) + 1 < 2 * MaxCompSize + Delta
  BY <1>1, <1>6, <1>7, <1>8, <1>11, LittleIsFree
<1>14. QED
  BY <1>7, <1>12, <1>13 DEF Remaining

(* state_manager_push_do gives up a state only where memory is short: afterwards*)
(* less is free than two of the largest deltas with their links and one without,*)
(* of which the last is what going back to the start of the ring may cut off.*)
THEOREM ForgetsOnlyForRoom ==
    ASSUME TwoDeltas PROVE Spec => DiscardsOnlyForRoom
<1>1. StackReads
  BY StackIs
<1>2. RewindInv /\ StackReads /\ StackReads' /\ [Next]_vars
        => [Len(Stack') < Len(Stack) + (IF pushing /\ ~pushing' THEN 1 ELSE 0) /\ pushing
              => Remaining(tail)' < 2 * MaxCompSize + Delta]_vars
  BY PushForgetsForRoom
<1>3. QED
  BY RewindInvariant, <1>1, <1>2, PTL DEF Spec, DiscardsOnlyForRoom

-----------------------------------------------------------------------------
(* The compression of a delta.                                                 *)

(* States of 0 or 3 modulo 4 bytes, which Round16 does not shorten, of less than *)
(* 8 GB, so that a skip fits the two words it is written in; and counts up to at *)
(* least 4, so that a long skip costs less than it passes.                       *)
Compressible ==
    /\ Uint16Max \in Nat /\ Uint16Max >= 4
    /\ StateSizes \subseteq Nat \ {0} /\ Alignments \subseteq BOOLEAN
    /\ \A bytes \in StateSizes :
         /\ bytes % 4 \in {0, 3}
         /\ WordsOf(Round16(bytes)) < (Uint16Max + 1) * (Uint16Max + 1)

\* The mark is behind the state and the words compress may look at, and within
\* the block.
LEMMA BlocksOf ==
    ASSUME Compressible, NEW bytes \in StateSizes
    PROVE  /\ WordsOf(bytes) \in Nat /\ WordsOf(Round16(bytes)) \in Nat
           /\ UniqAt(bytes) \in Nat /\ AllocWords(bytes) \in Nat
           /\ Round16(bytes) \in Nat
           /\ 1 <= WordsOf(bytes) /\ WordsOf(bytes) <= WordsOf(Round16(bytes))
           /\ WordsOf(bytes) + 3 <= UniqAt(bytes)
           /\ WordsOf(Round16(bytes)) + 2 <= UniqAt(bytes)
           /\ UniqAt(bytes) < AllocWords(bytes)
           /\ 2 * WordsOf(bytes) <= Round16(bytes)
           /\ 2 * WordsOf(bytes) <= bytes + 1
<1>1. bytes \in Nat /\ bytes >= 1 /\ (bytes % 4 = 0 \/ bytes % 4 = 3)
  BY DEF Compressible
<1>2. PICK k : k = bytes \div 4
  OBVIOUS
<1>3. k \in Nat /\ ((bytes = 4 * k /\ k >= 1) \/ bytes = 4 * k + 3)
  BY <1>1, <1>2
<1>4. CASE bytes = 4 * k /\ k >= 1
  <2>1. Round16(bytes) = 4 * k + 1
    BY <1>3, <1>4 DEF Round16
  <2>2. WordsOf(bytes) = 2 * k /\ WordsOf(Round16(bytes)) = 2 * k + 1
    BY <1>3, <1>4, <2>1 DEF WordsOf
  <2>3. UniqAt(bytes) = 2 * k + 3 /\ AllocWords(bytes) = 2 * k + 12
    BY <1>3, <2>1 DEF UniqAt, AllocWords
  <2>4. QED
    BY <1>3, <1>4, <2>1, <2>2, <2>3
<1>5. CASE bytes = 4 * k + 3
  <2>1. Round16(bytes) = 4 * k + 4
    BY <1>3, <1>5 DEF Round16
  <2>2. WordsOf(bytes) = 2 * k + 2 /\ WordsOf(Round16(bytes)) = 2 * k + 2
    BY <1>3, <1>5, <2>1 DEF WordsOf
  <2>3. UniqAt(bytes) = 2 * k + 5 /\ AllocWords(bytes) = 2 * k + 14
    BY <1>3, <2>1 DEF UniqAt, AllocWords
  <2>4. QED
    BY <1>3, <1>5, <2>1, <2>2, <2>3
<1>6. QED
  BY <1>3, <1>4, <1>5

\* A negative quotient makes a negative number.
LEMMA BelowZero ==
    ASSUME NEW m \in Nat, m > 0, NEW q \in Int, q < 0, NEW r \in Int, r < m
    PROVE  m * q + r < 0
<1>1. m * q <= m * (-1)
  <2>1. PICK d : d = -1 - q
    OBVIOUS
  <2>2. d \in Nat /\ q = -1 - d
    BY <2>1
  <2>3. m * d \in Nat /\ m * q = m * (-1) - m * d
    BY <2>2
  <2>4. QED
    BY <2>3
<1>2. m * (-1) = -m
  OBVIOUS
<1>3. m * q \in Int
  OBVIOUS
<1>4. QED
  BY <1>1, <1>2, <1>3

\* Dividing a number gives one, and what is left is less than the divisor.
LEMMA DividedBy ==
    ASSUME NEW x \in Nat, NEW m \in Nat, m > 0
    PROVE  /\ x \div m \in Nat /\ x % m \in 0 .. m - 1
           /\ x = m * (x \div m) + (x % m)
<1>1. PICK q, r : q = x \div m /\ r = x % m
  OBVIOUS
<1>2. x \div m \in Int /\ x % m \in 0 .. m - 1
  OBVIOUS
<1>3. x = m * (x \div m) + (x % m)
  OBVIOUS
<1>4. q \in Int /\ r \in 0 .. m - 1 /\ x = m * q + r
  BY <1>1, <1>2, <1>3
<1>5. ~ (q < 0)
  BY <1>4, BelowZero
<1>6. QED
  BY <1>1, <1>2, <1>3, <1>4, <1>5

\* Multiplying keeps the order.
LEMMA MoreTimes ==
    ASSUME NEW m \in Nat, NEW x \in Nat, NEW y \in Nat, x <= y
    PROVE  m * x <= m * y
<1>1. PICK d : d = y - x
  OBVIOUS
<1>2. d \in Nat /\ y = x + d
  BY <1>1
<1>3. m * d \in Nat /\ m * y = m * x + m * d
  BY <1>2
<1>4. m * x \in Nat
  OBVIOUS
<1>5. QED
  BY <1>3, <1>4

\* As many full blocks as state_manager_raw_maxsize counts cover the state.
LEMMA BlocksCover ==
    ASSUME Compressible, NEW bytes \in StateSizes, NEW b \in Nat
    PROVE  /\ MaxBlocks(bytes) \in Nat
           /\ Uint16Max * b <= WordsOf(bytes) => b <= MaxBlocks(bytes)
           /\ Uint16Max * b < WordsOf(bytes) => b + 1 <= MaxBlocks(bytes)
<1>1. PICK u, m, w : u = Uint16Max /\ m = MaxBlocks(bytes) /\ w = WordsOf(bytes)
  OBVIOUS
<1>2. u \in Nat /\ u >= 4 /\ bytes \in Nat /\ w \in Nat /\ 2 * w <= bytes + 1
  BY <1>1, BlocksOf DEF Compressible
<1>3. m \in Nat /\ (2 * u) * m >= bytes
  <2>1. m = (bytes + 2 * u - 1) \div (2 * u)
    BY <1>1 DEF MaxBlocks
  <2>2. bytes + 2 * u - 1 \in Nat /\ 2 * u \in Nat /\ 2 * u > 0
    BY <1>2
  <2>3. PICK x, y, r : x = bytes + 2 * u - 1 /\ y = 2 * u /\ r = x % y
    OBVIOUS
  <2>4. m \in Nat /\ r \in 0 .. y - 1 /\ x = y * m + r
    <3>1. x \in Nat /\ y \in Nat /\ y > 0 /\ m = x \div y
      BY <2>1, <2>2, <2>3
    <3>2. QED
      BY <2>3, <3>1, DividedBy
  <2>5. y * m \in Nat
    BY <2>2, <2>3, <2>4
  <2>6. y * m >= bytes
    BY <1>2, <2>3, <2>4, <2>5
  <2>7. QED
    BY <2>3, <2>4, <2>6
<1>4. u * m \in Nat /\ u * m >= w
  <2>1. (2 * u) * m = 2 * (u * m) /\ u * m \in Nat
    BY <1>2, <1>3
  <2>2. QED
    BY <1>2, <1>3, <2>1
<1>5. ASSUME b >= m + 1 PROVE u * b >= u * m + u
  <2>1. u * (m + 1) <= u * b
    BY <1>2, <1>3, <1>5, MoreTimes
  <2>2. u * (m + 1) = u * m + u
    BY <1>2, <1>3
  <2>3. QED
    BY <2>1, <2>2
<1>6. ASSUME b >= m PROVE u * b >= u * m
  BY <1>2, <1>3, <1>6, MoreTimes
<1>7. u * b \in Nat
  BY <1>2
<1>8. u * b <= w => b <= m
  BY <1>2, <1>3, <1>4, <1>5, <1>7
<1>9. u * b < w => b + 1 <= m
  BY <1>2, <1>3, <1>4, <1>6, <1>7
<1>10. QED
  BY <1>1, <1>3, <1>8, <1>9

-----------------------------------------------------------------------------
(* The scans.                                                                  *)

\* The two blocks: behind the state only the mark differs.
TwoBlocks ==
    /\ size \in StateSizes /\ aligned \in BOOLEAN
    /\ DOMAIN older = 0 .. AllocWords(size) - 1
    /\ \A i \in DOMAIN older : older[i] \in {0, 1}
    /\ \A i \in Int : Differ(i) => (i \in 0 .. WordsOf(size) - 1 \/ i = UniqAt(size))
    /\ Differ(UniqAt(size))

\* What Min says of a set of numbers.
LEMMA MinIs ==
    ASSUME NEW T \in SUBSET Nat, T # {}
    PROVE  Min(T) \in T /\ \A x \in T : Min(T) <= x
  BY Least DEF Min

\* find_change stops at the next change, at the latest at the mark; what it finds
\* within num16s words is in the state.
LEMMA ChangeIs ==
    ASSUME Compressible, TwoBlocks, NEW p \in Nat, p <= WordsOf(size),
           NEW c, c = FindChange(p)
    PROVE  /\ c \in Nat /\ p <= c /\ c <= UniqAt(size) /\ Differ(c)
           /\ \A i \in p .. c - 1 : ~Differ(i)
           /\ c < Num16s => c < WordsOf(size)
<1> DEFINE T == {i \in ScanPlaces : i >= p /\ Differ(i)}
<1>1. /\ WordsOf(size) \in Nat /\ Num16s \in Nat /\ UniqAt(size) \in Nat
      /\ AllocWords(size) \in Nat /\ WordsOf(size) + 3 <= UniqAt(size)
      /\ Num16s + 2 <= UniqAt(size) /\ UniqAt(size) < AllocWords(size)
  BY BlocksOf DEF TwoBlocks, Num16s
<1>2. T \in SUBSET Nat
  BY <1>1 DEF ScanPlaces
<1>3. UniqAt(size) \in T
  BY <1>1 DEF ScanPlaces, TwoBlocks
<1>4. c = Min(T)
  BY <1>3 DEF FindChange
<1>5. c \in T /\ \A x \in T : c <= x
  <2> HIDE DEF T
  <2>1. QED
    BY <1>2, <1>3, <1>4, MinIs
<1>6. c \in Nat /\ p <= c /\ c <= UniqAt(size) /\ Differ(c)
  BY <1>2, <1>3, <1>5
<1>7. \A i \in p .. c - 1 : ~Differ(i)
  <2>1. SUFFICES ASSUME NEW i \in p .. c - 1, Differ(i) PROVE FALSE
    OBVIOUS
  <2>2. i \in T
    BY <1>1, <1>6, <2>1 DEF ScanPlaces
  <2>3. QED
    BY <1>5, <1>6, <2>2
<1>8. c < Num16s => c < WordsOf(size)
  BY <1>1, <1>6 DEF TwoBlocks
<1>9. QED
  BY <1>6, <1>7, <1>8

\* The end of what is changed, two words at a time.
LEMMA PairedEndIs ==
    ASSUME Compressible, TwoBlocks, NEW p \in Nat, p < WordsOf(size), Differ(p),
           NEW e, e = PairedEnd(p)
    PROVE  e \in p + 1 .. WordsOf(size) /\ ~Differ(e) /\ ~Differ(e + 1)
<1> DEFINE T == {i \in Pairs(p) : SamePair(i)}
<1>1. /\ WordsOf(size) \in Nat /\ UniqAt(size) \in Nat
      /\ AllocWords(size) \in Nat /\ WordsOf(size) + 3 <= UniqAt(size)
      /\ UniqAt(size) < AllocWords(size)
  BY BlocksOf DEF TwoBlocks
<1>2. T \in SUBSET Nat
  BY <1>1 DEF Pairs, ScanPlaces
<1>3. \A i \in Int : i >= WordsOf(size) /\ i < UniqAt(size) => ~Differ(i)
  BY <1>1 DEF TwoBlocks
<1>4. PICK d : d \in {2, 3} /\ (UniqAt(size) - d - p) % 2 = 0
  <2>1. PICK x : x = UniqAt(size) - 3 - p
    OBVIOUS
  <2>2. x \in Nat
    BY <1>1, <2>1
  <2>3. x % 2 = 0 \/ (x + 1) % 2 = 0
    BY <2>2
  <2>4. x + 1 = UniqAt(size) - 2 - p
    BY <1>1, <2>1
  <2>5. QED
    BY <2>1, <2>3, <2>4
<1>5. PICK i : i = UniqAt(size) - d
  OBVIOUS
<1>6. i \in T
  <2>1. i \in Int /\ i >= WordsOf(size) /\ i + 1 < UniqAt(size)
    BY <1>1, <1>4, <1>5
  <2>2. SamePair(i)
    BY <1>1, <1>3, <2>1 DEF SamePair
  <2>3. i \in Pairs(p)
    BY <1>1, <1>4, <1>5, <2>1 DEF Pairs, ScanPlaces
  <2>4. QED
    BY <2>2, <2>3
<1>7. PICK pair : pair = Min(T)
  OBVIOUS
<1>8. pair \in T /\ \A x \in T : pair <= x
  <2> HIDE DEF T
  <2>1. QED
    BY <1>2, <1>6, <1>7, MinIs
<1>9. /\ pair \in Nat /\ pair >= p /\ (pair - p) % 2 = 0
      /\ ~Differ(pair) /\ ~Differ(pair + 1) /\ pair <= i
  <2>1. pair \in Pairs(p) /\ SamePair(pair)
    BY <1>8
  <2>2. pair \in Nat /\ pair >= p /\ (pair - p) % 2 = 0
    BY <1>1, <2>1 DEF Pairs, ScanPlaces
  <2>3. QED
    BY <1>6, <1>8, <2>1, <2>2 DEF SamePair
<1>10. pair >= p + 2
  <2>1. pair # p
    BY <1>9
  <2>2. QED
    BY <1>9, <2>1
<1>11. e = IF ~Differ(pair - 1) THEN pair - 1 ELSE pair
  BY <1>7, <1>10 DEF PairedEnd
<1>12. \A x \in {pair - 1, pair - 2} : Differ(x) => x < WordsOf(size)
  <2>1. \A x \in {pair - 1, pair - 2} : x \in Int /\ x # UniqAt(size)
    BY <1>1, <1>4, <1>5, <1>9
  <2>2. QED
    BY <1>1, <2>1 DEF TwoBlocks
<1>13. CASE ~Differ(pair - 1)
  <2>1. Differ(pair - 2)
    <3>1. SUFFICES ASSUME ~Differ(pair - 2) PROVE FALSE
      OBVIOUS
    <3>2. pair - 2 \in Pairs(p)
      BY <1>1, <1>4, <1>5, <1>9, <1>10 DEF Pairs, ScanPlaces
    <3>3. (pair - 2) + 1 = pair - 1
      BY <1>9
    <3>4. pair - 2 \in T
      BY <1>13, <3>1, <3>2, <3>3 DEF SamePair
    <3>5. QED
      BY <1>8, <1>9, <3>4
  <2>2. pair - 2 < WordsOf(size)
    BY <1>1, <1>12, <2>1
  <2>3. e = pair - 1 /\ e + 1 = pair
    BY <1>9, <1>11, <1>13
  <2>4. QED
    BY <1>1, <1>9, <1>10, <1>13, <2>2, <2>3
<1>14. CASE Differ(pair - 1)
  <2>1. pair - 1 < WordsOf(size)
    BY <1>1, <1>12, <1>14
  <2>2. QED
    BY <1>1, <1>9, <1>10, <1>11, <1>14, <2>1
<1>15. QED
  BY <1>13, <1>14

\* What is changed ends within the state, and where words may be read at odd
\* places too, two words that are the same come next.
LEMMA SameIs ==
    ASSUME Compressible, TwoBlocks, NEW p \in Nat, p < WordsOf(size), Differ(p),
           NEW e, e = FindSame(p)
    PROVE  /\ e \in p + 1 .. WordsOf(size)
           /\ ~aligned => ~Differ(e) /\ ~Differ(e + 1)
<1>1. WordsOf(size) \in Nat
  BY BlocksOf DEF TwoBlocks
<1>2. CASE ~ (aligned /\ p % 2 = 1)
  <2>1. e = PairedEnd(p)
    BY <1>2 DEF FindSame
  <2>2. QED
    BY <2>1, PairedEndIs
<1>3. CASE aligned /\ p % 2 = 1 /\ ~Differ(p + 1)
  BY <1>1, <1>3 DEF FindSame
<1>4. CASE aligned /\ p % 2 = 1 /\ Differ(p + 1)
  <2>1. PICK pair : pair = Min({i \in Pairs(p + 1) : SamePair(i)})
    OBVIOUS
  <2>2. e = IF ~Differ(pair - 1) THEN pair - 1 ELSE pair
    BY <1>4, <2>1 DEF FindSame
  <2>3. p + 1 \in Nat /\ p + 1 < WordsOf(size)
    <3>1. UniqAt(size) \in Nat /\ WordsOf(size) + 3 <= UniqAt(size)
      BY BlocksOf DEF TwoBlocks
    <3>2. QED
      BY <1>1, <1>4, <3>1 DEF TwoBlocks
  <2>4. PICK f : f = PairedEnd(p + 1)
    OBVIOUS
  <2>5. f \in p + 1 + 1 .. WordsOf(size)
    BY <1>4, <2>3, <2>4, PairedEndIs
  <2>6. CASE pair # p + 1
    <3>1. f = e
      BY <2>1, <2>2, <2>4, <2>6 DEF PairedEnd
    <3>2. QED
      BY <1>1, <1>4, <2>5, <3>1
  <2>7. CASE pair = p + 1
    <3>1. f = p + 1
      BY <2>1, <2>4, <2>7 DEF PairedEnd
    <3>2. QED
      BY <2>5, <3>1
  <2>8. QED
    BY <2>6, <2>7
<1>5. QED
  BY <1>2, <1>3, <1>4

-----------------------------------------------------------------------------
(* What a delta holds.                                                         *)

\* The entry at place q of the delta d copies words to the block, where it is at o;
\* the next entry begins at q2, and goes on at o2.
Copies(d, q, o, q2, o2) ==
    /\ d[q] \in Nat \ {0} /\ d[q + 1] \in Nat
    /\ q2 = q + 2 + d[q] /\ o2 = o + d[q + 1] + d[q]
    /\ \A i \in o .. o + d[q + 1] - 1 : ~Differ(i)
    /\ \A i \in o + d[q + 1] .. o2 - 1 : d[q + 2 + i - (o + d[q + 1])] = older[i]

\* The entry skips more words than one word can count.
Skips(d, q, o, q2, o2) ==
    /\ d[q] = 0 /\ d[q + 1] + (Uint16Max + 1) * d[q + 2] \in Nat \ {0}
    /\ q2 = q + 3 /\ o2 = o + (d[q + 1] + (Uint16Max + 1) * d[q + 2])
    /\ \A i \in o .. o2 - 1 : ~Differ(i)

\* The entries of a delta but for its end.
Entry(d, q, o, q2, o2) == Copies(d, q, o, q2, o2) \/ Skips(d, q, o, q2, o2)

\* The delta d begins with k entries: entry i leads from places q[i - 1] and
\* o[i - 1] to q[i] and o[i].
Entries(k, q, o, d) ==
    /\ k \in Nat /\ q \in [0 .. k -> Nat] /\ o \in [0 .. k -> Nat]
    /\ q[0] = 1 /\ o[0] = 0
    /\ \A i \in 0 .. k : 1 <= q[i] /\ q[i] <= Len(d) + 1 /\ o[i] <= WordsOf(size)
    /\ \A i \in 1 .. k : Entry(d, q[i - 1], o[i - 1], q[i], o[i])

\* A row with one more at its end.
Followed(k, f, x) == [i \in 0 .. k + 1 |-> IF i = k + 1 THEN x ELSE f[i]]

\* What is added behind an entry leaves it what it is.
LEMMA EntryStays ==
    ASSUME NEW d, NEW d2, NEW q \in Nat, NEW o \in Nat, NEW q2, NEW o2,
           Entry(d, q, o, q2, o2), 1 <= q,
           \A i \in Nat : 1 <= i /\ i < q2 => d2[i] = d[i]
    PROVE  Entry(d2, q, o, q2, o2)
<1>1. CASE Copies(d, q, o, q2, o2)
  <2>1. PICK n, m : n = d[q] /\ m = d[q + 1]
    OBVIOUS
  <2>2. n \in Nat \ {0} /\ m \in Nat /\ q2 = q + 2 + n /\ o2 = o + m + n
    BY <1>1, <2>1 DEF Copies
  <2>3. d2[q] = n /\ d2[q + 1] = m
    BY <2>1, <2>2
  <2>4. \A i \in o + m .. o2 - 1 : d2[q + 2 + i - (o + m)] = older[i]
    <3>1. SUFFICES ASSUME NEW i \in o + m .. o2 - 1 PROVE d2[q + 2 + i - (o + m)] = older[i]
      OBVIOUS
    <3>2. d[q + 2 + i - (o + m)] = older[i]
      BY <1>1, <2>1 DEF Copies
    <3>3. q + 2 + i - (o + m) \in Nat /\ 1 <= q + 2 + i - (o + m) /\ q + 2 + i - (o + m) < q2
      BY <2>2
    <3>4. QED
      BY <3>2, <3>3
  <2>5. \A i \in o .. o + m - 1 : ~Differ(i)
    BY <1>1, <2>1 DEF Copies
  <2>6. QED
    BY <2>2, <2>3, <2>4, <2>5 DEF Copies, Entry
<1>2. CASE Skips(d, q, o, q2, o2)
  <2>1. d2[q] = d[q] /\ d2[q + 1] = d[q + 1] /\ d2[q + 2] = d[q + 2]
    BY <1>2 DEF Skips
  <2>2. QED
    BY <1>2, <2>1 DEF Skips, Entry
<1>3. QED
  BY <1>1, <1>2 DEF Entry

\* One more entry.
LEMMA EntriesGrow ==
    ASSUME NEW k, NEW q, NEW o, NEW d, Entries(k, q, o, d),
           NEW d2, Len(d) \in Nat, Len(d2) \in Nat, Len(d) <= Len(d2),
           \A i \in 1 .. Len(d) : d2[i] = d[i],
           NEW x \in Nat, NEW y \in Nat, Entry(d2, q[k], o[k], x, y),
           1 <= x, x <= Len(d2) + 1, y <= WordsOf(size)
    PROVE  Entries(k + 1, Followed(k, q, x), Followed(k, o, y), d2)
<1>1. k \in Nat /\ q \in [0 .. k -> Nat] /\ o \in [0 .. k -> Nat]
  BY DEF Entries
<1> DEFINE r == Followed(k, q, x)
           p == Followed(k, o, y)
<1>2. /\ r \in [0 .. k + 1 -> Nat] /\ p \in [0 .. k + 1 -> Nat]
      /\ \A i \in 0 .. k : r[i] = q[i] /\ p[i] = o[i]
      /\ r[k + 1] = x /\ p[k + 1] = y
  BY <1>1 DEF Followed
<1> HIDE DEF r, p
<1>3. r[0] = 1 /\ p[0] = 0
  BY <1>1, <1>2 DEF Entries
<1>4. \A i \in 0 .. k + 1 : 1 <= r[i] /\ r[i] <= Len(d2) + 1 /\ p[i] <= WordsOf(size)
  <2>1. \A i \in 0 .. k : 1 <= q[i] /\ q[i] <= Len(d) + 1 /\ o[i] <= WordsOf(size)
    BY DEF Entries
  <2>2. \A i \in 0 .. k : q[i] \in Nat
    BY <1>1
  <2>3. \A i \in 0 .. k + 1 : i \in 0 .. k \/ i = k + 1
    BY <1>1
  <2>4. QED
    BY <1>2, <2>1, <2>2, <2>3
<1>5. ASSUME NEW i \in 1 .. k + 1 PROVE Entry(d2, r[i - 1], p[i - 1], r[i], p[i])
  <2>1. CASE i = k + 1
    BY <1>1, <1>2, <2>1
  <2>2. CASE i \in 1 .. k
    <3>1. /\ Entry(d, q[i - 1], o[i - 1], q[i], o[i])
          /\ q[i - 1] \in Nat /\ o[i - 1] \in Nat /\ q[i] \in Nat
          /\ 1 <= q[i - 1] /\ q[i] <= Len(d) + 1
      BY <1>1, <2>2 DEF Entries
    <3>2. \A j \in Nat : 1 <= j /\ j < q[i] => d2[j] = d[j]
      BY <3>1
    <3>3. Entry(d2, q[i - 1], o[i - 1], q[i], o[i])
      BY <3>1, <3>2, EntryStays
    <3>4. r[i - 1] = q[i - 1] /\ p[i - 1] = o[i - 1] /\ r[i] = q[i] /\ p[i] = o[i]
      BY <1>1, <1>2, <2>2
    <3>5. QED
      BY <3>3, <3>4
  <2>3. QED
    BY <1>1, <2>1, <2>2
<1>6. Entries(k + 1, r, p, d2)
  BY <1>1, <1>2, <1>3, <1>4, <1>5 DEF Entries
<1>7. QED
  BY <1>6 DEF r, p

\* The same entries in a longer delta.
LEMMA EntriesStay ==
    ASSUME NEW k, NEW q, NEW o, NEW d, Entries(k, q, o, d),
           NEW d2, Len(d) \in Nat, Len(d2) \in Nat, Len(d) <= Len(d2),
           \A i \in 1 .. Len(d) : d2[i] = d[i]
    PROVE  Entries(k, q, o, d2)
<1>1. k \in Nat /\ q \in [0 .. k -> Nat] /\ o \in [0 .. k -> Nat]
  BY DEF Entries
<1>2. ASSUME NEW i \in 1 .. k PROVE Entry(d2, q[i - 1], o[i - 1], q[i], o[i])
  <2>1. /\ Entry(d, q[i - 1], o[i - 1], q[i], o[i])
        /\ q[i - 1] \in Nat /\ o[i - 1] \in Nat /\ q[i] \in Nat
        /\ 1 <= q[i - 1] /\ q[i] <= Len(d) + 1
    BY <1>1 DEF Entries
  <2>2. \A j \in Nat : 1 <= j /\ j < q[i] => d2[j] = d[j]
    BY <2>1
  <2>3. QED
    BY <2>1, <2>2, EntryStays
<1>3. \A i \in 0 .. k : 1 <= q[i] /\ q[i] <= Len(d2) + 1 /\ o[i] <= WordsOf(size)
  BY <1>1 DEF Entries
<1>4. QED
  BY <1>1, <1>2, <1>3 DEF Entries

-----------------------------------------------------------------------------
(* The invariant.  What the delta has cost is accounted for by Packed while it *)
(* grows, and what it means by its entries (Entries), by which the block is led*)
(* back: before the place of the next entry it is the older state, behind it   *)
(* still the newer one.                                                        *)

\* What a delta of len words has cost when the scan has come to here: two words for
\* each of b full blocks, which cover as much of the state.
Paid(b, here, len) == b \in Nat /\ Uint16Max * b <= here /\ len <= here + 2 * b

\* The same, for b full blocks and one that is not.
Owes(b, here, len) == b \in Nat /\ Uint16Max * b < here /\ len <= here + 2 * b + 2

\* The cost of the delta so far; the two words a block that is not full costs are
\* saved by what is skipped next.
Packed ==
    \E b : \/ Paid(b, at, Len(patch))
           \/ Owes(b, at, Len(patch)) /\ ~Differ(at) /\ ~Differ(at + 1)

\* The room of the delta: while it grows, and then.
Fits == ~aligned => IF phase = "compress" THEN Packed ELSE FitsMaxSize

\* Decompress has read n entries.
LedBackTo(q, o, n) ==
    /\ patch16 = q[n] /\ out16 = o[n]
    /\ \A i \in StateWords : out[i] = IF i < o[n] THEN older[i] ELSE newer[i]

\* Compress has written k entries, and decompress not begun.
Compressed(k, q) == q[k] = Len(patch) + 1 /\ patch16 = 1 /\ out16 = 0 /\ out = newer

\* The delta is at its end after k entries, and nothing differs behind them.
Ended(k, q, o) ==
    /\ patch[q[k]] = 0 /\ patch[q[k] + 1] = 0 /\ patch[q[k] + 2] = 0
    /\ \A i \in StateWords : i >= at => ~Differ(i)
    /\ \E n \in 0 .. k : LedBackTo(q, o, n) /\ (phase = "done" => n = k)

\* The delta is a row of entries that reaches as far as compress has come.
Encoded ==
    \E k, q, o :
       /\ Entries(k, q, o, patch) /\ o[k] = at
       /\ IF phase = "compress" THEN Compressed(k, q) ELSE Ended(k, q, o)

\* Types.
Kinds ==
    /\ patch \in Seq(0 .. Uint16Max)
    /\ at \in Nat /\ at <= WordsOf(size)
    /\ DOMAIN out = DOMAIN older /\ DOMAIN newer = DOMAIN older

\* The inductive invariant.
CompressionInv == TwoBlocks /\ Kinds /\ Fits /\ Encoded

\* It holds at the beginning: an empty delta, and no words gone over.
LEMMA InitCompresses ==
    ASSUME Compressible, InitDelta
    PROVE  CompressionInv
<1>1. PICK a \in Contents(size), b \in Contents(size), x \in {0, 1} :
        older = Block(size, a, x) /\ newer = Block(size, b, 1 - x)
  <2>1. 1 - 0 = 1 /\ 1 - 1 = 0
    OBVIOUS
  <2>2. QED
    BY <2>1 DEF InitDelta
<1>2. /\ WordsOf(size) \in Nat /\ UniqAt(size) \in Nat
      /\ AllocWords(size) \in Nat
      /\ 1 <= WordsOf(size) /\ WordsOf(size) + 3 <= UniqAt(size)
      /\ UniqAt(size) < AllocWords(size) /\ size \in StateSizes /\ aligned \in BOOLEAN
  BY BlocksOf DEF InitDelta, Compressible
<1>3. \A i \in 0 .. WordsOf(size) - 1 : a[i] \in {0, 1} /\ b[i] \in {0, 1}
  BY DEF Contents
<1>4. /\ DOMAIN older = 0 .. AllocWords(size) - 1 /\ DOMAIN newer = DOMAIN older
      /\ \A i \in 0 .. AllocWords(size) - 1 :
           /\ older[i] = IF i < WordsOf(size) THEN a[i]
                       ELSE IF i = UniqAt(size) THEN x ELSE 0
           /\ newer[i] = IF i < WordsOf(size) THEN b[i]
                       ELSE IF i = UniqAt(size) THEN 1 - x ELSE 0
  BY <1>1 DEF Block
<1>5. TwoBlocks
  <2>1. \A i \in DOMAIN older : older[i] \in {0, 1}
    BY <1>2, <1>3, <1>4
  <2>2. ASSUME NEW i \in Int, Differ(i)
        PROVE  i \in 0 .. WordsOf(size) - 1 \/ i = UniqAt(size)
    BY <1>2, <1>4, <2>2 DEF Differ
  <2>3. Differ(UniqAt(size))
    BY <1>2, <1>4 DEF Differ
  <2>4. QED
    BY <1>2, <1>4, <2>1, <2>2, <2>3 DEF TwoBlocks
<1>6. Kinds
  BY <1>2, <1>4 DEF Kinds, InitDelta
<1>7. Fits
  <2>1. Len(patch) = 0 /\ at = 0 /\ phase = "compress"
    BY DEF InitDelta
  <2>2. Uint16Max * 0 = 0
    BY DEF Compressible
  <2>3. Paid(0, at, Len(patch))
    BY <2>1, <2>2 DEF Paid
  <2>4. QED
    BY <2>1, <2>3 DEF Fits, Packed
<1>8. Encoded
  <2> DEFINE q == [i \in 0 .. 0 |-> 1]
             o == [i \in 0 .. 0 |-> 0]
  <2>1. /\ 0 \in Nat /\ q \in [0 .. 0 -> Nat] /\ o \in [0 .. 0 -> Nat]
        /\ \A i \in 0 .. 0 : q[i] = 1 /\ o[i] = 0
    OBVIOUS
  <2>2. q[0] = 1 /\ o[0] = 0
    BY <2>1
  <2> HIDE DEF q, o
  <2>3. /\ Len(patch) = 0 /\ at = 0 /\ phase = "compress"
        /\ patch16 = 1 /\ out16 = 0 /\ out = newer
    BY DEF InitDelta
  <2>4. Entries(0, q, o, patch)
    <3>1. \A i \in 1 .. 0 : FALSE
      OBVIOUS
    <3>2. \A i \in 0 .. 0 : 1 <= q[i] /\ q[i] <= Len(patch) + 1 /\ o[i] <= WordsOf(size)
      BY <1>2, <2>1, <2>3
    <3>3. QED
      BY <2>1, <2>2, <3>1, <3>2 DEF Entries
  <2>5. Compressed(0, q)
    BY <2>2, <2>3 DEF Compressed
  <2>6. QED
    BY <2>2, <2>3, <2>4, <2>5 DEF Encoded
<1>9. QED
  BY <1>5, <1>6, <1>7, <1>8 DEF CompressionInv

\* The blocks are read only.
LEMMA BlocksStay ==
    ASSUME TwoBlocks, UNCHANGED <<aligned, size, older, newer>>
    PROVE  /\ TwoBlocks'
           /\ \A i : Differ(i)' = Differ(i)
<1>1. \A i : Differ(i)' <=> Differ(i)
  BY DEF Differ
<1>2. \A i : Differ(i)' = Differ(i)
  BY DEF Differ
<1>3. TwoBlocks'
  BY DEF TwoBlocks, Differ
<1>4. QED
  BY <1>2, <1>3

\* Entries of what the delta becomes are entries of it then.
LEMMA EntriesAreKept ==
    ASSUME NEW k, NEW q, NEW o, NEW d, Entries(k, q, o, d),
           UNCHANGED <<size, older, newer>>, d = patch'
    PROVE  Entries(k, q, o, patch)'
  BY DEF Entries, Entry, Copies, Skips, Differ

\* Where a turn of compress stands.
LEMMA TurnIs ==
    ASSUME Compressible, TwoBlocks, Kinds, Compressing,
           NEW c, c = FindChange(at)
    PROVE  /\ c \in Nat /\ at <= c /\ c < WordsOf(size) /\ Differ(c)
           /\ \A i \in at .. c - 1 : ~Differ(i)
           /\ Skip = c - at /\ WordsOf(size) \in Nat
<1>1. at \in Nat /\ at <= WordsOf(size)
  BY DEF Kinds
<1>2. c < Num16s
  BY DEF Compressing
<1>3. WordsOf(size) \in Nat
  BY BlocksOf DEF TwoBlocks
<1>4. QED
  BY <1>1, <1>2, <1>3, ChangeIs DEF Skip

\* A long skip pays for itself, and for the block before it.
LEMMA SkipFits ==
    ASSUME Compressible, NEW here \in Nat, NEW there \in Nat, NEW len \in Nat,
           here + Uint16Max < there,
           NEW b, Paid(b, here, len) \/ Owes(b, here, len)
    PROVE  Paid(b, there, len + 3)
<1>1. Uint16Max \in Nat /\ Uint16Max >= 4 /\ b \in Nat
  BY DEF Compressible, Paid, Owes
<1>2. PICK x : x = Uint16Max * b
  OBVIOUS
<1>3. x \in Nat
  BY <1>1, <1>2
<1>4. x <= here /\ len <= here + 2 * b + 2
  BY <1>1, <1>2, <1>3 DEF Paid, Owes
<1>5. x <= there /\ len + 3 <= there + 2 * b
  BY <1>1, <1>3, <1>4
<1>6. QED
  BY <1>1, <1>2, <1>5 DEF Paid

\* A long skip is one more entry.
LEMMA SkipKeeps ==
    ASSUME Compressible, CompressionInv, CompressSkip
    PROVE  CompressionInv'
<1> USE DEF CompressionInv
<1>1. PICK c : c = FindChange(at)
  OBVIOUS
<1>2. Compressing /\ phase = "compress" /\ phase' = "compress"
  BY DEF CompressSkip, Compressing
<1>3. /\ c \in Nat /\ at <= c /\ c < WordsOf(size) /\ Differ(c)
      /\ \A i \in at .. c - 1 : ~Differ(i)
      /\ Skip = c - at /\ WordsOf(size) \in Nat
  BY <1>1, <1>2, TurnIs
<1>4. at \in Nat /\ patch \in Seq(0 .. Uint16Max)
  BY DEF Kinds
<1>5. Uint16Max \in Nat /\ Uint16Max >= 4
  BY DEF Compressible
<1>6. PICK m, s, lo, hi : m = Uint16Max + 1 /\ s = c - at /\ lo = s % m /\ hi = s \div m
  OBVIOUS
<1>7. s \in Nat /\ s > Uint16Max /\ m \in Nat /\ m > 0
  BY <1>3, <1>4, <1>5, <1>6 DEF CompressSkip
<1>8. lo \in 0 .. Uint16Max /\ hi \in Nat /\ s = m * hi + lo
  BY <1>5, <1>6, <1>7, DividedBy
<1>9. hi \in 0 .. Uint16Max
  <2>1. s < m * m
    <3>1. WordsOf(Round16(size)) < m * m
      BY <1>6 DEF Compressible, TwoBlocks
    <3>2. WordsOf(size) <= WordsOf(Round16(size)) /\ WordsOf(Round16(size)) \in Nat
      BY BlocksOf DEF TwoBlocks
    <3>3. m * m \in Nat
      BY <1>7
    <3>4. QED
      BY <1>3, <1>4, <1>6, <3>1, <3>2, <3>3
  <2>2. SUFFICES ASSUME hi >= m PROVE FALSE
    BY <1>5, <1>6, <1>8
  <2>3. m * m <= m * hi
    BY <1>7, <1>8, <2>2, MoreTimes
  <2>4. m * hi \in Nat /\ m * m \in Nat
    BY <1>7, <1>8
  <2>5. QED
    BY <1>5, <1>7, <1>8, <2>1, <2>3, <2>4
<1>10. patch' = patch \o <<0, lo, hi>> /\ at' = c
  BY <1>1, <1>3, <1>6 DEF CompressSkip
<1>11. PICK d : d = patch'
  OBVIOUS
<1>12. /\ d \in Seq(0 .. Uint16Max) /\ Len(d) = Len(patch) + 3 /\ Len(patch) \in Nat
       /\ \A i \in 1 .. Len(patch) : d[i] = patch[i]
       /\ d[Len(patch) + 1] = 0 /\ d[Len(patch) + 2] = lo /\ d[Len(patch) + 3] = hi
  BY <1>4, <1>5, <1>8, <1>9, <1>10, <1>11
<1>13. TwoBlocks' /\ \A i : Differ(i)' = Differ(i)
  BY BlocksStay DEF CompressSkip
<1>14. Kinds'
  BY <1>3, <1>10, <1>11, <1>12 DEF Kinds, CompressSkip
<1>15. Fits'
  <2>1. SUFFICES ASSUME ~aligned PROVE Packed'
    BY <1>2 DEF Fits, CompressSkip
  <2>2. PICK b : Paid(b, at, Len(patch)) \/ Owes(b, at, Len(patch))
    BY <1>2, <2>1 DEF Fits, Packed
  <2>3. at + Uint16Max < c
    BY <1>3, <1>4, <1>5, <1>6, <1>7
  <2>4. Paid(b, c, Len(d))
    BY <1>3, <1>4, <1>12, <2>2, <2>3, SkipFits
  <2>5. Paid(b, at, Len(patch))'
    BY <1>10, <1>11, <2>4 DEF Paid
  <2>6. QED
    BY <2>5 DEF Packed
<1>16. Encoded'
  <2>1. PICK k, q, o : Entries(k, q, o, patch) /\ o[k] = at /\ Compressed(k, q)
    BY <1>2 DEF Encoded
  <2>2. q[k] = Len(patch) + 1 /\ k \in Nat
    BY <2>1 DEF Compressed, Entries
  <2>3. Entry(d, q[k], o[k], Len(d) + 1, c)
    <3>1. /\ d[q[k]] = 0 /\ d[q[k] + 1] = lo /\ d[q[k] + 2] = hi
          /\ Len(d) + 1 = q[k] + 3
      BY <1>12, <2>2
    <3>2. lo + (Uint16Max + 1) * hi = s
      <4>1. m * hi \in Nat
        BY <1>7, <1>8
      <4>2. QED
        BY <1>6, <1>8, <4>1
    <3>3. s \in Nat \ {0} /\ c = at + s
      BY <1>3, <1>4, <1>5, <1>6, <1>7
    <3>4. Skips(d, q[k], o[k], Len(d) + 1, c)
      BY <1>3, <2>1, <3>1, <3>2, <3>3 DEF Skips
    <3>5. QED
      BY <3>4 DEF Entry
  <2>4. PICK r, p : r = Followed(k, q, Len(d) + 1) /\ p = Followed(k, o, c)
    OBVIOUS
  <2>5. Entries(k + 1, r, p, d)
    BY <1>3, <1>12, <2>1, <2>3, <2>4, EntriesGrow
  <2>6. Entries(k + 1, r, p, patch)'
    BY <1>11, <2>5, EntriesAreKept DEF CompressSkip
  <2>7. r[k + 1] = Len(d) + 1 /\ p[k + 1] = c
    BY <2>2, <2>4 DEF Followed
  <2>8. Compressed(k + 1, r)'
    BY <1>11, <2>1, <2>7 DEF Compressed, CompressSkip
  <2>9. QED
    BY <1>2, <1>10, <2>6, <2>7, <2>8 DEF Encoded
<1>17. QED
  BY <1>13, <1>14, <1>15, <1>16

\* A block costs two words more than it changes, and a block that is not full is
\* followed by two words it saves; full blocks are counted.
LEMMA BlockFits ==
    ASSUME Compressible, NEW here \in Nat, NEW len \in Nat, NEW skip \in Nat,
           NEW n \in 1 .. Uint16Max, NEW b,
           Paid(b, here, len) \/ (Owes(b, here, len) /\ skip >= 2)
    PROVE  /\ n = Uint16Max => Paid(b + 1, here + skip + n, len + 2 + n)
           /\ n # Uint16Max => Owes(b, here + skip + n, len + 2 + n)
<1>1. Uint16Max \in Nat /\ Uint16Max >= 4 /\ b \in Nat
  BY DEF Compressible, Paid, Owes
<1>2. PICK x, u : x = Uint16Max * b /\ u = Uint16Max
  OBVIOUS
<1>3. x \in Nat /\ u \in Nat /\ n \in 1 .. u
  BY <1>1, <1>2
<1>4. Uint16Max * (b + 1) = x + u
  BY <1>1, <1>2
<1>5. x <= here /\ len <= here + 2 * b + skip
  BY <1>1, <1>2, <1>3 DEF Paid, Owes
<1>6. n = u => x + u <= here + skip + n /\ len + 2 + n <= here + skip + n + 2 * (b + 1)
  BY <1>1, <1>3, <1>5
<1>7. x < here + skip + n /\ len + 2 + n <= here + skip + n + 2 * b + 2
  BY <1>1, <1>3, <1>5
<1>8. n = u => Paid(b + 1, here + skip + n, len + 2 + n)
  BY <1>1, <1>4, <1>6 DEF Paid
<1>9. Owes(b, here + skip + n, len + 2 + n)
  BY <1>1, <1>2, <1>7 DEF Owes
<1>10. QED
  BY <1>2, <1>8, <1>9

\* A count of changed words, and the words, are one more entry.
LEMMA BlockKeeps ==
    ASSUME Compressible, CompressionInv, CompressBlock
    PROVE  CompressionInv'
<1> USE DEF CompressionInv
<1>1. PICK c, e, n, s : /\ c = FindChange(at) /\ e = FindSame(c)
                        /\ n = Changed /\ s = Skip
  OBVIOUS
<1>2. Compressing /\ phase = "compress" /\ phase' = "compress"
  BY DEF CompressBlock, Compressing
<1>3. /\ c \in Nat /\ at <= c /\ c < WordsOf(size) /\ Differ(c)
      /\ \A i \in at .. c - 1 : ~Differ(i)
      /\ s = c - at /\ WordsOf(size) \in Nat
  BY <1>1, <1>2, TurnIs
<1>4. at \in Nat /\ patch \in Seq(0 .. Uint16Max)
  BY DEF Kinds
<1>5. Uint16Max \in Nat /\ Uint16Max >= 4
  BY DEF Compressible
<1>6. e \in c + 1 .. WordsOf(size) /\ (~aligned => ~Differ(e) /\ ~Differ(e + 1))
  BY <1>1, <1>3, SameIs
<1>7. n \in 1 .. Uint16Max /\ n <= e - c /\ (n # Uint16Max => n = e - c)
  <2>1. PICK T : T = {e - c, Uint16Max}
    OBVIOUS
  <2>2. e - c \in Nat /\ e - c >= 1
    BY <1>3, <1>6
  <2>3. T \in SUBSET Nat /\ T # {}
    BY <1>5, <2>1, <2>2
  <2>4. n = Min(T)
    BY <1>1, <2>1 DEF Changed
  <2>5. n \in T /\ \A x \in T : n <= x
    BY <2>3, <2>4, MinIs
  <2>6. QED
    BY <1>5, <2>1, <2>2, <2>5
<1>8. s \in 0 .. Uint16Max /\ c + n <= WordsOf(size)
  <2>1. s <= Uint16Max
    BY <1>1 DEF CompressBlock
  <2>2. e \in Nat /\ e <= WordsOf(size)
    BY <1>3, <1>6
  <2>3. QED
    BY <1>3, <1>4, <1>5, <1>7, <2>1, <2>2
<1>9. PICK f : f = [i \in 1 .. n |-> older[c + i - 1]]
  OBVIOUS
<1>10. f \in Seq(0 .. Uint16Max) /\ Len(f) = n /\ \A i \in 1 .. n : f[i] = older[c + i - 1]
  <2>1. \A i \in 1 .. n : older[c + i - 1] \in {0, 1}
    <3>1. SUFFICES ASSUME NEW i \in 1 .. n PROVE c + i - 1 \in 0 .. AllocWords(size) - 1
      BY DEF TwoBlocks
    <3>2. /\ UniqAt(size) \in Nat /\ AllocWords(size) \in Nat
          /\ WordsOf(size) + 3 <= UniqAt(size) /\ UniqAt(size) < AllocWords(size)
      BY BlocksOf DEF TwoBlocks
    <3>3. QED
      BY <1>3, <1>7, <1>8, <3>2
  <2>2. {0, 1} \subseteq 0 .. Uint16Max
    BY <1>5
  <2>3. n \in Nat /\ f \in [1 .. n -> 0 .. Uint16Max]
    BY <1>7, <1>9, <2>1, <2>2
  <2>4. QED
    BY <1>9, <2>3
<1>11. patch' = patch \o <<n, s>> \o f /\ at' = c + n
  BY <1>1, <1>9 DEF CompressBlock
<1>12. PICK d : d = patch'
  OBVIOUS
<1>13. /\ d \in Seq(0 .. Uint16Max) /\ Len(d) = Len(patch) + 2 + n /\ Len(patch) \in Nat
       /\ \A i \in 1 .. Len(patch) : d[i] = patch[i]
       /\ d[Len(patch) + 1] = n /\ d[Len(patch) + 2] = s
       /\ \A i \in 1 .. n : d[Len(patch) + 2 + i] = older[c + i - 1]
  <2>1. PICK g : g = patch \o <<n, s>>
    OBVIOUS
  <2>2. /\ g \in Seq(0 .. Uint16Max) /\ Len(g) = Len(patch) + 2 /\ Len(patch) \in Nat
        /\ \A i \in 1 .. Len(patch) : g[i] = patch[i]
        /\ g[Len(patch) + 1] = n /\ g[Len(patch) + 2] = s
    BY <1>4, <1>5, <1>7, <1>8, <2>1
  <2>3. d = g \o f
    BY <1>11, <1>12, <2>1
  <2>4. /\ d \in Seq(0 .. Uint16Max) /\ Len(d) = Len(g) + n
        /\ \A i \in 1 .. Len(g) + n : d[i] = IF i <= Len(g) THEN g[i] ELSE f[i - Len(g)]
    <3>1. g \in Seq(0 .. Uint16Max) /\ f \in Seq(0 .. Uint16Max) /\ Len(f) = n
      BY <1>10, <2>2
    <3>2. QED
      BY <2>3, <3>1, ConcatProperties
  <2>5. n \in Nat
    BY <1>7
  <2>6. \A i \in 1 .. Len(g) : d[i] = g[i]
    BY <2>2, <2>4, <2>5
  <2>7. ASSUME NEW i \in 1 .. n PROVE d[Len(patch) + 2 + i] = older[c + i - 1]
    <3>1. PICK j : j = Len(patch) + 2 + i
      OBVIOUS
    <3>2. j \in 1 .. Len(g) + n /\ ~ (j <= Len(g)) /\ j - Len(g) = i
      BY <2>2, <2>5, <3>1
    <3>3. d[j] = f[i]
      BY <2>4, <3>2
    <3>4. QED
      BY <1>10, <3>1, <3>3
  <2>8. QED
    BY <2>2, <2>4, <2>5, <2>6, <2>7
<1>14. TwoBlocks' /\ \A i : Differ(i)' = Differ(i)
  BY BlocksStay DEF CompressBlock
<1>15. Kinds'
  <2>1. c + n \in Nat
    BY <1>3, <1>7
  <2>2. patch' \in Seq(0 .. Uint16Max)
    BY <1>12, <1>13
  <2>3. QED
    BY <1>8, <1>11, <2>1, <2>2 DEF Kinds, CompressBlock
<1>16. Fits'
  <2>1. SUFFICES ASSUME ~aligned PROVE Packed'
    BY <1>2 DEF Fits, CompressBlock
  <2>2. PICK b : Paid(b, at, Len(patch)) \/ (Owes(b, at, Len(patch)) /\ s >= 2)
    <3>1. ~Differ(at) /\ ~Differ(at + 1) => s >= 2
      <4>1. SUFFICES ASSUME ~Differ(at), ~Differ(at + 1) PROVE c # at /\ c # at + 1
        BY <1>3, <1>4
      <4>2. QED
        BY <1>3, <4>1
    <3>2. QED
      BY <1>2, <2>1, <3>1 DEF Fits, Packed
  <2>3. s \in Nat /\ at + s + n = c + n /\ Len(patch) + 2 + n = Len(d)
    BY <1>3, <1>4, <1>7, <1>13
  <2>4. /\ n = Uint16Max => Paid(b + 1, c + n, Len(d))
        /\ n # Uint16Max => Owes(b, c + n, Len(d))
    <3>1. PICK h, len : h = at /\ len = Len(patch)
      OBVIOUS
    <3>2. h \in Nat /\ len \in Nat /\ s \in Nat /\ n \in 1 .. Uint16Max
      BY <1>4, <1>7, <1>13, <2>3, <3>1
    <3>3. Paid(b, h, len) \/ (Owes(b, h, len) /\ s >= 2)
      BY <2>2, <3>1
    <3>4. /\ n = Uint16Max => Paid(b + 1, h + s + n, len + 2 + n)
          /\ n # Uint16Max => Owes(b, h + s + n, len + 2 + n)
      BY <3>2, <3>3, BlockFits
    <3>5. h + s + n = c + n /\ len + 2 + n = Len(d)
      BY <2>3, <3>1
    <3>6. QED
      BY <3>4, <3>5
  <2>5. n # Uint16Max => ~Differ(c + n) /\ ~Differ(c + n + 1)
    <3>1. n = e - c => c + n = e
      BY <1>3, <1>6
    <3>2. QED
      BY <1>6, <1>7, <2>1, <3>1
  <2>6. CASE n = Uint16Max
    <3>1. Paid(b + 1, at, Len(patch))'
      BY <1>11, <1>12, <2>4, <2>6 DEF Paid
    <3>2. QED
      BY <3>1 DEF Packed
  <2>7. CASE n # Uint16Max
    <3>1. Owes(b, at, Len(patch))'
      BY <1>11, <1>12, <2>4, <2>7 DEF Owes
    <3>2. (~Differ(at) /\ ~Differ(at + 1))'
      <4>1. at' = c + n
        BY <1>11
      <4>2. ~Differ(c + n) /\ ~Differ(c + n + 1)
        BY <2>5, <2>7
      <4>3. QED
        BY <4>1, <4>2 DEF Differ, CompressBlock
    <3>3. QED
      BY <3>1, <3>2 DEF Packed
  <2>8. QED
    BY <2>6, <2>7
<1>17. Encoded'
  <2>1. PICK k, q, o : Entries(k, q, o, patch) /\ o[k] = at /\ Compressed(k, q)
    BY <1>2 DEF Encoded
  <2>2. q[k] = Len(patch) + 1 /\ k \in Nat
    BY <2>1 DEF Compressed, Entries
  <2>3. Entry(d, q[k], o[k], Len(d) + 1, c + n)
    <3>1. /\ d[q[k]] = n /\ d[q[k] + 1] = s
          /\ Len(d) + 1 = q[k] + 2 + n
      BY <1>7, <1>13, <2>2
    <3>2. at + s = c /\ c + n = at + s + n /\ s \in Nat /\ n \in Nat \ {0}
      BY <1>3, <1>4, <1>7
    <3>3. ASSUME NEW i \in c .. c + n - 1 PROVE d[q[k] + 2 + i - c] = older[i]
      <4>1. PICK j : j = i - c + 1
        OBVIOUS
      <4>2. j \in 1 .. n /\ i = c + j - 1
        BY <1>3, <1>7, <4>1
      <4>3. q[k] + 2 + i - c = Len(patch) + 2 + j
        BY <1>3, <1>13, <2>2, <4>1
      <4>4. QED
        BY <1>13, <4>2, <4>3
    <3>4. Copies(d, q[k], o[k], Len(d) + 1, c + n)
      <4>1. PICK x, y, z : x = q[k] /\ y = o[k] /\ z = c + n
        OBVIOUS
      <4>2. /\ y = at /\ y \in Nat /\ s \in Nat /\ c \in Nat /\ n \in Nat \ {0}
            /\ y + s = c /\ z = y + s + n
        BY <1>3, <1>4, <2>1, <3>2, <4>1
      <4>3. d[x] = n /\ d[x + 1] = s /\ Len(d) + 1 = x + 2 + n
        BY <3>1, <4>1
      <4>4. ASSUME NEW i \in y .. y + s - 1 PROVE ~Differ(i)
        <5>1. i \in at .. c - 1
          BY <4>2
        <5>2. QED
          BY <1>3, <5>1
      <4>5. ASSUME NEW i \in y + s .. z - 1 PROVE d[x + 2 + i - (y + s)] = older[i]
        <5>1. i \in c .. c + n - 1
          BY <4>1, <4>2
        <5>2. d[q[k] + 2 + i - c] = older[i]
          BY <3>3, <5>1
        <5>3. QED
          BY <4>1, <4>2, <5>2
      <4>6. Copies(d, x, y, Len(d) + 1, z)
        BY <4>2, <4>3, <4>4, <4>5 DEF Copies
      <4>7. QED
        BY <4>1, <4>6
    <3>5. QED
      BY <3>4 DEF Entry
  <2>4. PICK r, p : r = Followed(k, q, Len(d) + 1) /\ p = Followed(k, o, c + n)
    OBVIOUS
  <2>5. Entries(k + 1, r, p, d)
    <3>1. c + n \in Nat /\ Len(d) + 1 \in Nat /\ Len(d) \in Nat /\ Len(patch) <= Len(d)
      BY <1>3, <1>7, <1>13
    <3>2. QED
      BY <1>8, <1>13, <2>1, <2>3, <2>4, <3>1, EntriesGrow
  <2>6. Entries(k + 1, r, p, patch)'
    BY <1>12, <2>5, EntriesAreKept DEF CompressBlock
  <2>7. r[k + 1] = Len(d) + 1 /\ p[k + 1] = c + n
    BY <2>2, <2>4 DEF Followed
  <2>8. Compressed(k + 1, r)'
    BY <1>12, <2>1, <2>7 DEF Compressed, CompressBlock
  <2>9. QED
    BY <1>2, <1>11, <2>6, <2>7, <2>8 DEF Encoded
<1>18. QED
  BY <1>14, <1>15, <1>16, <1>17

\* The blocks that are paid for, and the three words behind them, have room.
LEMMA EndFits ==
    ASSUME Compressible, NEW bytes \in StateSizes,
           NEW here \in Nat, here <= WordsOf(bytes), NEW len \in Nat,
           NEW b, Paid(b, here, len) \/ Owes(b, here, len)
    PROVE  2 * (len + 3) <= MaxSize(bytes)
<1>1. PICK w, m, r : w = WordsOf(bytes) /\ m = MaxBlocks(bytes) /\ r = Round16(bytes)
  OBVIOUS
<1>2. b \in Nat /\ Uint16Max \in Nat /\ Uint16Max * b \in Nat
  BY DEF Compressible, Paid, Owes
<1>3. w \in Nat /\ m \in Nat /\ r \in Nat /\ 2 * w <= r /\ here <= w
  BY <1>1, <1>2, BlocksOf, BlocksCover
<1>4. MaxSize(bytes) = r + m * 2 * 2 + 2 * 3
  BY <1>1 DEF MaxSize
<1>5. len <= here + 2 * m
  <2>1. CASE Paid(b, here, len)
    <3>1. Uint16Max * b <= w /\ len <= here + 2 * b
      BY <1>2, <1>3, <2>1 DEF Paid
    <3>2. b <= m
      BY <1>1, <1>2, <3>1, BlocksCover
    <3>3. QED
      BY <1>2, <1>3, <3>1, <3>2
  <2>2. CASE Owes(b, here, len)
    <3>1. Uint16Max * b < w /\ len <= here + 2 * b + 2
      BY <1>2, <1>3, <2>2 DEF Owes
    <3>2. b + 1 <= m
      BY <1>1, <1>2, <3>1, BlocksCover
    <3>3. QED
      BY <1>2, <1>3, <3>1, <3>2
  <2>3. QED
    BY <2>1, <2>2
<1>6. QED
  BY <1>3, <1>4, <1>5

\* Where nothing differs any more, three zeroes end the delta.
LEMMA EndKeeps ==
    ASSUME Compressible, CompressionInv, EndCompress
    PROVE  CompressionInv'
<1> USE DEF CompressionInv
<1>1. phase = "compress" /\ phase' = "decompress" /\ at' = at /\ out' = out
  BY DEF EndCompress
<1>2. at \in Nat /\ at <= WordsOf(size) /\ patch \in Seq(0 .. Uint16Max)
  BY DEF Kinds
<1>3. PICK d : d = patch'
  OBVIOUS
<1>4. /\ d \in Seq(0 .. Uint16Max) /\ Len(d) = Len(patch) + 3 /\ Len(patch) \in Nat
      /\ \A i \in 1 .. Len(patch) : d[i] = patch[i]
      /\ d[Len(patch) + 1] = 0 /\ d[Len(patch) + 2] = 0 /\ d[Len(patch) + 3] = 0
  <2>1. 0 \in 0 .. Uint16Max
    BY DEF Compressible
  <2>2. d = patch \o <<0, 0, 0>>
    BY <1>3 DEF EndCompress
  <2>3. QED
    BY <1>2, <2>1, <2>2
<1>5. TwoBlocks' /\ \A i : Differ(i)' = Differ(i)
  BY BlocksStay DEF EndCompress
<1>6. Kinds'
  BY <1>2, <1>3, <1>4 DEF Kinds, EndCompress
<1>7. Fits'
  <2>1. SUFFICES ASSUME ~aligned PROVE FitsMaxSize'
    BY <1>1 DEF Fits, EndCompress
  <2>2. PICK b : Paid(b, at, Len(patch)) \/ Owes(b, at, Len(patch))
    BY <1>1, <2>1 DEF Fits, Packed
  <2>3. 2 * (Len(patch) + 3) <= MaxSize(size)
    <3>1. PICK h, len : h = at /\ len = Len(patch)
      OBVIOUS
    <3>2. h \in Nat /\ h <= WordsOf(size) /\ len \in Nat /\ size \in StateSizes
      BY <1>2, <1>4, <3>1 DEF TwoBlocks
    <3>3. Paid(b, h, len) \/ Owes(b, h, len)
      BY <2>2, <3>1
    <3>4. QED
      BY <3>1, <3>2, <3>3, EndFits
  <2>4. QED
    BY <1>3, <1>4, <2>3 DEF FitsMaxSize, EndCompress
<1>8. \A i \in StateWords : i >= at => ~Differ(i)
  <2>1. SUFFICES ASSUME NEW i \in StateWords, i >= at PROVE ~Differ(i)
    OBVIOUS
  <2>2. WordsOf(size) \in Nat /\ Num16s \in Nat /\ WordsOf(size) <= Num16s
    BY BlocksOf DEF TwoBlocks, Num16s
  <2>3. i \in Nat /\ i < WordsOf(size)
    BY <2>2 DEF StateWords
  <2>4. PICK c : c = FindChange(at)
    OBVIOUS
  <2>5. c >= Num16s
    BY <1>2, <2>1, <2>2, <2>3, <2>4 DEF EndCompress
  <2>6. c \in Nat /\ \A j \in at .. c - 1 : ~Differ(j)
    BY <1>2, <2>4, ChangeIs
  <2>7. QED
    BY <1>2, <2>1, <2>2, <2>3, <2>5, <2>6
<1>9. Encoded'
  <2>1. PICK k, q, o : Entries(k, q, o, patch) /\ o[k] = at /\ Compressed(k, q)
    BY <1>1 DEF Encoded
  <2>2. q[k] = Len(patch) + 1 /\ k \in Nat /\ q[0] = 1 /\ o[0] = 0
    BY <2>1 DEF Compressed, Entries
  <2>3. Entries(k, q, o, d)
    BY <1>4, <2>1, EntriesStay
  <2>4. Entries(k, q, o, patch)'
    BY <1>3, <2>3, EntriesAreKept DEF EndCompress
  <2>5. d[q[k]] = 0 /\ d[q[k] + 1] = 0 /\ d[q[k] + 2] = 0
    BY <1>4, <2>2
  <2>6. LedBackTo(q, o, 0)
    <3>1. patch16 = 1 /\ out16 = 0 /\ out = newer
      BY <2>1 DEF Compressed
    <3>2. \A i \in StateWords : ~ (i < 0)
      <4>1. WordsOf(size) \in Nat
        BY BlocksOf DEF TwoBlocks
      <4>2. QED
        BY <4>1 DEF StateWords
    <3>3. QED
      BY <2>2, <3>1, <3>2 DEF LedBackTo
  <2>7. LedBackTo(q, o, 0)'
    BY <2>6 DEF LedBackTo, StateWords, EndCompress
  <2>8. (\A i \in StateWords : i >= at => ~Differ(i))'
    BY <1>8 DEF StateWords, Differ, EndCompress
  <2>9. Ended(k, q, o)'
    <3>1. 0 \in 0 .. k /\ phase' # "done"
      BY <1>1, <2>2
    <3>2. (\E n \in 0 .. k : LedBackTo(q, o, n) /\ (phase = "done" => n = k))'
      BY <2>7, <3>1
    <3>3. QED
      BY <1>3, <2>5, <2>8, <3>2 DEF Ended
  <2>10. QED
    BY <1>1, <2>1, <2>4, <2>9 DEF Encoded
<1>10. QED
  BY <1>5, <1>6, <1>7, <1>9

\* A step of decompress to entry n keeps the invariant.
LEMMA ReadsOn ==
    ASSUME CompressionInv, phase # "compress", phase' # "compress",
           UNCHANGED <<aligned, size, older, newer, at, patch>>, DOMAIN out' = DOMAIN out,
           NEW k, NEW q, NEW o, Entries(k, q, o, patch), o[k] = at, Ended(k, q, o),
           NEW n \in 0 .. k, LedBackTo(q, o, n)', phase' = "done" => n = k
    PROVE  CompressionInv'
<1> USE DEF CompressionInv
<1>1. TwoBlocks'
  BY BlocksStay
<1>2. Kinds' /\ Fits'
  BY DEF Kinds, Fits, FitsMaxSize
<1>3. Encoded'
  <2>1. Entries(k, q, o, patch)'
    BY EntriesAreKept
  <2>2. (\E i \in 0 .. k : LedBackTo(q, o, i) /\ (phase = "done" => i = k))'
    OBVIOUS
  <2>3. (\A i \in StateWords : i >= at => ~Differ(i))'
    BY DEF Ended, StateWords, Differ
  <2>4. Ended(k, q, o)'
    BY <2>2, <2>3 DEF Ended
  <2>5. QED
    BY <2>1, <2>4 DEF Encoded
<1>4. QED
  BY <1>1, <1>2, <1>3

\* What decompress finds behind entry n: another one, or the end.
LEMMA ReadIs ==
    ASSUME Compressible,
           NEW k, NEW q, NEW o, Entries(k, q, o, patch), Ended(k, q, o),
           NEW n \in 0 .. k, patch16 = q[n], out16 = o[n]
    PROVE  /\ patch[patch16] # 0 =>
                n + 1 \in 0 .. k /\ Copies(patch, q[n], o[n], q[n + 1], o[n + 1])
           /\ patch[patch16] = 0 /\ Unchanged # 0 =>
                n + 1 \in 0 .. k /\ Skips(patch, q[n], o[n], q[n + 1], o[n + 1])
           /\ patch[patch16] = 0 /\ Unchanged = 0 => n = k
<1>1. k \in Nat
  BY DEF Entries
<1>2. n # k => n + 1 \in 0 .. k /\ Entry(patch, q[n], o[n], q[n + 1], o[n + 1])
  <2>1. SUFFICES ASSUME n # k
                 PROVE  n + 1 \in 0 .. k /\ Entry(patch, q[n], o[n], q[n + 1], o[n + 1])
    OBVIOUS
  <2>2. PICK i : i = n + 1
    OBVIOUS
  <2>3. i \in 1 .. k /\ i - 1 = n
    BY <1>1, <2>1, <2>2
  <2>4. Entry(patch, q[i - 1], o[i - 1], q[i], o[i])
    BY <2>3 DEF Entries
  <2>5. QED
    BY <2>2, <2>3, <2>4
<1>3. n = k => patch[patch16] = 0 /\ Unchanged = 0
  <2>1. n = k => patch[patch16] = 0 /\ patch[patch16 + 1] = 0 /\ patch[patch16 + 2] = 0
    BY DEF Ended
  <2>2. n = k => Unchanged = 0 + (Uint16Max + 1) * 0
    BY <2>1 DEF Unchanged
  <2>3. 0 + (Uint16Max + 1) * 0 = 0
    BY DEF Compressible
  <2>4. QED
    BY <2>1, <2>2, <2>3
<1>4. Copies(patch, q[n], o[n], q[n + 1], o[n + 1]) => patch[patch16] # 0
  BY DEF Copies
<1>5. Skips(patch, q[n], o[n], q[n + 1], o[n + 1]) => patch[patch16] = 0 /\ Unchanged # 0
  BY DEF Skips, Unchanged
<1>6. QED
  BY <1>2, <1>3, <1>4, <1>5 DEF Entry

\* Copying words leads the block back as far as they go.
LEMMA CopyKeeps ==
    ASSUME Compressible, CompressionInv, DecompressBlock
    PROVE  CompressionInv'
<1> USE DEF CompressionInv
<1>1. phase = "decompress" /\ phase' = "decompress"
  BY DEF DecompressBlock
<1>2. PICK k, q, o : Entries(k, q, o, patch) /\ o[k] = at /\ Ended(k, q, o)
  BY <1>1 DEF Encoded
<1>3. PICK n \in 0 .. k : LedBackTo(q, o, n)
  BY <1>2 DEF Ended
<1>4. patch16 = q[n] /\ out16 = o[n]
  BY <1>3 DEF LedBackTo
<1>5. n + 1 \in 0 .. k /\ Copies(patch, q[n], o[n], q[n + 1], o[n + 1])
  BY <1>2, <1>4, ReadIs DEF DecompressBlock
<1>6. PICK x, y, z, a, b : /\ x = q[n] /\ y = o[n] /\ z = o[n + 1]
                           /\ a = patch[x] /\ b = patch[x + 1]
  OBVIOUS
<1>7. /\ a \in Nat \ {0} /\ b \in Nat /\ z = y + b + a /\ q[n + 1] = x + 2 + a
      /\ \A i \in y .. y + b - 1 : ~Differ(i)
      /\ \A i \in y + b .. z - 1 : patch[x + 2 + i - (y + b)] = older[i]
  <2>1. Copies(patch, x, y, q[n + 1], z)
    BY <1>5, <1>6
  <2>2. QED
    BY <1>6, <2>1 DEF Copies
<1>8. y \in Nat
  BY <1>2, <1>6 DEF Entries
<1>9. /\ patch16 = x /\ out16 = y
      /\ out16' = y + b + a /\ patch16' = x + 2 + a
      /\ out' = [i \in DOMAIN out |-> IF i \in y + b .. y + b + a - 1
                                      THEN patch[x + 2 + i - (y + b)] ELSE out[i]]
  BY <1>4, <1>6 DEF DecompressBlock
<1>10. ASSUME NEW i \in StateWords PROVE out'[i] = IF i < z THEN older[i] ELSE newer[i]
  <2>1. i \in Nat /\ i \in DOMAIN older /\ i \in DOMAIN out
    <3>1. /\ WordsOf(size) \in Nat /\ UniqAt(size) \in Nat /\ AllocWords(size) \in Nat
          /\ WordsOf(size) + 3 <= UniqAt(size) /\ UniqAt(size) < AllocWords(size)
      BY BlocksOf DEF TwoBlocks
    <3>2. QED
      BY <3>1 DEF StateWords, TwoBlocks, Kinds
  <2>2. out[i] = IF i < y THEN older[i] ELSE newer[i]
    BY <1>3, <1>4, <1>9 DEF LedBackTo
  <2>3. CASE i \in y + b .. y + b + a - 1
    <3>1. out'[i] = patch[x + 2 + i - (y + b)]
      BY <1>9, <2>1, <2>3
    <3>2. i < z /\ i \in y + b .. z - 1
      BY <1>7, <1>8, <2>1, <2>3
    <3>3. QED
      BY <1>7, <3>1, <3>2
  <2>4. CASE i \notin y + b .. y + b + a - 1
    <3>1. out'[i] = out[i]
      BY <1>9, <2>1, <2>4
    <3>2. CASE i \in y .. y + b - 1
      <4>1. ~Differ(i)
        BY <1>7, <3>2
      <4>2. older[i] = newer[i]
        BY <2>1, <4>1 DEF Differ
      <4>3. i < z /\ ~ (i < y)
        BY <1>7, <1>8, <2>1, <3>2
      <4>4. QED
        BY <2>2, <3>1, <4>2, <4>3
    <3>3. CASE i \notin y .. y + b - 1
      <4>1. i < y <=> i < z
        BY <1>7, <1>8, <2>1, <2>4, <3>3
      <4>2. QED
        BY <2>2, <3>1, <4>1
    <3>4. QED
      BY <3>2, <3>3
  <2>5. QED
    BY <2>3, <2>4
<1>11. LedBackTo(q, o, n + 1)'
  <2>1. patch16' = q[n + 1] /\ out16' = o[n + 1]
    BY <1>6, <1>7, <1>9
  <2>2. StateWords' = StateWords /\ older' = older /\ newer' = newer
    BY DEF StateWords, DecompressBlock
  <2>3. \A i \in StateWords : out'[i] = IF i < o[n + 1] THEN older[i] ELSE newer[i]
    BY <1>6, <1>10
  <2>4. QED
    BY <2>1, <2>2, <2>3 DEF LedBackTo
<1>12. DOMAIN out' = DOMAIN out
  BY <1>9
<1>13. QED
  BY <1>1, <1>2, <1>5, <1>11, <1>12, ReadsOn DEF DecompressBlock

\* What is skipped is the same in both states.
LEMMA UnchangedKeeps ==
    ASSUME Compressible, CompressionInv, DecompressSkip
    PROVE  CompressionInv'
<1> USE DEF CompressionInv
<1>1. phase = "decompress" /\ phase' = "decompress" /\ out' = out
  BY DEF DecompressSkip
<1>2. PICK k, q, o : Entries(k, q, o, patch) /\ o[k] = at /\ Ended(k, q, o)
  BY <1>1 DEF Encoded
<1>3. PICK n \in 0 .. k : LedBackTo(q, o, n)
  BY <1>2 DEF Ended
<1>4. patch16 = q[n] /\ out16 = o[n]
  BY <1>3 DEF LedBackTo
<1>5. n + 1 \in 0 .. k /\ Skips(patch, q[n], o[n], q[n + 1], o[n + 1])
  BY <1>2, <1>4, ReadIs DEF DecompressSkip
<1>6. PICK x, y, z, s : /\ x = q[n] /\ y = o[n] /\ z = o[n + 1] /\ s = Unchanged
  OBVIOUS
<1>7. /\ s \in Nat \ {0} /\ z = y + s /\ q[n + 1] = x + 3
      /\ \A i \in y .. z - 1 : ~Differ(i)
  <2>1. Skips(patch, x, y, q[n + 1], z) /\ x = patch16
    BY <1>4, <1>5, <1>6
  <2>2. s = patch[x + 1] + (Uint16Max + 1) * patch[x + 2]
    BY <1>6, <2>1 DEF Unchanged
  <2>3. QED
    BY <2>1, <2>2 DEF Skips
<1>8. y \in Nat
  BY <1>2, <1>6 DEF Entries
<1>9. out16' = z /\ patch16' = x + 3
  BY <1>4, <1>6, <1>7 DEF DecompressSkip
<1>10. ASSUME NEW i \in StateWords PROVE out[i] = IF i < z THEN older[i] ELSE newer[i]
  <2>1. i \in Nat /\ i \in DOMAIN older
    <3>1. /\ WordsOf(size) \in Nat /\ UniqAt(size) \in Nat /\ AllocWords(size) \in Nat
          /\ WordsOf(size) + 3 <= UniqAt(size) /\ UniqAt(size) < AllocWords(size)
      BY BlocksOf DEF TwoBlocks
    <3>2. QED
      BY <3>1 DEF StateWords, TwoBlocks
  <2>2. out[i] = IF i < y THEN older[i] ELSE newer[i]
    BY <1>3, <1>6 DEF LedBackTo
  <2>3. CASE i \in y .. z - 1
    <3>1. older[i] = newer[i]
      BY <1>7, <2>1, <2>3 DEF Differ
    <3>2. QED
      BY <2>2, <3>1
  <2>4. CASE i \notin y .. z - 1
    <3>1. i < y <=> i < z
      BY <1>7, <1>8, <2>1, <2>4
    <3>2. QED
      BY <2>2, <3>1
  <2>5. QED
    BY <2>3, <2>4
<1>11. LedBackTo(q, o, n + 1)'
  <2>1. patch16' = q[n + 1] /\ out16' = o[n + 1]
    BY <1>6, <1>7, <1>9
  <2>2. StateWords' = StateWords /\ older' = older /\ newer' = newer
    BY DEF StateWords, DecompressSkip
  <2>3. \A i \in StateWords : out'[i] = IF i < o[n + 1] THEN older[i] ELSE newer[i]
    BY <1>1, <1>6, <1>10
  <2>4. QED
    BY <2>1, <2>2, <2>3 DEF LedBackTo
<1>12. QED
  BY <1>1, <1>2, <1>5, <1>11, ReadsOn DEF DecompressSkip

\* At the zeroes all entries have been read.
LEMMA DoneKeeps ==
    ASSUME Compressible, CompressionInv, EndDecompress
    PROVE  CompressionInv'
<1> USE DEF CompressionInv
<1>1. phase = "decompress" /\ phase' = "done" /\ out' = out
  BY DEF EndDecompress
<1>2. PICK k, q, o : Entries(k, q, o, patch) /\ o[k] = at /\ Ended(k, q, o)
  BY <1>1 DEF Encoded
<1>3. PICK n \in 0 .. k : LedBackTo(q, o, n)
  BY <1>2 DEF Ended
<1>4. n = k
  <2>1. patch16 = q[n] /\ out16 = o[n]
    BY <1>3 DEF LedBackTo
  <2>2. QED
    BY <1>2, <2>1, ReadIs DEF EndDecompress
<1>5. LedBackTo(q, o, n)'
  BY <1>3 DEF LedBackTo, StateWords, EndDecompress
<1>6. QED
  BY <1>1, <1>2, <1>4, <1>5, ReadsOn DEF EndDecompress

\* No step of the two loops breaks the invariant.
LEMMA CompressionKept ==
    ASSUME Compressible, CompressionInv, [NextDelta]_deltaVars
    PROVE  CompressionInv'
<1>1. CASE EndCompress
  BY <1>1, EndKeeps
<1>2. CASE CompressSkip
  BY <1>2, SkipKeeps
<1>3. CASE CompressBlock
  BY <1>3, BlockKeeps
<1>4. CASE DecompressBlock
  BY <1>4, CopyKeeps
<1>5. CASE DecompressSkip
  BY <1>5, UnchangedKeeps
<1>6. CASE EndDecompress
  BY <1>6, DoneKeeps
<1>7. CASE UNCHANGED deltaVars
  <2>1. TwoBlocks' /\ Kinds'
    BY <1>7, BlocksStay DEF CompressionInv, Kinds, deltaVars
  <2>2. Fits'
    BY <1>7 DEF CompressionInv, Fits, Packed, FitsMaxSize, Paid, Owes, Differ, deltaVars
  <2>3. Encoded'
    <3>1. PICK k, q, o : /\ Entries(k, q, o, patch) /\ o[k] = at
                         /\ IF phase = "compress" THEN Compressed(k, q) ELSE Ended(k, q, o)
      BY DEF CompressionInv, Encoded
    <3>2. Entries(k, q, o, patch)'
      BY <1>7, <3>1, EntriesAreKept DEF deltaVars
    <3>3. Compressed(k, q) => Compressed(k, q)'
      BY <1>7 DEF Compressed, deltaVars
    <3>4. Ended(k, q, o) => Ended(k, q, o)'
      BY <1>7 DEF Ended, LedBackTo, StateWords, Differ, deltaVars
    <3>5. QED
      BY <1>7, <3>1, <3>2, <3>3, <3>4 DEF Encoded, deltaVars
  <2>4. QED
    BY <2>1, <2>2, <2>3 DEF CompressionInv
<1>8. QED
  BY <1>1, <1>2, <1>3, <1>4, <1>5, <1>6, <1>7 DEF NextDelta

\* What the delta has cost is within the room the ring keeps for one.
LEMMA FitsSize ==
    ASSUME Compressible, CompressionInv
    PROVE  DeltaInv
<1> USE DEF CompressionInv
<1>1. TypeOKDelta
  <2>1. \A i \in DOMAIN patch : patch[i] \in 0 .. Uint16Max
    <3>1. patch \in [1 .. Len(patch) -> 0 .. Uint16Max]
      BY LenProperties DEF Kinds
    <3>2. QED
      BY <3>1
  <2>2. QED
    BY <2>1 DEF TypeOKDelta, Kinds, TwoBlocks
<1>2. WordsOf(size) \in Nat /\ Num16s \in Nat /\ WordsOf(size) <= Num16s
  BY BlocksOf DEF TwoBlocks, Num16s
<1>3. at \in Nat /\ at <= WordsOf(size) /\ Len(patch) \in Nat
  BY DEF Kinds
<1>4. StaysInState
  BY <1>2, <1>3 DEF StaysInState
<1>5. ~aligned => FitsMaxSize
  <2>1. SUFFICES ASSUME ~aligned, phase = "compress" PROVE FitsMaxSize
    BY DEF Fits
  <2>2. PICK b : Paid(b, at, Len(patch)) \/ Owes(b, at, Len(patch))
    BY <2>1 DEF Fits, Packed
  <2>3. 2 * (Len(patch) + 3) <= MaxSize(size)
    <3>1. PICK h, len : h = at /\ len = Len(patch)
      OBVIOUS
    <3>2. h \in Nat /\ h <= WordsOf(size) /\ len \in Nat /\ size \in StateSizes
      BY <1>3, <3>1 DEF TwoBlocks
    <3>3. Paid(b, h, len) \/ Owes(b, h, len)
      BY <2>2, <3>1
    <3>4. QED
      BY <3>1, <3>2, <3>3, EndFits
  <2>4. MaxSize(size) \in Nat
    <3>1. PICK m, r : m = MaxBlocks(size) /\ r = Round16(size)
      OBVIOUS
    <3>2. size \in StateSizes
      BY DEF TwoBlocks
    <3>3. m \in Nat
      BY <3>1, <3>2, BlocksCover
    <3>4. r \in Nat
      BY <3>1, <3>2, BlocksOf
    <3>5. MaxSize(size) = r + m * 2 * 2 + 2 * 3
      BY <3>1 DEF MaxSize
    <3>6. QED
      BY <3>3, <3>4, <3>5
  <2>5. QED
    BY <1>3, <2>3, <2>4 DEF FitsMaxSize
<1>6. QED
  BY <1>1, <1>4, <1>5 DEF DeltaInv

\* When all entries have been read the block is the older state.
LEMMA BackIs ==
    ASSUME Compressible, CompressionInv
    PROVE  LeadsBack
<1> USE DEF CompressionInv
<1>1. SUFFICES ASSUME phase = "done", NEW i \in StateWords PROVE out[i] = older[i]
  BY DEF LeadsBack
<1>2. PICK k, q, o : o[k] = at /\ Ended(k, q, o)
  BY <1>1 DEF Encoded
<1>3. LedBackTo(q, o, k)
  BY <1>1, <1>2 DEF Ended
<1>4. out[i] = IF i < at THEN older[i] ELSE newer[i]
  BY <1>2, <1>3 DEF LedBackTo
<1>5. i \in Nat /\ i \in DOMAIN older /\ at \in Nat
  <2>1. /\ WordsOf(size) \in Nat /\ UniqAt(size) \in Nat /\ AllocWords(size) \in Nat
        /\ WordsOf(size) + 3 <= UniqAt(size) /\ UniqAt(size) < AllocWords(size)
    BY BlocksOf DEF TwoBlocks
  <2>2. QED
    BY <2>1 DEF StateWords, TwoBlocks, Kinds
<1>6. i >= at => older[i] = newer[i]
  BY <1>2, <1>5 DEF Ended, Differ
<1>7. QED
  BY <1>4, <1>5, <1>6

(* The invariant of state_manager_raw_compress and state_manager_raw_decompress.  *)
THEOREM CompressionInvariant ==
    ASSUME Compressible
    PROVE  SpecDelta => []CompressionInv
<1>1. InitDelta => CompressionInv
  BY InitCompresses
<1>2. CompressionInv /\ [NextDelta]_deltaVars => CompressionInv'
  BY CompressionKept
<1>3. QED
  BY <1>1, <1>2, PTL DEF SpecDelta

(* "'patch' must be size 'state_manager_raw_maxsize(len)' or more" (rewind.h): on   *)
(* builds that may read words at any place that is room enough for every delta,   *)
(* and on every build the scans, which check no bounds, stay within the state.    *)
THEOREM DeltaFits ==
    ASSUME Compressible
    PROVE  SpecDelta => []DeltaInv
<1>1. CompressionInv => DeltaInv
  BY FitsSize
<1>2. QED
  BY <1>1, CompressionInvariant, PTL

(* Applied to the newer state a delta leads back to the older one, word for word,  *)
(* on every build: what was compressed is what state_manager_pop hands back.      *)
THEOREM DeltaLeadsBack ==
    ASSUME Compressible
    PROVE  SpecDelta => []LeadsBack
<1>1. CompressionInv => LeadsBack
  BY BackIs
<1>2. QED
  BY <1>1, CompressionInvariant, PTL
=============================================================================
