-------------------------- MODULE MsgQueue_proofs --------------------------
(***************************************************************************)
(* Proofs about the message queue, for a heap of every size, all addresses   *)
(* malloc may return, and any number of pushes: the heap operations neither   *)
(* lose nor double a message, each is shown for its time, and the text that   *)
(* was pulled is there when it is copied.                                    *)
(***************************************************************************)
EXTENDS MsgQueue, WellFoundedInduction, TLAPS

-----------------------------------------------------------------------------
(* A set of numbers has a least one.                                          *)

\* The library's theorem, for sets of numbers.
LEMMA MinimalOf ==
    ASSUME NEW R, NEW T \in SUBSET Nat, T # {}, IsWellFoundedOn(R, Nat)
    PROVE  \E x \in T : \A y \in T : ~ (<<y, x>> \in R)
  BY WFMin

\* < as a set of pairs.
LEMMA LessOf ==
    ASSUME NEW x \in Nat, NEW y \in Nat, x < y
    PROVE  <<x, y>> \in OpToRel(<, Nat)
  BY DEF OpToRel

\* What stands in for induction here.
LEMMA Least ==
    ASSUME NEW T \in SUBSET Nat, T # {}
    PROVE  \E x \in T : \A y \in T : x <= y
<1>1. PICK x \in T : \A y \in T : ~ (<<y, x>> \in OpToRel(<, Nat))
  <2>1. \E x \in T : \A y \in T : ~ (<<y, x>> \in OpToRel(<, Nat))
    BY MinimalOf, NatLessThanWellFounded
  <2>2. QED
    BY <2>1
<1>2. \A y \in T : y \in Nat /\ x \in Nat
  OBVIOUS
<1>3. \A y \in T : ~ (y < x)
  BY <1>1, <1>2, LessOf
<1>4. QED
  BY <1>2, <1>3

-----------------------------------------------------------------------------
(* The way through a heap.  A step up leads to a lower place, a step down to a *)
(* higher one, and either may stay where it is.                               *)

Steps(n) == [1 .. n -> 1 .. n]
Goes(n, step) ==
    /\ n \in Nat /\ step \in Steps(n)
    /\ (\A i \in 1 .. n : step[i] <= i) \/ (\A i \in 1 .. n : step[i] >= i)

\* The way starts at its first place, and goes on by steps.
LEMMA WayGoesOn ==
    ASSUME NEW n, NEW step, Goes(n, step), NEW first \in 1 .. n
    PROVE  /\ Way(n, first, step) \subseteq 1 .. n
           /\ first \in Way(n, first, step)
           /\ \A i \in Way(n, first, step) : step[i] \in Way(n, first, step)
  BY DEF Way, Goes, Steps

\* Nothing else is on it.
LEMMA WayIsLeast ==
    ASSUME NEW n, NEW step, NEW first,
           NEW S \in SUBSET (1 .. n), first \in S, \A i \in S : step[i] \in S
    PROVE  Way(n, first, step) \subseteq S
  BY DEF Way

\* A place on the way but the first is stepped to from another one.
LEMMA ComesFrom ==
    ASSUME NEW n, NEW step, Goes(n, step), NEW first \in 1 .. n,
           NEW p \in Way(n, first, step), p # first
    PROVE  \E i \in Way(n, first, step) : step[i] = p /\ i # p
<1> DEFINE way == Way(n, first, step)
<1>1. way \subseteq 1 .. n /\ first \in way /\ \A i \in way : step[i] \in way
  BY WayGoesOn
<1>2. SUFFICES ASSUME \A i \in way : step[i] = p => i = p PROVE FALSE
  OBVIOUS
<1>3. \A i \in way \ {p} : step[i] \in way \ {p}
  BY <1>1, <1>2
<1>4. way \subseteq way \ {p}
  <2>1. way \ {p} \in SUBSET (1 .. n) /\ first \in way \ {p}
    BY <1>1
  <2>2. QED
    BY <1>3, <2>1, WayIsLeast
<1>5. QED
  BY <1>4

\* From a place on the way, the way leads on.
LEMMA WayFrom ==
    ASSUME NEW n, NEW step, Goes(n, step), NEW first \in 1 .. n,
           NEW p \in Way(n, first, step)
    PROVE  Way(n, p, step) \subseteq Way(n, first, step)
<1>1. /\ Way(n, first, step) \in SUBSET (1 .. n)
      /\ \A i \in Way(n, first, step) : step[i] \in Way(n, first, step)
  BY WayGoesOn
<1>2. QED
  BY <1>1, WayIsLeast

\* What lies behind a place is the place itself or lies behind its step.
LEMMA WayOn ==
    ASSUME NEW n, NEW step, Goes(n, step), NEW p \in 1 .. n
    PROVE  Way(n, p, step) \subseteq {p} \union Way(n, step[p], step)
<1>1. step[p] \in 1 .. n
  BY DEF Goes, Steps
<1>2. /\ Way(n, step[p], step) \subseteq 1 .. n
      /\ step[p] \in Way(n, step[p], step)
      /\ \A i \in Way(n, step[p], step) : step[i] \in Way(n, step[p], step)
  BY <1>1, WayGoesOn
<1> DEFINE S == {p} \union Way(n, step[p], step)
<1>3. S \in SUBSET (1 .. n) /\ p \in S /\ \A i \in S : step[i] \in S
  <2>1. S \in SUBSET (1 .. n) /\ p \in S
    BY <1>2
  <2>2. ASSUME NEW i \in S PROVE step[i] \in S
    <3>1. CASE i = p
      BY <1>2, <3>1
    <3>2. CASE i \in Way(n, step[p], step)
      BY <1>2, <3>2
    <3>3. QED
      BY <3>1, <3>2
  <2>3. QED
    BY <2>1, <2>2
<1> HIDE DEF S
<1>4. Way(n, p, step) \subseteq S
  BY <1>3, WayIsLeast
<1>5. QED
  BY <1>4 DEF S

\* Of two places on the way one lies behind the other.
LEMMA InLine ==
    ASSUME NEW n, NEW step, Goes(n, step), NEW first \in 1 .. n,
           NEW p \in Way(n, first, step), NEW q \in Way(n, first, step)
    PROVE  q \in Way(n, p, step) \/ p \in Way(n, q, step)
<1> DEFINE way == Way(n, first, step)
           S == {x \in way : q \in Way(n, x, step) \/ x \in Way(n, q, step)}
<1>1. way \subseteq 1 .. n /\ first \in way /\ \A i \in way : step[i] \in way
  BY WayGoesOn
<1>2. first \in S
  BY <1>1
<1>3. ASSUME NEW x \in S PROVE step[x] \in S
  <2>1. step[x] \in way
    BY <1>1
  <2>2. CASE x \in Way(n, q, step)
    <3>1. step[x] \in Way(n, q, step)
      BY <2>2, <1>1, WayGoesOn
    <3>2. QED
      BY <2>1, <3>1
  <2>3. CASE q \in Way(n, x, step) /\ q = x
    <3>1. step[x] \in Way(n, x, step)
      BY <1>1, WayGoesOn
    <3>2. QED
      BY <2>1, <2>3, <3>1
  <2>4. CASE q \in Way(n, x, step) /\ q # x
    <3>1. q \in Way(n, step[x], step)
      BY <2>4, <1>1, WayOn
    <3>2. QED
      BY <2>1, <3>1
  <2>5. QED
    BY <2>2, <2>3, <2>4
<1>4. way \subseteq S
  <2>1. S \in SUBSET (1 .. n)
    BY <1>1
  <2>2. QED
    BY <1>2, <1>3, <2>1, WayIsLeast
<1>5. QED
  BY <1>4

\* The way leads up only, or down only.
LEMMA OneDirection ==
    ASSUME NEW n, NEW step, Goes(n, step), NEW p \in 1 .. n
    PROVE  \/ (\A i \in 1 .. n : step[i] <= i) /\ \A q \in Way(n, p, step) : q <= p
           \/ (\A i \in 1 .. n : step[i] >= i) /\ \A q \in Way(n, p, step) : q >= p
<1>1. CASE \A i \in 1 .. n : step[i] <= i
  <2> DEFINE S == {q \in 1 .. n : q <= p}
  <2>1. S \in SUBSET (1 .. n) /\ p \in S /\ \A i \in S : step[i] \in S
    BY <1>1 DEF Goes, Steps
  <2>2. Way(n, p, step) \subseteq S
    <3> HIDE DEF S
    <3>1. QED
      BY <2>1, WayIsLeast
  <2>3. QED
    BY <1>1, <2>2
<1>2. CASE \A i \in 1 .. n : step[i] >= i
  <2> DEFINE S == {q \in 1 .. n : q >= p}
  <2>1. S \in SUBSET (1 .. n) /\ p \in S /\ \A i \in S : step[i] \in S
    BY <1>2 DEF Goes, Steps
  <2>2. Way(n, p, step) \subseteq S
    <3> HIDE DEF S
    <3>1. QED
      BY <2>1, WayIsLeast
  <2>3. QED
    BY <1>2, <2>2
<1>3. QED
  BY <1>1, <1>2 DEF Goes

\* It never comes back to a place it has left.
LEMMA NeverBack ==
    ASSUME NEW n, NEW step, Goes(n, step), NEW p \in 1 .. n, step[p] # p
    PROVE  p \notin Way(n, step[p], step)
<1>1. step[p] \in 1 .. n
  BY DEF Goes, Steps
<1>2. QED
  BY <1>1, OneDirection

\* Each place is stepped to from one place only.
LEMMA OneBefore ==
    ASSUME NEW n, NEW step, Goes(n, step), NEW first \in 1 .. n,
           NEW p \in Way(n, first, step), NEW q \in Way(n, first, step),
           step[p] # p, step[q] # q, step[p] = step[q]
    PROVE  p = q
<1>1. p \in 1 .. n /\ q \in 1 .. n
  BY WayGoesOn
<1>2. p \notin Way(n, step[p], step) /\ q \notin Way(n, step[q], step)
  BY <1>1, NeverBack
<1>3. /\ Way(n, p, step) \subseteq {p} \union Way(n, step[p], step)
      /\ Way(n, q, step) \subseteq {q} \union Way(n, step[q], step)
  BY <1>1, WayOn
<1>4. q \in Way(n, p, step) \/ p \in Way(n, q, step)
  BY InLine
<1>5. QED
  BY <1>2, <1>3, <1>4

\* The way has an end.
LEMMA AnEnd ==
    ASSUME NEW n, NEW step, Goes(n, step), NEW first \in 1 .. n
    PROVE  \E p \in Way(n, first, step) : step[p] = p
<1> DEFINE way == Way(n, first, step)
<1>1. way \subseteq 1 .. n /\ first \in way /\ \A i \in way : step[i] \in way
  BY WayGoesOn
<1>2. n \in Nat /\ \A i \in way : i \in Nat /\ i <= n
  BY <1>1 DEF Goes
<1> HIDE DEF way
<1>3. CASE \A i \in 1 .. n : step[i] <= i
  <2>1. PICK p \in way : \A i \in way : p <= i
    <3>1. way \in SUBSET Nat /\ way # {}
      BY <1>1, <1>2
    <3>2. QED
      BY <3>1, Least
  <2>2. step[p] <= p /\ p <= step[p] /\ p \in Nat /\ step[p] \in Nat
    BY <1>1, <1>2, <1>3, <2>1
  <2>3. QED
    BY <2>2 DEF way
<1>4. CASE \A i \in 1 .. n : step[i] >= i
  <2> DEFINE T == {n - i : i \in way}
  <2>1. PICK t \in T : \A u \in T : t <= u
    <3>1. T \in SUBSET Nat /\ T # {}
      BY <1>1, <1>2
    <3>2. QED
      BY <3>1, Least
  <2>2. PICK p \in way : t = n - p
    OBVIOUS
  <2>3. \A i \in way : n - p <= n - i
    BY <2>1, <2>2
  <2>4. step[p] \in way /\ step[p] >= p /\ p \in Nat /\ step[p] \in Nat
    BY <1>1, <1>2, <1>4
  <2>5. n - p <= n - step[p]
    BY <2>3, <2>4
  <2>6. step[p] = p
    BY <1>2, <2>4, <2>5
  <2>7. QED
    BY <2>6 DEF way
<1>5. QED
  BY <1>3, <1>4 DEF Goes

\* It has one end only.
LEMMA OneEnd ==
    ASSUME NEW n, NEW step, Goes(n, step), NEW first \in 1 .. n,
           NEW p \in Way(n, first, step), NEW q \in Way(n, first, step),
           step[p] = p, step[q] = q
    PROVE  p = q
<1>1. p \in 1 .. n /\ q \in 1 .. n
  BY WayGoesOn
<1>2. Way(n, p, step) \subseteq {p} /\ Way(n, q, step) \subseteq {q}
  <2>1. {p} \in SUBSET (1 .. n) /\ p \in {p} /\ \A i \in {p} : step[i] \in {p}
    BY <1>1
  <2>2. {q} \in SUBSET (1 .. n) /\ q \in {q} /\ \A i \in {q} : step[i] \in {q}
    BY <1>1
  <2>3. QED
    BY <2>1, <2>2, WayIsLeast
<1>3. QED
  BY <1>2, InLine

-----------------------------------------------------------------------------
(* Moving the elements along a way loses none and doubles none.               *)

\* What moves: all but the first on the way.
Moves(n, first) == (1 .. n) \ {first}

\* No step leads back to the first place.
LEMMA NotToFirst ==
    ASSUME NEW n, NEW step, Goes(n, step), NEW first \in 1 .. n,
           NEW p \in Way(n, first, step), step[p] # p
    PROVE  step[p] \in Moves(n, first)
<1>1. p \in 1 .. n /\ step[p] \in 1 .. n
  BY WayGoesOn DEF Goes, Steps
<1>2. step[p] # first
  BY <1>1, OneDirection
<1>3. QED
  BY <1>1, <1>2 DEF Moves

\* Where each element comes from.
LEMMA ShiftIs ==
    ASSUME NEW n, NEW step, Goes(n, step), NEW first \in 1 .. n, NEW heap, NEW elem,
           NEW i \in 1 .. n
    PROVE  LET way == Way(n, first, step)
               new == Shift(heap, n, first, step, elem)
           IN /\ i \notin way => i \in Moves(n, first) /\ new[i] = heap[i]
              /\ i \in way /\ step[i] # i =>
                   step[i] \in Moves(n, first) /\ new[i] = heap[step[i]]
              /\ i \in way /\ step[i] = i => new[i] = elem
<1>1. i \notin Way(n, first, step) => i \in Moves(n, first)
  BY WayGoesOn DEF Moves
<1>2. i \in Way(n, first, step) /\ step[i] # i => step[i] \in Moves(n, first)
  BY NotToFirst
<1>3. QED
  BY <1>1, <1>2 DEF Shift

\* A heap holds what it held, and elem.
LEMMA ShiftFrom ==
    ASSUME NEW n, NEW step, Goes(n, step), NEW first \in 1 .. n, NEW heap, NEW elem,
           NEW i \in 1 .. n
    PROVE  \/ Shift(heap, n, first, step, elem)[i] = elem
           \/ \E j \in Moves(n, first) : Shift(heap, n, first, step, elem)[i] = heap[j]
  BY ShiftIs

\* Elem is in it.
LEMMA ShiftTakes ==
    ASSUME NEW n, NEW step, Goes(n, step), NEW first \in 1 .. n, NEW heap, NEW elem
    PROVE  \E i \in 1 .. n : Shift(heap, n, first, step, elem)[i] = elem
<1>1. PICK i \in Way(n, first, step) : step[i] = i
  BY AnEnd
<1>2. i \in 1 .. n
  BY WayGoesOn
<1>3. QED
  BY <1>1, <1>2, ShiftIs

\* What moved is still in it.
LEMMA ShiftKeeps ==
    ASSUME NEW n, NEW step, Goes(n, step), NEW first \in 1 .. n, NEW heap, NEW elem,
           NEW j \in Moves(n, first)
    PROVE  \E i \in 1 .. n : Shift(heap, n, first, step, elem)[i] = heap[j]
<1>1. j \in 1 .. n /\ j # first
  BY DEF Moves
<1>2. CASE j \notin Way(n, first, step)
  BY <1>1, <1>2, ShiftIs
<1>3. CASE j \in Way(n, first, step)
  <2>1. PICK i \in Way(n, first, step) : step[i] = j /\ i # j
    BY <1>1, <1>3, ComesFrom
  <2>2. i \in 1 .. n
    BY WayGoesOn
  <2>3. QED
    BY <2>1, <2>2, ShiftIs
<1>4. QED
  BY <1>2, <1>3

\* No message gets into it twice.
LEMMA ShiftApart ==
    ASSUME NEW n, NEW step, Goes(n, step), NEW first \in 1 .. n, NEW heap, NEW elem,
           \A j, k \in Moves(n, first) : heap[j].msg = heap[k].msg => j = k,
           \A j \in Moves(n, first) : heap[j].msg # elem.msg,
           NEW i \in 1 .. n, NEW k \in 1 .. n,
           Shift(heap, n, first, step, elem)[i].msg = Shift(heap, n, first, step, elem)[k].msg
    PROVE  i = k
<1> DEFINE way == Way(n, first, step)
           new == Shift(heap, n, first, step, elem)
<1>1. way \subseteq 1 .. n /\ \A x \in way : step[x] \in way
  BY WayGoesOn
<1>2. ASSUME NEW x \in 1 .. n
      PROVE  /\ x \notin way => x \in Moves(n, first) /\ new[x] = heap[x]
             /\ x \in way /\ step[x] # x =>
                  step[x] \in Moves(n, first) /\ new[x] = heap[step[x]]
             /\ x \in way /\ step[x] = x => new[x] = elem
  BY ShiftIs
<1>3. new[i].msg = new[k].msg
  OBVIOUS
<1>4. ASSUME i \in way, k \in way, step[i] # i, step[k] # k, step[i] = step[k] PROVE i = k
  BY <1>4, OneBefore
<1>5. ASSUME i \in way, k \in way, step[i] = i, step[k] = k PROVE i = k
  BY <1>5, OneEnd
<1> HIDE DEF way, new
<1>6. CASE i \in way /\ k \in way
  BY <1>2, <1>3, <1>4, <1>5, <1>6
<1>7. CASE i \in way /\ k \notin way
  BY <1>1, <1>2, <1>3, <1>7
<1>8. CASE i \notin way /\ k \in way
  BY <1>1, <1>2, <1>3, <1>8
<1>9. CASE i \notin way /\ k \notin way
  BY <1>2, <1>3, <1>9
<1>10. QED
  BY <1>6, <1>7, <1>8, <1>9

-----------------------------------------------------------------------------
(* The two halves of the heap.                                                *)

Elements == [msg : Nat, prio : Nat, left : 0 .. UnsignedMax, addr : Addresses]

Distinct(heap) == \A i, j \in DOMAIN heap : heap[i].msg = heap[j].msg => i = j

\* After a push the heap holds what it held, and the new element.
LEMMA RaiseIs ==
    ASSUME NEW heap \in Seq(Elements), NEW new \in Elements
    PROVE  /\ Raise(heap, new) \in Seq(Elements)
           /\ Len(Raise(heap, new)) = Len(heap) + 1
           /\ \A i \in DOMAIN Raise(heap, new) :
                Raise(heap, new)[i] = new
                \/ \E j \in DOMAIN heap : Raise(heap, new)[i] = heap[j]
           /\ \E i \in DOMAIN Raise(heap, new) : Raise(heap, new)[i] = new
           /\ \A j \in DOMAIN heap : \E i \in DOMAIN Raise(heap, new) :
                Raise(heap, new)[i] = heap[j]
           /\ Distinct(heap) /\ new.msg \notin Messages(heap) => Distinct(Raise(heap, new))
<1> DEFINE n == Len(heap) + 1
           step == Rise(heap, new)
           raised == Raise(heap, new)
<1>1. n \in Nat /\ n \in 1 .. n /\ DOMAIN heap = 1 .. n - 1 /\ Moves(n, n) = 1 .. n - 1
  BY DEF Moves
<1>2. Goes(n, step)
  <2>1. \A i \in 1 .. n : step[i] \in 1 .. n /\ step[i] <= i
    BY <1>1 DEF Rise
  <2>2. step \in Steps(n)
    BY <2>1 DEF Rise, Steps
  <2>3. QED
    BY <1>1, <2>1, <2>2 DEF Goes
<1>3. raised = Shift(heap, n, n, step, new) /\ DOMAIN raised = 1 .. n
  BY DEF Raise, Shift
<1> HIDE DEF n, step, raised
<1>4. \A i \in 1 .. n : raised[i] = new \/ \E j \in 1 .. n - 1 : raised[i] = heap[j]
  BY <1>1, <1>2, <1>3, ShiftFrom
<1>5. raised \in [1 .. n -> Elements]
  <2>1. \A i \in 1 .. n : raised[i] \in Elements
    BY <1>1, <1>4
  <2>2. raised = [i \in 1 .. n |-> raised[i]]
    BY <1>3 DEF Shift
  <2>3. QED
    BY <2>1, <2>2
<1>6. raised \in Seq(Elements) /\ Len(raised) = n
  BY <1>1, <1>5
<1>7. \E i \in 1 .. n : raised[i] = new
  BY <1>1, <1>2, <1>3, ShiftTakes
<1>8. \A j \in 1 .. n - 1 : \E i \in 1 .. n : raised[i] = heap[j]
  BY <1>1, <1>2, <1>3, ShiftKeeps
<1>9. ASSUME Distinct(heap), new.msg \notin Messages(heap) PROVE Distinct(raised)
  <2>1. \A j, k \in Moves(n, n) : heap[j].msg = heap[k].msg => j = k
    BY <1>1, <1>9 DEF Distinct
  <2>2. \A j \in Moves(n, n) : heap[j].msg # new.msg
    BY <1>1, <1>9 DEF Messages
  <2>3. \A i, k \in 1 .. n : raised[i].msg = raised[k].msg => i = k
    BY <1>1, <1>2, <1>3, <2>1, <2>2, ShiftApart
  <2>4. QED
    BY <1>3, <2>3 DEF Distinct
<1>10. QED
  BY <1>1, <1>3, <1>4, <1>6, <1>7, <1>8, <1>9 DEF n, raised

\* A way down is found among the addresses that are greater.
LEMMA FallGoes ==
    ASSUME NEW heap \in Seq(Elements), heap # <<>>
    PROVE  Goes(Len(heap) - 1, Fall(heap))
<1> DEFINE n == Len(heap) - 1
<1>1. n \in Nat
  OBVIOUS
<1>2. ASSUME NEW i \in 1 .. n PROVE Fall(heap)[i] \in 1 .. n /\ Fall(heap)[i] >= i
  <2> DEFINE kids == Kids(heap, i)
             best(k) == \A j \in kids : heap[j].addr <= heap[k].addr
  <2>1. ASSUME NEW k \in kids PROVE k \in 1 .. n /\ k >= i /\ heap[k].addr \in Nat
    <3>1. k \in 1 .. n /\ k >= i
      BY DEF Kids
    <3>2. heap[k] \in Elements
      BY <3>1
    <3>3. QED
      BY <3>1, <3>2, MsgQueueAssumption DEF Elements
  <2>2. kids \subseteq {2 * i, 2 * i + 1}
    BY DEF Kids
  <2> HIDE DEF kids
  <2>3. CASE kids = {}
    BY <1>1, <2>3 DEF Fall, kids
  <2>4. CASE kids # {}
    <3>1. \E k \in kids : best(k)
      <4>1. CASE 2 * i \in kids /\ 2 * i + 1 \in kids
        <5>1. \/ heap[2 * i].addr <= heap[2 * i + 1].addr
              \/ heap[2 * i + 1].addr <= heap[2 * i].addr
          BY <2>1, <4>1
        <5>2. best(2 * i) \/ best(2 * i + 1)
          <6>1. \A k \in kids : k = 2 * i \/ k = 2 * i + 1
            BY <2>2
          <6>2. /\ heap[2 * i].addr <= heap[2 * i].addr
                /\ heap[2 * i + 1].addr <= heap[2 * i + 1].addr
            BY <2>1, <4>1
          <6>3. QED
            BY <5>1, <6>1, <6>2
        <5>3. QED
          BY <4>1, <5>2
      <4>2. CASE \E k \in kids : kids = {k}
        BY <2>1, <4>2
      <4>3. QED
        BY <2>2, <2>4, <4>1, <4>2
    <3>2. (CHOOSE k \in kids : best(k)) \in kids
      BY <3>1
    <3>3. Fall(heap)[i] = CHOOSE k \in kids : best(k)
      BY <1>1, <2>4 DEF Fall, kids
    <3>4. QED
      BY <2>1, <3>2, <3>3
  <2>5. QED
    BY <2>3, <2>4
<1>3. Fall(heap) \in Steps(n)
  BY <1>2 DEF Fall, Steps
<1>4. QED
  BY <1>1, <1>2, <1>3 DEF Goes

\* After a message has vanished the heap holds all others.
LEMMA SinkIs ==
    ASSUME NEW heap \in Seq(Elements), heap # <<>>
    PROVE  /\ Sink(heap) \in Seq(Elements)
           /\ Len(Sink(heap)) = Len(heap) - 1
           /\ \A i \in DOMAIN Sink(heap) : \E j \in 2 .. Len(heap) : Sink(heap)[i] = heap[j]
           /\ \A j \in 2 .. Len(heap) : \E i \in DOMAIN Sink(heap) : Sink(heap)[i] = heap[j]
           /\ Distinct(heap) => Distinct(Sink(heap))
<1> DEFINE n == Len(heap) - 1
           step == Fall(heap)
           sunk == Sink(heap)
           last == heap[Len(heap)]
<1>1. n \in Nat /\ DOMAIN heap = 1 .. n + 1 /\ Moves(n, 1) = 2 .. n
  BY DEF Moves
<1>2. Goes(n, step)
  BY FallGoes
<1>3. sunk = Shift(heap, n, 1, step, last) /\ DOMAIN sunk = 1 .. n
  BY DEF Sink, Shift
<1>4. \A j \in 1 .. n + 1 : heap[j] \in Elements
  BY <1>1
<1>5. last = heap[n + 1] /\ Len(heap) = n + 1
  OBVIOUS
<1> HIDE DEF n, step, sunk, last
<1>6. CASE n = 0
  <2>1. sunk \in [1 .. n -> Elements]
    BY <1>3, <1>6 DEF Shift
  <2>2. sunk \in Seq(Elements) /\ Len(sunk) = n
    BY <1>1, <2>1
  <2>3. QED
    BY <1>1, <1>3, <1>5, <1>6, <2>2 DEF sunk, Distinct
<1>7. CASE n # 0
  <2>1. 1 \in 1 .. n
    BY <1>1, <1>7
  <2>2. \A i \in 1 .. n : sunk[i] = last \/ \E j \in 2 .. n : sunk[i] = heap[j]
    BY <1>1, <1>2, <1>3, <2>1, ShiftFrom
  <2>3. \A i \in 1 .. n : \E j \in 2 .. n + 1 : sunk[i] = heap[j]
    BY <1>1, <1>5, <1>7, <2>2
  <2>4. sunk \in [1 .. n -> Elements]
    <3>1. \A i \in 1 .. n : sunk[i] \in Elements
      BY <1>1, <1>4, <2>3
    <3>2. sunk = [i \in 1 .. n |-> sunk[i]]
      BY <1>3 DEF Shift
    <3>3. QED
      BY <3>1, <3>2
  <2>5. sunk \in Seq(Elements) /\ Len(sunk) = n
    BY <1>1, <2>4
  <2>6. \E i \in 1 .. n : sunk[i] = last
    BY <1>2, <1>3, <2>1, ShiftTakes
  <2>7. \A j \in 2 .. n : \E i \in 1 .. n : sunk[i] = heap[j]
    BY <1>1, <1>2, <1>3, <2>1, ShiftKeeps
  <2>8. \A j \in 2 .. n + 1 : \E i \in 1 .. n : sunk[i] = heap[j]
    BY <1>1, <1>5, <2>6, <2>7
  <2>9. ASSUME Distinct(heap) PROVE Distinct(sunk)
    <3>1. \A j, k \in Moves(n, 1) : heap[j].msg = heap[k].msg => j = k
      BY <1>1, <2>9 DEF Distinct
    <3>2. \A j \in Moves(n, 1) : heap[j].msg # last.msg
      BY <1>1, <1>5, <2>9 DEF Distinct
    <3>3. \A i, k \in 1 .. n : sunk[i].msg = sunk[k].msg => i = k
      BY <1>2, <1>3, <2>1, <3>1, <3>2, ShiftApart
    <3>4. QED
      BY <1>3, <3>3 DEF Distinct
  <2>10. QED
    BY <1>1, <1>3, <1>5, <2>3, <2>5, <2>8, <2>9 DEF n, sunk
<1>8. QED
  BY <1>6, <1>7

-----------------------------------------------------------------------------
(* What the steps of the two threads make of the heap.                        *)

Shape ==
    /\ elems \in Seq(Elements) /\ Len(elems) <= Size /\ Distinct(elems)
    /\ pushed \in Nat /\ Messages(elems) \subseteq 1 .. pushed
    /\ tmpMsg \in 0 .. pushed /\ held \in 0 .. pushed

\* What the queue holds when the message comes.
Kept(flush) == IF flush THEN <<>> ELSE elems

\* A push leaves what was kept, and adds the message if there is room.
LEMMA PushHeap ==
    ASSUME Shape, NEW p \in Priorities, NEW d \in Durations, NEW flush \in BOOLEAN,
           Push(p, d, flush)
    PROVE  /\ elems' \in Seq(Elements) /\ Len(elems') <= Size /\ Distinct(elems')
           /\ Messages(elems') = Messages(Kept(flush))
                \union (IF Full(Kept(flush)) THEN {} ELSE {pushed + 1})
           /\ \A i \in DOMAIN elems' :
                \/ /\ ~Full(Kept(flush))
                   /\ elems'[i].msg = pushed + 1 /\ elems'[i].left = d
                \/ \E j \in DOMAIN elems : ~flush /\ elems'[i] = elems[j]
<1> DEFINE kept == Kept(flush)
<1>1. /\ kept \in Seq(Elements) /\ Len(kept) <= Size /\ Distinct(kept)
      /\ Messages(kept) \subseteq 1 .. pushed
      /\ \A i \in DOMAIN kept : ~flush /\ i \in DOMAIN elems /\ kept[i] = elems[i]
  <2>1. CASE flush
    BY <2>1, MsgQueueAssumption DEF Kept, Distinct, Messages
  <2>2. CASE ~flush
    BY <2>2 DEF Kept, Shape
  <2>3. QED
    BY <2>1, <2>2
<1>2. PICK a \in Addresses :
        elems' = IF Full(kept) THEN kept ELSE Raise(kept, Element(p, d, a))
  BY DEF Push, Free, Kept
<1> DEFINE new == Element(p, d, a)
<1>3. new \in Elements /\ new.msg = pushed + 1 /\ new.left = d
  BY MsgQueueAssumption DEF Element, Elements, Shape
<1>4. CASE Full(kept)
  BY <1>1, <1>2, <1>4
<1>5. CASE ~Full(kept)
  <2>1. new.msg \notin Messages(kept) /\ Len(kept) + 1 <= Size
    BY <1>1, <1>3, <1>5, MsgQueueAssumption DEF Full, Shape
  <2>2. elems' = Raise(kept, new)
    BY <1>2, <1>5
  <2> HIDE DEF kept, new
  <2>3. /\ elems' \in Seq(Elements) /\ Len(elems') = Len(kept) + 1 /\ Distinct(elems')
        /\ \A i \in DOMAIN elems' : elems'[i] = new \/ \E j \in DOMAIN kept : elems'[i] = kept[j]
        /\ \E i \in DOMAIN elems' : elems'[i] = new
        /\ \A j \in DOMAIN kept : \E i \in DOMAIN elems' : elems'[i] = kept[j]
    <3> DEFINE raised == Raise(kept, new)
    <3>1. /\ raised \in Seq(Elements) /\ Len(raised) = Len(kept) + 1
          /\ \A i \in DOMAIN raised : raised[i] = new \/ \E j \in DOMAIN kept : raised[i] = kept[j]
          /\ \E i \in DOMAIN raised : raised[i] = new
          /\ \A j \in DOMAIN kept : \E i \in DOMAIN raised : raised[i] = kept[j]
      BY <1>1, <1>3, RaiseIs
    <3>2. Distinct(raised)
      BY <1>1, <1>3, <2>1, RaiseIs
    <3>3. QED
      BY <2>2, <3>1, <3>2
  <2>4. Messages(elems') = Messages(kept) \union {pushed + 1}
    BY <1>3, <2>3 DEF Messages
  <2>5. QED
    BY <1>1, <1>3, <1>5, <2>1, <2>3, <2>4 DEF kept
<1>6. QED
  BY <1>4, <1>5

\* A pull counts down the first element, or takes it out.
LEMMA PullHeap ==
    ASSUME Shape, Pull
    PROVE  /\ elems' \in Seq(Elements) /\ Len(elems') <= Size /\ Distinct(elems')
           /\ 1 \in DOMAIN elems
           /\ Vanishes(elems[1].left) =>
                /\ Messages(elems') = Messages(elems) \ {elems[1].msg}
                /\ \A i \in DOMAIN elems' : \E j \in DOMAIN elems :
                     j # 1 /\ elems'[i] = elems[j]
           /\ ~Vanishes(elems[1].left) =>
                /\ Messages(elems') = Messages(elems) /\ DOMAIN elems' = DOMAIN elems
                /\ \A i \in DOMAIN elems :
                     /\ elems'[i].msg = elems[i].msg
                     /\ elems'[i].left = IF i = 1 THEN Down(elems[i].left) ELSE elems[i].left
<1>1. elems \in Seq(Elements) /\ elems # <<>> /\ Len(elems) <= Size /\ Distinct(elems)
  BY DEF Shape, Pull
<1>2. 1 \in DOMAIN elems /\ DOMAIN elems = 1 .. Len(elems)
  BY <1>1
<1>3. CASE Vanishes(elems[1].left)
  <2>1. elems' = Sink(elems)
    BY <1>3 DEF Pull
  <2>2. /\ elems' \in Seq(Elements) /\ Len(elems') = Len(elems) - 1 /\ Distinct(elems')
        /\ \A i \in DOMAIN elems' : \E j \in 2 .. Len(elems) : elems'[i] = elems[j]
        /\ \A j \in 2 .. Len(elems) : \E i \in DOMAIN elems' : elems'[i] = elems[j]
    BY <1>1, <2>1, SinkIs
  <2>3. \A j \in DOMAIN elems : j \in 2 .. Len(elems) <=> elems[j].msg # elems[1].msg
    BY <1>1, <1>2 DEF Distinct
  <2>4. Messages(elems') = Messages(elems) \ {elems[1].msg}
    <3>1. ASSUME NEW i \in DOMAIN elems'
          PROVE  elems'[i].msg \in Messages(elems) \ {elems[1].msg}
      <4>1. PICK j \in 2 .. Len(elems) : elems'[i] = elems[j]
        BY <2>2
      <4>2. QED
        BY <1>2, <2>3, <4>1 DEF Messages
    <3>2. ASSUME NEW j \in DOMAIN elems, elems[j].msg # elems[1].msg
          PROVE  elems[j].msg \in Messages(elems')
      <4>1. PICK i \in DOMAIN elems' : elems'[i] = elems[j]
        BY <2>2, <2>3, <3>2
      <4>2. QED
        BY <4>1 DEF Messages
    <3>3. QED
      BY <3>1, <3>2 DEF Messages
  <2>5. ASSUME NEW i \in DOMAIN elems'
        PROVE  \E j \in DOMAIN elems : j # 1 /\ elems'[i] = elems[j]
    <3>1. PICK j \in 2 .. Len(elems) : elems'[i] = elems[j]
      BY <2>2
    <3>2. Len(elems) \in Nat
      BY <1>1
    <3>3. j \in DOMAIN elems /\ j # 1
      BY <1>2, <3>2
    <3>4. QED
      BY <3>1, <3>3
  <2>6. QED
    BY <1>1, <1>2, <1>3, <2>2, <2>4, <2>5, MsgQueueAssumption
<1>4. CASE ~Vanishes(elems[1].left)
  <2>1. elems' = [elems EXCEPT ![1].left = Down(@)]
    BY <1>4 DEF Pull
  <2>2. elems[1] \in Elements /\ Down(elems[1].left) \in 0 .. UnsignedMax
    <3>1. elems[1] \in Elements
      BY <1>1, <1>2
    <3>2. elems[1].left \in 0 .. UnsignedMax
      BY <3>1 DEF Elements
    <3>3. QED
      BY <3>1, <3>2, MsgQueueAssumption DEF Down
  <2>3. [elems[1] EXCEPT !.left = Down(@)] \in Elements
    BY <2>2 DEF Elements
  <2>4. elems' \in Seq(Elements) /\ Len(elems') = Len(elems) /\ DOMAIN elems' = DOMAIN elems
    BY <1>1, <1>2, <2>1, <2>3
  <2>5. \A i \in DOMAIN elems :
          /\ elems'[i].msg = elems[i].msg
          /\ elems'[i].left = IF i = 1 THEN Down(elems[i].left) ELSE elems[i].left
    BY <1>1, <1>2, <2>1, <2>2 DEF Elements
  <2>6. Messages(elems') = Messages(elems)
    BY <2>4, <2>5 DEF Messages
  <2>7. Distinct(elems')
    BY <1>1, <2>4, <2>5 DEF Distinct
  <2>8. QED
    BY <1>1, <1>2, <1>4, <2>4, <2>5, <2>6, <2>7
<1>5. QED
  BY <1>3, <1>4

-----------------------------------------------------------------------------
(* The invariants.                                                            *)

\* No message is pushed that would not be shown.
Lasting == 0 \notin Durations

Owed ==
    /\ owed \in [1 .. pushed -> Nat]
    /\ \A i \in DOMAIN elems : elems[i].left > 0 /\ owed[elems[i].msg] = elems[i].left
    /\ \A m \in 1 .. pushed : owed[m] # 0 => m \in Messages(elems)

\* The steps, as pushes and pulls.
LEMMA StepIs ==
    ASSUME [Next]_vars
    PROVE  \/ \E p \in Priorities, d \in Durations, flush \in BOOLEAN :
                Push(p, d, flush) /\ (held = 0 \/ (flush => TaskFlushes))
           \/ Pull \/ CopyText \/ UNCHANGED vars
  BY DEF Next, MainPush, TaskPush

\* The heap keeps its shape, in every session.
LEMMA ShapeStep ==
    ASSUME Shape, [Next]_vars
    PROVE  Shape'
<1>1. ASSUME NEW p \in Priorities, NEW d \in Durations, NEW flush \in BOOLEAN,
             Push(p, d, flush)
      PROVE  Shape'
  <2>1. /\ elems' \in Seq(Elements) /\ Len(elems') <= Size /\ Distinct(elems')
        /\ Messages(elems') \subseteq Messages(Kept(flush)) \union {pushed + 1}
    BY <1>1, PushHeap
  <2>2. Messages(Kept(flush)) \subseteq Messages(elems)
    BY DEF Kept, Messages
  <2>3. pushed' = pushed + 1 /\ tmpMsg' \in {0, tmpMsg} /\ held' = held
    BY <1>1 DEF Push
  <2>4. QED
    BY <2>1, <2>2, <2>3 DEF Shape
<1>2. CASE Pull
  <2>1. /\ elems' \in Seq(Elements) /\ Len(elems') <= Size /\ Distinct(elems')
        /\ Messages(elems') \subseteq Messages(elems) /\ elems[1].msg \in Messages(elems)
    BY <1>2, PullHeap DEF Messages
  <2>2. UNCHANGED pushed /\ held' = elems[1].msg /\ tmpMsg' \in {tmpMsg, elems[1].msg}
    BY <1>2 DEF Pull
  <2>3. QED
    BY <2>1, <2>2 DEF Shape
<1>3. CASE CopyText
  BY <1>3 DEF CopyText, Shape
<1>4. CASE UNCHANGED vars
  BY <1>4 DEF vars, Shape
<1>5. QED
  BY <1>1, <1>2, <1>3, <1>4, StepIs

\* Each message in the heap is owed for as long as it says, and no other is.
LEMMA OwedStep ==
    ASSUME Lasting, Shape, Owed, [Next]_vars
    PROVE  Owed'
<1> USE DEF Owed
<1>1. ASSUME NEW p \in Priorities, NEW d \in Durations, NEW flush \in BOOLEAN,
             Push(p, d, flush)
      PROVE  Owed'
  <2> DEFINE kept == Kept(flush)
  <2>1. /\ pushed \in Nat /\ pushed' = pushed + 1
        /\ Messages(elems) \subseteq 1 .. pushed /\ Messages(kept) \subseteq Messages(elems)
    BY <1>1 DEF Push, Shape, Kept, Messages
  <2>2. owed' = [m \in 1 .. pushed + 1 |->
                   IF m > pushed THEN IF Full(kept) THEN 0 ELSE d
                   ELSE IF m \in Messages(elems) \ Messages(kept) THEN 0 ELSE owed[m]]
    BY <1>1 DEF Push, Kept
  <2>3. d \in Nat /\ d > 0
    BY MsgQueueAssumption DEF Lasting
  <2>4. /\ Messages(elems') = Messages(kept) \union (IF Full(kept) THEN {} ELSE {pushed + 1})
        /\ \A i \in DOMAIN elems' :
             \/ ~Full(kept) /\ elems'[i].msg = pushed + 1 /\ elems'[i].left = d
             \/ \E j \in DOMAIN elems : ~flush /\ elems'[i] = elems[j]
    BY <1>1, PushHeap
  <2>5. ~flush => Messages(kept) = Messages(elems)
    BY DEF Kept
  <2> HIDE DEF kept
  <2>6. owed' \in [1 .. pushed' -> Nat]
    BY <2>1, <2>2, <2>3
  <2>7. ASSUME NEW i \in DOMAIN elems'
        PROVE  elems'[i].left > 0 /\ owed'[elems'[i].msg] = elems'[i].left
    <3>1. CASE ~Full(kept) /\ elems'[i].msg = pushed + 1 /\ elems'[i].left = d
      BY <2>1, <2>2, <2>3, <3>1
    <3>2. ASSUME NEW j \in DOMAIN elems, ~flush, elems'[i] = elems[j]
          PROVE  elems'[i].left > 0 /\ owed'[elems'[i].msg] = elems'[i].left
      <4>1. elems[j].msg \in Messages(elems) /\ elems[j].msg \in 1 .. pushed
        BY <2>1 DEF Messages
      <4>2. owed'[elems[j].msg] = owed[elems[j].msg]
        BY <2>1, <2>2, <2>5, <3>2, <4>1
      <4>3. QED
        BY <3>2, <4>2
    <3>3. QED
      BY <2>4, <3>1, <3>2
  <2>8. ASSUME NEW m \in 1 .. pushed', owed'[m] # 0 PROVE m \in Messages(elems')
    <3>1. CASE m = pushed + 1
      BY <2>1, <2>2, <2>4, <2>8, <3>1
    <3>2. CASE m # pushed + 1
      <4>1. m \in 1 .. pushed
        BY <2>1, <3>2
      <4>2. m \notin Messages(elems) \ Messages(kept) /\ owed[m] # 0
        BY <2>1, <2>2, <2>8, <4>1
      <4>3. QED
        BY <2>4, <4>1, <4>2
    <3>3. QED
      BY <3>1, <3>2
  <2>9. QED
    BY <2>6, <2>7, <2>8
<1>2. CASE Pull
  <2> DEFINE front == elems[1]
  <2>1. /\ 1 \in DOMAIN elems /\ Distinct(elems) /\ front \in Elements
        /\ front.msg \in Messages(elems) /\ front.msg \in 1 .. pushed
    <3>1. 1 \in DOMAIN elems
      BY <1>2, PullHeap
    <3>2. QED
      BY <3>1 DEF Shape, Messages
  <2>2. UNCHANGED pushed /\ owed' = [owed EXCEPT ![front.msg] = IF @ >= 0 THEN @ - 1 ELSE @]
    BY <1>2 DEF Pull
  <2>3. /\ owed[front.msg] = front.left /\ front.left > 0 /\ front.left \in Nat
        /\ Down(front.left) = front.left - 1
    BY <2>1 DEF Elements, Down
  <2>4. /\ owed' \in [1 .. pushed -> Nat] /\ owed'[front.msg] = front.left - 1
        /\ \A m \in 1 .. pushed : m # front.msg => owed'[m] = owed[m]
    BY <2>1, <2>2, <2>3
  <2>5. \A i \in DOMAIN elems : i # 1 =>
          elems[i].msg # front.msg /\ elems[i].msg \in 1 .. pushed
    BY <2>1 DEF Distinct, Shape, Messages
  <2> HIDE DEF front
  <2>6. CASE Vanishes(front.left)
    <3>1. /\ Messages(elems') = Messages(elems) \ {front.msg}
          /\ \A i \in DOMAIN elems' : \E j \in DOMAIN elems : j # 1 /\ elems'[i] = elems[j]
      BY <1>2, <2>6, PullHeap DEF front
    <3>2. owed'[front.msg] = 0
      BY <2>3, <2>4, <2>6 DEF Vanishes
    <3>3. ASSUME NEW i \in DOMAIN elems'
          PROVE  elems'[i].left > 0 /\ owed'[elems'[i].msg] = elems'[i].left
      BY <2>4, <2>5, <3>1
    <3>4. ASSUME NEW m \in 1 .. pushed, owed'[m] # 0 PROVE m \in Messages(elems')
      BY <2>4, <3>1, <3>2, <3>4
    <3>5. QED
      BY <2>2, <2>4, <3>3, <3>4
  <2>7. CASE ~Vanishes(front.left)
    <3>1. /\ Messages(elems') = Messages(elems) /\ DOMAIN elems' = DOMAIN elems
          /\ \A i \in DOMAIN elems :
               /\ elems'[i].msg = elems[i].msg
               /\ elems'[i].left = IF i = 1 THEN Down(elems[i].left) ELSE elems[i].left
      BY <1>2, <2>7, PullHeap DEF front
    <3>2. front.left - 1 > 0
      BY <2>3, <2>7 DEF Vanishes
    <3>3. ASSUME NEW i \in DOMAIN elems
          PROVE  elems'[i].left > 0 /\ owed'[elems'[i].msg] = elems'[i].left
      <4>1. CASE i = 1
        BY <2>3, <2>4, <3>1, <3>2, <4>1 DEF front
      <4>2. CASE i # 1
        BY <2>4, <2>5, <3>1, <4>2
      <4>3. QED
        BY <4>1, <4>2
    <3>4. ASSUME NEW m \in 1 .. pushed, owed'[m] # 0 PROVE m \in Messages(elems')
      BY <2>1, <2>4, <3>1, <3>4
    <3>5. QED
      BY <2>2, <2>4, <3>1, <3>3, <3>4
  <2>8. QED
    BY <2>6, <2>7
<1>3. CASE CopyText
  BY <1>3 DEF CopyText, Messages
<1>4. CASE UNCHANGED vars
  BY <1>4 DEF vars, Messages
<1>5. QED
  BY <1>1, <1>2, <1>3, <1>4, StepIs

\* The invariants hold when the queue is new.
LEMMA QueueStarts ==
    ASSUME Init
    PROVE  Shape /\ Owed /\ TextIsThere
<1>1. elems = <<>> /\ owed = <<>> /\ tmpMsg = 0 /\ held = 0 /\ pushed = 0
  BY DEF Init
<1>2. Shape
  BY <1>1, MsgQueueAssumption DEF Shape, Distinct, Messages
<1>3. Owed
  BY <1>1 DEF Owed
<1>4. QED
  BY <1>1, <1>2, <1>3 DEF TextIsThere

(* The heap has the shape of one, and no message twice, whatever is pushed.       *)
THEOREM HeapKeepsShape == Spec => []Shape
<1>1. Init => Shape
  BY QueueStarts
<1>2. Shape /\ [Next]_vars => Shape'
  BY ShapeStep
<1>3. QED
  BY <1>1, <1>2, PTL DEF Spec

(* msg_queue_push and msg_queue_pull: as long as every duration is above 0, no    *)
(* message is lost or doubled by the heap, which orders by priority on the way up *)
(* and by address on the way down, and each is shown as often as was asked.       *)
THEOREM QueueIsSound ==
    ASSUME Lasting
    PROVE  Spec => []QueueInv
<1>1. Init => Shape /\ Owed
  BY QueueStarts
<1>2. Shape /\ Owed /\ [Next]_vars => (Shape /\ Owed)'
  BY ShapeStep, OwedStep
<1>3. Shape /\ Owed => QueueInv
  <2> SUFFICES ASSUME Shape, Owed PROVE QueueInv
    OBVIOUS
  <2>1. \A i \in DOMAIN elems : elems[i] \in Elements
    BY DEF Shape
  <2>2. TypeOK
    BY <2>1 DEF TypeOK, Shape, Elements
  <2>3. NoneLostOrDoubled
    BY DEF NoneLostOrDoubled, Shape, Distinct, Owed
  <2>4. VanishesInTime
    BY DEF VanishesInTime, Owed
  <2>5. QED
    BY <2>2, <2>3, <2>4 DEF QueueInv
<1>4. QED
  BY <1>1, <1>2, <1>3, PTL DEF Spec

(* rarch_main_msg_queue_pull and video_frame: while no task flushes the queue,    *)
(* the text that was pulled has not been freed when it is copied, though the lock *)
(* is let go in between and tasks push.                                          *)
THEOREM TextStaysThere ==
    ASSUME ~TaskFlushes
    PROVE  Spec => []TextIsThere
<1>1. ASSUME Shape, TextIsThere, [Next]_vars PROVE TextIsThere'
  <2> USE <1>1 DEF TextIsThere
  <2>1. ASSUME NEW p \in Priorities, NEW d \in Durations, NEW flush \in BOOLEAN,
               Push(p, d, flush), held # 0 => ~flush
        PROVE  TextIsThere'
    <3>1. Messages(Kept(flush)) \subseteq Messages(elems')
      BY <2>1, PushHeap
    <3>2. ~flush => Kept(flush) = elems /\ UNCHANGED tmpMsg
      BY <2>1 DEF Kept, Push
    <3>3. UNCHANGED held
      BY <2>1 DEF Push
    <3>4. QED
      BY <2>1, <3>1, <3>2, <3>3
  <2>2. CASE Pull
    <3>1. held' = elems[1].msg /\ (Vanishes(elems[1].left) => tmpMsg' = elems[1].msg)
      BY <2>2 DEF Pull
    <3>2. ~Vanishes(elems[1].left) => elems[1].msg \in Messages(elems')
      BY <2>2, PullHeap DEF Messages
    <3>3. QED
      BY <3>1, <3>2
  <2>3. CASE CopyText
    BY <2>3 DEF CopyText
  <2>4. CASE UNCHANGED vars
    BY <2>4 DEF vars, Messages
  <2>5. QED
    BY <2>1, <2>2, <2>3, <2>4, StepIs
<1>2. Init => TextIsThere
  BY QueueStarts
<1>3. QED
  BY <1>1, <1>2, HeapKeepsShape, PTL DEF Spec
=============================================================================
