--------------------------- MODULE Netplay_proofs ---------------------------
(***************************************************************************)
(* Proofs about netplay in full (Netplay), for every number of lag frames,  *)
(* every packet size, every number of retries and every set of pad states.  *)
(* The counters and ring pointers are in order (NetplayInvariant), each     *)
(* step is a step of the sliding window (NetplayIsAWindow), and what is     *)
(* proved about the window in NetplayPromises_proofs then holds of Netplay. *)
(*                                                                         *)
(* CountInv is the inductive invariant.  Its part Standing says where a     *)
(* peer is in its frame, Pointers ties the ring to the counters, and the    *)
(* window's own invariants WindowInv and FlipInv, read through the          *)
(* refinement mapping W, bound how far the counters may be apart.  A step   *)
(* is first seen as one of the window (Went, FlipWent), which then keeps    *)
(* the window's invariants, because they are inductive there.              *)
(*                                                                         *)
(* GameInv adds what the slots and the core hold: the game as it is known.  *)
(* With Frames < Packets it is inductive too (GameInvariant), the saved     *)
(* states then are a chain (RingHoldsTheGame), and every step is one of the *)
(* game both users were promised (NetplayIsOneGame).                        *)
(***************************************************************************)
EXTENDS Netplay, FiniteSetTheorems, WellFoundedInduction, SequenceTheorems, TLAPS

-----------------------------------------------------------------------------
(* The ring: numbers modulo its size.                                         *)

\* The ring of struct delta_frame has Frames + 1 slots.
LEMMA RingSize == BufferSize \in Nat \ {0} /\ BufferSize = Frames + 1
  BY NetplayAssumption DEF BufferSize

\* Quotient and remainder.
LEMMA DivideBy ==
    ASSUME NEW b \in Nat \ {0}, NEW a \in Int
    PROVE  /\ a = b * (a \div b) + (a % b)
           /\ a \div b \in Int
           /\ a % b \in 0 .. b - 1
  OBVIOUS

\* Every pointer of a frame is the remainder of its number.
LEMMA Divide ==
    ASSUME NEW a \in Int
    PROVE  /\ a = BufferSize * (a \div BufferSize) + (a % BufferSize)
           /\ a \div BufferSize \in Int
           /\ a % BufferSize \in 0 .. BufferSize - 1
  BY RingSize, DivideBy

\* A remainder is a slot.
LEMMA InRing == \A a \in Int : a % BufferSize \in 0 .. BufferSize - 1
  BY Divide

\* Multiples of the size lie a size apart.
LEMMA Multiple ==
    ASSUME NEW k \in Int, NEW l \in Int, k > l
    PROVE  BufferSize * k >= BufferSize * l + BufferSize
<1>1. \A d \in Nat \ {0} : d * BufferSize >= BufferSize
  BY RingSize
<1>2. k - l \in Nat \ {0}
  OBVIOUS
<1>3. (k - l) * BufferSize = BufferSize * k - BufferSize * l
  BY RingSize
<1>4. BufferSize * k \in Int /\ BufferSize * l \in Int /\ BufferSize \in Int
  BY RingSize
<1>5. BufferSize * k - BufferSize * l >= BufferSize
  BY <1>1, <1>2, <1>3
<1> DEFINE x == BufferSize * k
           y == BufferSize * l
<1>6. x - y >= BufferSize /\ x \in Int /\ y \in Int /\ BufferSize \in Int
  BY <1>4, <1>5
<1> HIDE DEF x, y
<1>7. x >= y + BufferSize
  BY <1>6
<1>8. QED
  BY <1>7 DEF x, y

\* A number has one remainder.
LEMMA OneRemainder ==
    ASSUME NEW a \in Int, NEW q \in Int, NEW x \in 0 .. BufferSize - 1,
           a = BufferSize * q + x
    PROVE  a % BufferSize = x
<1> DEFINE p == a \div BufferSize
           y == a % BufferSize
<1>1. /\ a = BufferSize * p + y /\ p \in Int /\ y \in 0 .. BufferSize - 1
      /\ BufferSize * p \in Int /\ BufferSize * q \in Int /\ BufferSize \in Nat \ {0}
  <2>1. /\ a = BufferSize * p + y /\ p \in Int /\ y \in 0 .. BufferSize - 1
    BY Divide
  <2>2. /\ BufferSize * p \in Int /\ BufferSize * q \in Int /\ BufferSize \in Nat \ {0}
    <3> HIDE DEF p
    <3>1. QED
      BY <2>1, RingSize
  <2>3. QED
    BY <2>1, <2>2
<1> HIDE DEF p, y
<1>2. ~ (p > q) /\ ~ (q > p)
  <2>1. p > q => BufferSize * p >= BufferSize * q + BufferSize
    BY <1>1, Multiple
  <2>2. q > p => BufferSize * q >= BufferSize * p + BufferSize
    BY <1>1, Multiple
  <2> DEFINE u == BufferSize * p
             v == BufferSize * q
  <2>3. /\ a = u + y /\ a = v + x /\ u \in Int /\ v \in Int
        /\ (p > q => u >= v + BufferSize) /\ (q > p => v >= u + BufferSize)
    BY <1>1, <2>1, <2>2
  <2> HIDE DEF u, v
  <2>4. QED
    BY <1>1, <2>3
<1>3. p = q
  BY <1>1, <1>2
<1>4. BufferSize * q + y = BufferSize * q + x
  BY <1>1, <1>3
<1> DEFINE v == BufferSize * q
<1>5. v + y = v + x /\ v \in Int
  BY <1>1, <1>4
<1> HIDE DEF v
<1>6. y = x
  BY <1>1, <1>5
<1>7. QED
  BY <1>6 DEF y

\* Remainders of numbers that lie a distance apart: one of two.
LEMMA Apart ==
    ASSUME NEW a \in Nat, NEW d \in 0 .. BufferSize
    PROVE  (a + d) % BufferSize =
             IF (a % BufferSize) + d < BufferSize THEN (a % BufferSize) + d
             ELSE (a % BufferSize) + d - BufferSize
<1> DEFINE q == a \div BufferSize
           x == a % BufferSize
           v == BufferSize * q
<1>1. /\ a = v + x /\ q \in Int /\ x \in 0 .. BufferSize - 1 /\ v \in Int
      /\ BufferSize \in Nat \ {0}
  <2>1. /\ a = BufferSize * q + x /\ q \in Int /\ x \in 0 .. BufferSize - 1
    BY Divide
  <2>2. v \in Int /\ BufferSize \in Nat \ {0}
    <3> HIDE DEF q
    <3>1. QED
      BY <2>1, RingSize
  <2>3. QED
    BY <2>1, <2>2
<1>2. BufferSize * (q + 1) = v + BufferSize
  BY <1>1
<1> HIDE DEF q, x, v
<1>3. CASE x + d < BufferSize
  <2>1. a + d = v + (x + d) /\ x + d \in 0 .. BufferSize - 1 /\ a + d \in Int
    BY <1>1, <1>3
  <2>2. (a + d) % BufferSize = x + d
    BY <1>1, <2>1, OneRemainder DEF v
  <2>3. QED
    BY <1>3, <2>2 DEF x
<1>4. CASE ~ (x + d < BufferSize)
  <2>1. /\ a + d = (v + BufferSize) + (x + d - BufferSize) /\ a + d \in Int
        /\ x + d - BufferSize \in 0 .. BufferSize - 1 /\ q + 1 \in Int
    BY <1>1, <1>4
  <2>2. (a + d) % BufferSize = x + d - BufferSize
    BY <1>1, <1>2, <2>1, OneRemainder
  <2>3. QED
    BY <1>4, <2>2 DEF x
<1>5. QED
  BY <1>3, <1>4

\* The pointer behind the one of frame a is that of the next frame.
LEMMA NextOf ==
    ASSUME NEW a \in Nat
    PROVE  NextPtr(a % BufferSize) = (a + 1) % BufferSize
<1>1. /\ a % BufferSize \in 0 .. BufferSize - 1 /\ BufferSize \in Nat \ {0}
      /\ 1 \in 0 .. BufferSize
  BY InRing, RingSize
<1>2. (a + 1) % BufferSize =
        IF (a % BufferSize) + 1 < BufferSize THEN (a % BufferSize) + 1
        ELSE (a % BufferSize) + 1 - BufferSize
  BY <1>1, Apart
<1> DEFINE x == a % BufferSize
<1>3. x \in 0 .. BufferSize - 1
  BY <1>1
<1> HIDE DEF x
<1>4. (x + 1) % BufferSize = IF x + 1 < BufferSize THEN x + 1 ELSE x + 1 - BufferSize
  <2>1. CASE x + 1 < BufferSize
    <3>1. x + 1 = BufferSize * 0 + (x + 1) /\ x + 1 \in 0 .. BufferSize - 1
      BY <1>1, <1>3, <2>1
    <3>2. QED
      BY <2>1, <3>1, OneRemainder
  <2>2. CASE ~ (x + 1 < BufferSize)
    <3>1. x + 1 = BufferSize * 1 + 0 /\ 0 \in 0 .. BufferSize - 1 /\ x + 1 - BufferSize = 0
      BY <1>1, <1>3, <2>2
    <3>2. (x + 1) % BufferSize = 0
      BY <1>3, <3>1, OneRemainder
    <3>3. QED
      BY <2>2, <3>1, <3>2
  <2>3. QED
    BY <2>1, <2>2
<1>5. QED
  BY <1>2, <1>4 DEF x, NextPtr

\* The pointer before it is that of the frame before.
LEMMA PrevOf ==
    ASSUME NEW a \in Nat \ {0}
    PROVE  PrevPtr(a % BufferSize) = (a - 1) % BufferSize
<1> DEFINE x == (a - 1) % BufferSize
           y == a % BufferSize
<1>1. /\ x \in 0 .. BufferSize - 1 /\ BufferSize \in Nat \ {0} /\ 1 \in 0 .. BufferSize
      /\ a - 1 \in Nat /\ (a - 1) + 1 = a
  BY InRing, RingSize
<1>2. y = IF x + 1 < BufferSize THEN x + 1 ELSE x + 1 - BufferSize
  BY <1>1, Apart
<1> HIDE DEF x, y
<1>3. PrevPtr(y) = x
  BY <1>1, <1>2 DEF PrevPtr
<1>4. QED
  BY <1>3 DEF x, y

\* The frames in the ring have slots of their own.
LEMMA OwnSlot ==
    ASSUME NEW a \in Nat, NEW b \in Nat, a < b, b < a + BufferSize
    PROVE  a % BufferSize # b % BufferSize
<1> DEFINE x == a % BufferSize
           y == b % BufferSize
<1>1. /\ x \in 0 .. BufferSize - 1 /\ BufferSize \in Nat \ {0} /\ b - a \in 0 .. BufferSize
      /\ a + (b - a) = b
  BY InRing, RingSize
<1>2. y = IF x + (b - a) < BufferSize THEN x + (b - a) ELSE x + (b - a) - BufferSize
  BY <1>1, Apart
<1> HIDE DEF x, y
<1>3. x # y
  BY <1>1, <1>2
<1>4. QED
  BY <1>3 DEF x, y

\* After as many frames as there are slots the pointer is back.
LEMMA AroundTheRing ==
    ASSUME NEW a \in Nat
    PROVE  (a + BufferSize) % BufferSize = a % BufferSize
<1> DEFINE x == a % BufferSize
<1>1. x \in 0 .. BufferSize - 1 /\ BufferSize \in Nat \ {0} /\ BufferSize \in 0 .. BufferSize
  BY InRing, RingSize
<1>2. (a + BufferSize) % BufferSize =
        IF x + BufferSize < BufferSize THEN x + BufferSize ELSE x + BufferSize - BufferSize
  BY <1>1, Apart
<1> HIDE DEF x
<1>3. (a + BufferSize) % BufferSize = x
  BY <1>1, <1>2
<1>4. QED
  BY <1>3 DEF x

\* The pointer of frame b, found from that of an earlier one.
LEMMA SlotFrom ==
    ASSUME NEW a \in Nat, NEW b \in Nat, a <= b, b <= a + BufferSize
    PROVE  ((a % BufferSize) + b - a) % BufferSize = b % BufferSize
<1> DEFINE x == a % BufferSize
           y == b % BufferSize
           d == b - a
<1>1. /\ x \in 0 .. BufferSize - 1 /\ y \in 0 .. BufferSize - 1
      /\ BufferSize \in Nat \ {0} /\ d \in 0 .. BufferSize
      /\ a + d = b
  BY InRing, RingSize
<1>2. y = IF x + d < BufferSize THEN x + d ELSE x + d - BufferSize
  BY <1>1, Apart
<1>3. x + b - a = x + d
  BY <1>1
<1> HIDE DEF x, y, d
<1>4. x + d = BufferSize * (IF x + d < BufferSize THEN 0 ELSE 1) + y
  BY <1>1, <1>2
<1>5. (x + d) % BufferSize = y
  BY <1>1, <1>4, OneRemainder
<1>6. QED
  BY <1>3, <1>5 DEF x, y

\* How many frames lie between two pointers: none or all if they are the same.
LEMMA Distance ==
    ASSUME NEW a \in Nat, NEW b \in Nat, a < b, b <= a + BufferSize
    PROVE  (IF a % BufferSize = b % BufferSize THEN BufferSize
            ELSE ((b % BufferSize) - (a % BufferSize)) % BufferSize) = b - a
<1> DEFINE x == a % BufferSize
           y == b % BufferSize
           d == b - a
<1>1. /\ x \in 0 .. BufferSize - 1 /\ y \in 0 .. BufferSize - 1
      /\ BufferSize \in Nat \ {0} /\ d \in 1 .. BufferSize
      /\ a + d = b
  BY InRing, RingSize
<1>2. y = IF x + d < BufferSize THEN x + d ELSE x + d - BufferSize
  <2>1. d \in 0 .. BufferSize
    BY <1>1
  <2>2. QED
    BY <1>1, <2>1, Apart
<1> HIDE DEF x, y, d
<1>3. CASE x = y
  <2>1. d = BufferSize
    BY <1>1, <1>2, <1>3
  <2>2. QED
    BY <1>3, <2>1 DEF x, y, d
<1>4. CASE x # y
  <2>1. d \in 0 .. BufferSize - 1 /\ y - x \in Int
        /\ y - x = BufferSize * (IF x + d < BufferSize THEN 0 ELSE -1) + d
    BY <1>1, <1>2, <1>4
  <2>2. (y - x) % BufferSize = d
    BY <2>1, OneRemainder
  <2>3. QED
    BY <1>4, <2>2 DEF x, y, d
<1>5. QED
  BY <1>3, <1>4

-----------------------------------------------------------------------------
(* Parsing a packet                                                          *)

\* A set of numbers that is not empty has a least element.
LEMMA MinimalOf ==
    ASSUME NEW R, NEW T \in SUBSET Nat, T # {}, IsWellFoundedOn(R, Nat)
    PROVE  \E x \in T : \A y \in T : ~ (<<y, x>> \in R)
  BY WFMin

\* < as a set of pairs.
LEMMA LessOf ==
    ASSUME NEW x \in Nat, NEW y \in Nat, x < y
    PROVE  <<x, y>> \in OpToRel(<, Nat)
  BY DEF OpToRel

\* The same with the order written out.
LEMMA Least ==
    ASSUME NEW T \in SUBSET Nat, T # {}
    PROVE  \E x \in T : \A y \in T : x <= y
<1>1. PICK x \in T : \A y \in T : ~ (<<y, x>> \in OpToRel(<, Nat))
  <2>1. \E x \in T : \A y \in T : ~ (<<y, x>> \in OpToRel(<, Nat))
    BY MinimalOf, NatLessThanWellFounded
  <2>2. QED
    BY <2>1
<1>2. \A y \in T : y \in Nat /\ x \in Nat
  OBVIOUS
<1>3. \A y \in T : ~ (y < x)
  BY <1>1, <1>2, LessOf
<1>4. QED
  BY <1>2, <1>3

-----------------------------------------------------------------------------
\* The core as the sequence of joint inputs it has run on, one slot of the ring
\* and struct netplay: the types.
Games == Seq(Input \X Input)

SlotType ==
    [state : Games, self : Input, real : Input, simulated : Input,
     isSimulated : BOOLEAN, usedReal : BOOLEAN]

PeerType ==
    [pc : {"idle", "first", "again", "run", "response", "offline", "lost", "gone"},
     core : Games, buffer : [0 .. Frames -> SlotType],
     selfPtr : 0 .. Frames, otherPtr : 0 .. Frames, readPtr : 0 .. Frames,
     frame : Nat, read : Nat, other : Nat,
     hasAddr : BOOLEAN, timeouts : 0 .. Retries, firstRead : Nat,
     flip : {0, 1}, flipFrame : Nat]

\* The other side is a side, and not this one.
LEMMA PeerIsNode ==
    ASSUME NEW n \in Node
    PROVE  Peer(n) \in Node /\ Peer(n) # n /\ Peer(Peer(n)) = n
  BY DEF Node, Peer

\* The frame a peer waits for once a packet is parsed.
NextRead(r, p) ==
    IF p - Packets < r.read /\ r.read <= p
    THEN IF p < r.frame THEN p + 1 ELSE r.frame + 1
    ELSE r.read

\* Numbers in a range no longer than the ring.
LEMMA Within ==
    ASSUME NEW f \in Int, NEW g \in Int, NEW a \in Int, NEW b \in Int, NEW size \in Int,
           a <= f, f <= b, a <= g, g <= b, b + 1 <= a + size
    PROVE  f < g + size /\ g < f + size
  OBVIOUS

\* A range that ends before it starts.
LEMMA EmptyRange == \A a \in Int : (a - 1) + 1 = a /\ a .. a - 1 = {}
  OBVIOUS

\* r has parsed the packet of frame p and become s.
TakenIn(n, r, p, s) ==
    /\ s \in PeerType
    /\ s = [r EXCEPT !.buffer = s.buffer, !.readPtr = s.readPtr,
                     !.read = s.read, !.timeouts = s.timeouts]
    /\ s.read = NextRead(r, p)
    /\ r.read <= s.read /\ s.read <= r.frame + 1
    /\ s.readPtr = s.read % BufferSize
    /\ \A f \in r.read .. s.read - 1 :
         s.buffer[f % BufferSize] =
           [r.buffer[f % BufferSize] EXCEPT !.isSimulated = FALSE,
                !.real = packed[Peer(n)][f + 1]]
    /\ \A i \in 0 .. Frames :
         (\A f \in r.read .. s.read - 1 : f % BufferSize # i) =>
           s.buffer[i] = r.buffer[i]

\* parse_packet takes in what NextRead says, into the slots of those frames, and
\* keeps everything else.
LEMMA ParseTakesIn ==
    ASSUME NEW n \in Node, NEW r \in PeerType, NEW p \in Nat,
           packed \in [Node -> Seq(Input)],
           p < Len(packed[Peer(n)]),
           r.readPtr = r.read % BufferSize,
           r.read <= r.frame, r.frame + 1 <= r.read + BufferSize
    PROVE  TakenIn(n, r, p, ParsePacket(n, r, p))
<1> DEFINE s == ParsePacket(n, r, p)
<1> DEFINE upTo == IF ~(p - Packets < r.read /\ r.read <= p) THEN r.read - 1
                   ELSE IF p < r.frame THEN p ELSE r.frame
           got == r.read .. upTo
           At(f) == (r.readPtr + f - r.read) % BufferSize
           From(i) == CHOOSE f \in got : At(f) = i
           ring == [i \in DOMAIN r.buffer |->
             IF \E f \in got : At(f) = i
             THEN [r.buffer[i] EXCEPT !.isSimulated = FALSE,
                                      !.real = packed[Peer(n)][From(i) + 1]]
             ELSE r.buffer[i]]
           late == IF got = {} THEN Counted(r.timeouts) ELSE 0
<1>1. s = [r EXCEPT !.buffer = ring, !.readPtr = At(upTo + 1), !.read = upTo + 1,
                    !.timeouts = late]
  BY DEF ParsePacket
<1>2. /\ r.read \in Nat /\ r.frame \in Nat /\ r.readPtr \in 0 .. Frames
      /\ r.timeouts \in 0 .. Retries
      /\ r.buffer \in [0 .. Frames -> SlotType]
      /\ DOMAIN r.buffer = 0 .. Frames
      /\ BufferSize \in Nat \ {0} /\ BufferSize = Frames + 1
      /\ Packets \in Nat /\ Retries \in Nat \ {0} /\ Frames \in Nat
  BY RingSize, NetplayAssumption DEF PeerType
<1>3. /\ upTo + 1 = NextRead(r, p)
      /\ upTo + 1 \in Nat
      /\ r.read <= upTo + 1 /\ upTo + 1 <= r.frame + 1
      /\ \A f \in got : f \in Nat /\ f <= p /\ r.read <= f /\ f <= upTo
      /\ (upTo + 1) - 1 = upTo
  <2>1. CASE ~(p - Packets < r.read /\ r.read <= p)
    <3>1. upTo = r.read - 1 /\ NextRead(r, p) = r.read
      BY <2>1 DEF NextRead
    <3>2. upTo + 1 = r.read /\ got = {}
      <4>1. (r.read - 1) + 1 = r.read /\ r.read .. r.read - 1 = {}
        BY <1>2, EmptyRange
      <4> HIDE DEF upTo
      <4>2. QED
        BY <3>1, <4>1
    <3> HIDE DEF got, upTo
    <3>3. QED
      BY <1>2, <3>1, <3>2
  <2>2. CASE p - Packets < r.read /\ r.read <= p
    <3>1. /\ upTo = IF p < r.frame THEN p ELSE r.frame
          /\ NextRead(r, p) = IF p < r.frame THEN p + 1 ELSE r.frame + 1
      BY <2>2 DEF NextRead
    <3> HIDE DEF upTo
    <3>2. upTo \in Nat /\ upTo <= p /\ upTo <= r.frame /\ r.read <= upTo
      <4>1. CASE p < r.frame
        BY <1>2, <2>2, <3>1, <4>1
      <4>2. CASE ~ (p < r.frame)
        BY <1>2, <2>2, <3>1, <4>2
      <4>3. QED
        BY <4>1, <4>2
    <3>3. upTo + 1 = NextRead(r, p)
      BY <3>1, Zenon
    <3>4. \A f \in got : f \in Nat /\ f <= p /\ r.read <= f /\ f <= upTo
      BY <1>2, <3>2
    <3>5. QED
      BY <1>2, <3>2, <3>3, <3>4
  <2>3. QED
    BY <2>1, <2>2
<1>4. late \in 0 .. Retries
  BY <1>2 DEF Counted
<1> HIDE DEF upTo, late
<1>5. \A f \in Nat : r.read <= f /\ f <= upTo + 1 => At(f) = f % BufferSize
  <2> SUFFICES ASSUME NEW f \in Nat, r.read <= f, f <= upTo + 1
               PROVE  At(f) = f % BufferSize
    OBVIOUS
  <2>1. f <= r.read + BufferSize
    BY <1>2, <1>3
  <2>2. ((r.read % BufferSize) + f - r.read) % BufferSize = f % BufferSize
    BY <1>2, <2>1, SlotFrom
  <2>3. QED
    BY <2>2
<1>6. \A f \in got : From(f % BufferSize) = f
  <2> SUFFICES ASSUME NEW f \in got PROVE From(f % BufferSize) = f
    OBVIOUS
  <2>1. At(f) = f % BufferSize
    BY <1>3, <1>5
  <2>2. ASSUME NEW g \in got, At(g) = f % BufferSize PROVE g = f
    <3>1. g % BufferSize = f % BufferSize
      BY <1>3, <1>5, <2>2
    <3>2. /\ f \in Nat /\ g \in Nat /\ f < g + BufferSize /\ g < f + BufferSize
      <4> HIDE DEF At, From, got
      <4>1. /\ f \in Nat /\ r.read <= f /\ f <= upTo
            /\ g \in Nat /\ r.read <= g /\ g <= upTo
        BY <1>3
      <4>2. upTo + 1 <= r.read + BufferSize
        BY <1>2, <1>3
      <4>3. r.read \in Int /\ upTo \in Int /\ BufferSize \in Int /\ f \in Int /\ g \in Int
        <5>1. (upTo + 1) - 1 \in Int
          BY <1>3
        <5>2. upTo \in Int
          BY <1>3, <5>1, Zenon
        <5>3. QED
          BY <1>2, <4>1, <5>2
      <4>4. QED
        BY <4>1, <4>2, <4>3, Within
    <3>3. ~ (f < g) /\ ~ (g < f)
      BY <3>1, <3>2, OwnSlot
    <3>4. QED
      BY <3>2, <3>3
  <2> HIDE DEF At
  <2>3. QED
    BY <2>1, <2>2
<1>7. /\ \A f \in got : f % BufferSize \in 0 .. Frames
      /\ \A f \in got : packed[Peer(n)][f + 1] \in Input
  <2>1. \A f \in got : f % BufferSize \in 0 .. Frames
    <3>1. BufferSize - 1 = Frames /\ \A f \in got : f \in Int
      BY <1>2, <1>3
    <3>2. QED
      BY <3>1, InRing
  <2>2. packed[Peer(n)] \in Seq(Input)
    BY PeerIsNode
  <2>3. \A f \in got : f + 1 \in 1 .. Len(packed[Peer(n)])
    BY <1>3, <2>2
  <2>4. QED
    BY <2>1, <2>2, <2>3
<1>8. \A f \in got : ring[f % BufferSize] =
        [r.buffer[f % BufferSize] EXCEPT !.isSimulated = FALSE,
             !.real = packed[Peer(n)][f + 1]]
  <2> SUFFICES ASSUME NEW f \in got
               PROVE  ring[f % BufferSize] =
                        [r.buffer[f % BufferSize] EXCEPT !.isSimulated = FALSE,
                             !.real = packed[Peer(n)][f + 1]]
    OBVIOUS
  <2>1. \E g \in got : At(g) = f % BufferSize
    BY <1>3, <1>5
  <2>2. From(f % BufferSize) = f /\ f % BufferSize \in DOMAIN r.buffer
    BY <1>2, <1>6, <1>7
  <2> HIDE DEF At, From
  <2>3. QED
    BY <2>1, <2>2
<1>9. \A i \in 0 .. Frames : (\A f \in got : f % BufferSize # i) => ring[i] = r.buffer[i]
  <2> SUFFICES ASSUME NEW i \in 0 .. Frames, \A f \in got : f % BufferSize # i
               PROVE  ring[i] = r.buffer[i]
    OBVIOUS
  <2>1. ~ \E f \in got : At(f) = i
    BY <1>3, <1>5
  <2> HIDE DEF At, From
  <2>2. QED
    BY <1>2, <2>1
<1>10. ring \in [0 .. Frames -> SlotType]
  <2>1. ASSUME NEW i \in 0 .. Frames PROVE ring[i] \in SlotType
    <3>1. CASE \E f \in got : At(f) = i
      <4>1. PICK f \in got : At(f) = i
        BY <3>1
      <4>2. f % BufferSize = i
        BY <1>3, <1>5, <4>1
      <4>3. /\ packed[Peer(n)][f + 1] \in Input /\ r.buffer[i] \in SlotType
            /\ ring[i] = [r.buffer[i] EXCEPT !.isSimulated = FALSE,
                             !.real = packed[Peer(n)][f + 1]]
        BY <1>2, <1>7, <1>8, <4>2
      <4> HIDE DEF ring
      <4>4. QED
        BY <4>3 DEF SlotType
    <3>2. CASE ~ \E f \in got : At(f) = i
      <4> HIDE DEF At, From
      <4>1. ring[i] = r.buffer[i]
        BY <1>2, <3>2
      <4>2. QED
        BY <1>2, <4>1
    <3>3. QED
      BY <3>1, <3>2
  <2>2. DOMAIN ring = 0 .. Frames
    BY <1>2
  <2>3. ring = [i \in DOMAIN ring |-> ring[i]]
    OBVIOUS
  <2> HIDE DEF ring
  <2>4. QED
    BY <2>1, <2>2, <2>3
<1>11. At(upTo + 1) = (upTo + 1) % BufferSize /\ (upTo + 1) % BufferSize \in 0 .. Frames
  <2> DEFINE f == upTo + 1
  <2>1. f \in Nat /\ r.read <= f /\ f <= upTo + 1
    BY <1>3
  <2> HIDE DEF f, At
  <2>2. At(f) = f % BufferSize
    BY <1>5, <2>1
  <2>3. f % BufferSize \in 0 .. BufferSize - 1
    BY <2>1, InRing
  <2>4. 0 .. BufferSize - 1 = 0 .. Frames
    BY <1>2
  <2>5. QED
    BY <2>2, <2>3, <2>4 DEF f
<1> HIDE DEF ring, At, got
<1>12. /\ s \in PeerType
       /\ s.buffer = ring /\ s.readPtr = (upTo + 1) % BufferSize
       /\ s.read = upTo + 1 /\ s.timeouts = late
  <2> HIDE DEF s
  <2>1. QED
    BY <1>1, <1>3, <1>4, <1>10, <1>11 DEF PeerType
<1> HIDE DEF s
<1>13. s = [r EXCEPT !.buffer = s.buffer, !.readPtr = s.readPtr,
                     !.read = s.read, !.timeouts = s.timeouts]
  BY <1>1, <1>11, <1>12
<1>14. r.read .. s.read - 1 = got
  BY <1>3, <1>12 DEF got
<1>15. QED
  <2>1. TakenIn(n, r, p, s)
    BY <1>3, <1>8, <1>9, <1>12, <1>13, <1>14 DEF TakenIn
  <2>2. QED
    BY <2>1 DEF s

-----------------------------------------------------------------------------
(* The end of a poll, and what the core is given                             *)

\* The pointer before a slot is a slot.
LEMMA PrevInRing ==
    ASSUME NEW x \in 0 .. Frames
    PROVE  PrevPtr(x) \in 0 .. Frames /\ NextPtr(x) \in 0 .. Frames
<1>1. /\ BufferSize \in Nat \ {0} /\ BufferSize = Frames + 1 /\ Frames \in Nat
      /\ x + 1 \in Int
  BY RingSize, NetplayAssumption
<1>2. (x + 1) % BufferSize \in 0 .. BufferSize - 1
  BY <1>1, InRing
<1>3. QED
  BY <1>1, <1>2 DEF PrevPtr, NextPtr

\* The poll of r is over, and r has become s.
PollOver(r, s) ==
    LET last == PrevPtr(r.selfPtr) IN
    /\ s \in PeerType
    /\ s = [r EXCEPT !.pc = s.pc, !.buffer = s.buffer]
    /\ s.pc = IF Full(r) /\ r.read = r.other THEN "lost" ELSE "run"
    /\ s.pc = "lost" => s.buffer = r.buffer
    /\ s.pc = "run" =>
         /\ \A i \in 0 .. Frames : i # last => s.buffer[i] = r.buffer[i]
         /\ s.buffer[last] =
              IF r.readPtr # r.selfPtr
              THEN Predict(r.buffer[last], r.buffer[PrevPtr(r.readPtr)].real)
              ELSE [r.buffer[last] EXCEPT !.usedReal = TRUE]

\* The end of netplay_poll touches one slot and the place in the frame.
LEMMA PollEnds ==
    ASSUME NEW r \in PeerType
    PROVE  PollOver(r, EndPoll(r))
<1> DEFINE s == EndPoll(r)
<1> DEFINE last == PrevPtr(r.selfPtr)
           guess == r.buffer[PrevPtr(r.readPtr)].real
           slot == IF r.readPtr # r.selfPtr THEN Predict(r.buffer[last], guess)
                   ELSE [r.buffer[last] EXCEPT !.usedReal = TRUE]
<1>1. /\ last \in 0 .. Frames /\ PrevPtr(r.readPtr) \in 0 .. Frames
      /\ r.buffer \in [0 .. Frames -> SlotType]
  BY PrevInRing DEF PeerType
<1>2. r.buffer[last] \in SlotType /\ guess \in Input
  BY <1>1 DEF SlotType
<1>3. slot \in SlotType
  <2> HIDE DEF guess, last
  <2>1. QED
    BY <1>2 DEF SlotType, Predict
<1>4. CASE Full(r) /\ r.read = r.other
  <2>1. s = [r EXCEPT !.pc = "lost"]
    BY <1>4 DEF EndPoll
  <2>2. s \in PeerType /\ s.pc = "lost" /\ s.buffer = r.buffer
    BY <2>1 DEF PeerType
  <2>3. s = [r EXCEPT !.pc = s.pc, !.buffer = s.buffer]
    BY <2>1, <2>2 DEF PeerType
  <2>4. QED
    BY <1>4, <2>2, <2>3 DEF PollOver
<1>5. CASE ~ (Full(r) /\ r.read = r.other)
  <2> DEFINE ring == [r.buffer EXCEPT ![last] = slot]
  <2>1. s = [r EXCEPT !.pc = "run", !.buffer = ring]
    <3>1. CASE r.readPtr # r.selfPtr
      BY <1>5, <3>1 DEF EndPoll
    <3>2. CASE r.readPtr = r.selfPtr
      BY <1>5, <3>2 DEF EndPoll
    <3>3. QED
      BY <3>1, <3>2
  <2> HIDE DEF slot, last
  <2>2. /\ ring \in [0 .. Frames -> SlotType]
        /\ ring[last] = slot
        /\ \A i \in 0 .. Frames : i # last => ring[i] = r.buffer[i]
    BY <1>1, <1>3
  <2> HIDE DEF ring
  <2>3. s \in PeerType /\ s.pc = "run" /\ s.buffer = ring
    BY <2>1, <2>2 DEF PeerType
  <2>4. s = [r EXCEPT !.pc = s.pc, !.buffer = s.buffer]
    BY <2>1, <2>3
  <2>5. QED
    BY <1>5, <2>2, <2>3, <2>4 DEF slot, last, PollOver
<1>6. QED
  BY <1>4, <1>5

-----------------------------------------------------------------------------
\* input_state_net answers with a pair of pad states.
LEMMA InputIsJoint ==
    ASSUME NEW n \in Node, NEW r \in PeerType, NEW ptr \in 0 .. Frames, NEW f
    PROVE  JointInput(n, r, ptr, f) \in Input \X Input
<1>1. r.buffer[ptr] \in SlotType
  BY DEF PeerType
<1>2. \A port \in {0, 1} : InputState(n, r, ptr, f, port) \in Input
  BY <1>1 DEF InputState, SlotType
<1>3. QED
  BY <1>2 DEF JointInput

\* A sequence that goes on.
GoesOn(S, base, size, more, whole) ==
    /\ whole \in Seq(S) /\ Len(base) \in Nat
    /\ Len(whole) = Len(base) + size
    /\ \A j \in 1 .. Len(base) : whole[j] = base[j]
    /\ \A k \in 1 .. size : whole[Len(base) + k] = more[k]
    /\ \A k \in 0 .. size :
         /\ SubSeq(whole, 1, Len(base) + k) \in Seq(S)
         /\ Len(SubSeq(whole, 1, Len(base) + k)) = Len(base) + k
         /\ \A j \in 1 .. Len(base) + k :
              SubSeq(whole, 1, Len(base) + k)[j] = whole[j]

\* Such a sequence is longer by what was added, and its beginnings are its own.
LEMMA Extends ==
    ASSUME NEW S, NEW base \in Seq(S), NEW size \in Nat, NEW more \in [1 .. size -> S]
    PROVE  GoesOn(S, base, size, more, base \o more)
<1> DEFINE whole == base \o more
<1>1. more \in Seq(S) /\ Len(more) = size
  <2>1. more \in Seq(S)
    BY SeqDef
  <2>2. Len(more) \in Nat /\ DOMAIN more = 1 .. Len(more) /\ DOMAIN more = 1 .. size
    BY <2>1, LenProperties
  <2>3. QED
    BY <2>1, <2>2
<1>2. /\ whole \in Seq(S)
      /\ Len(whole) = Len(base) + Len(more)
      /\ \A i \in 1 .. Len(base) + Len(more) :
           whole[i] = IF i <= Len(base) THEN base[i] ELSE more[i - Len(base)]
  BY <1>1, ConcatProperties
<1> HIDE DEF whole
<1>3. Len(base) \in Nat
  BY LenProperties
<1>4. \A j \in 1 .. Len(base) : whole[j] = base[j]
  BY <1>1, <1>2, <1>3
<1>5. \A k \in 1 .. size : whole[Len(base) + k] = more[k]
  <2> SUFFICES ASSUME NEW k \in 1 .. size PROVE whole[Len(base) + k] = more[k]
    OBVIOUS
  <2> DEFINE i == Len(base) + k
  <2>1. i \in 1 .. Len(base) + Len(more) /\ ~ (i <= Len(base)) /\ i - Len(base) = k
    BY <1>1, <1>3
  <2> HIDE DEF i
  <2>2. whole[i] = more[k]
    BY <1>2, <2>1
  <2>3. QED
    BY <2>2 DEF i
<1>6. ASSUME NEW k \in 0 .. size
      PROVE  LET part == SubSeq(whole, 1, Len(base) + k) IN
             /\ part \in Seq(S)
             /\ Len(part) = Len(base) + k
             /\ \A j \in 1 .. Len(base) + k : part[j] = whole[j]
  <2> DEFINE m == Len(base) + k
             part == SubSeq(whole, 1, m)
  <2>1. m \in Nat /\ m <= Len(whole) /\ 1 \in Int /\ m \in Int
    BY <1>1, <1>2, <1>3
  <2>2. \A i \in 1 .. m : whole[i] \in S
    BY <1>2, <2>1
  <2> HIDE DEF m
  <2>3. /\ part \in Seq(S)
        /\ Len(part) = IF 1 <= m THEN m - 1 + 1 ELSE 0
        /\ \A i \in 1 .. m - 1 + 1 : part[i] = whole[1 + i - 1]
    BY <2>1, <2>2, SubSeqProperties
  <2>4. Len(part) = m /\ \A i \in 1 .. m : part[i] = whole[i]
    <3>1. m - 1 + 1 = m /\ (1 <= m \/ m = 0) /\ \A i \in 1 .. m : 1 + i - 1 = i
      BY <2>1
    <3>2. QED
      BY <2>3, <3>1
  <2>5. QED
    BY <2>3, <2>4 DEF m
<1>7. GoesOn(S, base, size, more, whole)
  BY <1>1, <1>2, <1>3, <1>4, <1>5, <1>6 DEF GoesOn
<1>8. QED
  BY <1>7 DEF whole

-----------------------------------------------------------------------------
(* The end of a frame                                                        *)

\* The frames whose input has come since the last frame, and the first of them
\* that ran on a wrong guess.
News(r) == r.other .. r.read - 1
WrongAt(r, f) == Mispredicted(r.buffer[f % BufferSize])
FirstWrong(r, f) ==
    /\ f \in News(r) /\ WrongAt(r, f)
    /\ \A g \in r.other .. f - 1 : ~ WrongAt(r, g)

\* r is replayed from frame f on and becomes s; m frames have been started.
Replayed(n, r, s, f, m) ==
    LET base == r.buffer[f % BufferSize].state IN
    /\ Len(base) \in Nat
    /\ Len(s.core) = Len(base) + (m - f)
    /\ \A j \in 1 .. Len(base) : s.core[j] = base[j]
    /\ \A k \in 1 .. m - f :
         s.core[Len(base) + k] = JointInput(n, r, (f + k - 1) % BufferSize, f + k - 1)
    /\ \A k \in 0 .. m - f - 1 :
         LET slot == s.buffer[(f + k) % BufferSize] IN
         /\ slot = [r.buffer[(f + k) % BufferSize] EXCEPT !.state = slot.state]
         /\ Len(slot.state) = Len(base) + k
         /\ \A j \in 1 .. Len(base) + k : slot.state[j] = s.core[j]
    /\ \A i \in 0 .. Frames :
         (\A k \in 0 .. m - f - 1 : (f + k) % BufferSize # i) => s.buffer[i] = r.buffer[i]

\* The frame of r is over, and r has become s.
FrameOver(n, r, s, m) ==
    /\ s \in PeerType
    /\ s = [r EXCEPT !.other = r.read, !.otherPtr = r.readPtr,
                     !.core = s.core, !.buffer = s.buffer]
    /\ \/ /\ \A f \in News(r) : ~ WrongAt(r, f)
          /\ s.core = r.core /\ s.buffer = r.buffer
       \/ \E f \in News(r) : FirstWrong(r, f) /\ Replayed(n, r, s, f, m)

\* Numbers less than a size apart.
LEMMA Near ==
    \A s, k, l, z, b \in Nat : k < z /\ l < z /\ z <= b =>
      /\ s + l \in Nat /\ s + k \in Nat
      /\ s + l < (s + k) + b /\ s + k < (s + l) + b
  OBVIOUS

\* netplay_post_frame_net settles what was heard: without a wrong guess that is
\* all, with one the first such frame and all after it are run again from the
\* state that was saved before it.
LEMMA FrameEnds ==
    ASSUME NEW n \in Node, NEW r \in PeerType, NEW m \in Nat,
           r.selfPtr = m % BufferSize, r.otherPtr = r.other % BufferSize,
           r.other <= r.read, r.read <= m, m <= r.other + BufferSize
    PROVE  FrameOver(n, r, PostFrame(n, r), m)
<1> DEFINE s == PostFrame(n, r)
<1> DEFINE At(f) == (r.otherPtr + f - r.other) % BufferSize
           bad == {f \in r.other .. r.read - 1 : Mispredicted(r.buffer[At(f)])}
           start == CHOOSE f \in bad : \A g \in bad : f <= g
           size == IF At(start) = r.selfPtr THEN BufferSize
                   ELSE (r.selfPtr - At(start)) % BufferSize
           base == r.buffer[At(start)].state
           more == [k \in 1 .. size |-> JointInput(n, r, At(start + k - 1), start + k - 1)]
           replayed == base \o more
           SavedAt(k) == SubSeq(replayed, 1, Len(base) + k)
           Back(i) == CHOOSE k \in 0 .. size - 1 : At(start + k) = i
           ring == [i \in DOMAIN r.buffer |->
                     IF \E k \in 0 .. size - 1 : At(start + k) = i
                     THEN [r.buffer[i] EXCEPT !.state = SavedAt(Back(i))]
                     ELSE r.buffer[i]]
<1>1. /\ r.read \in Nat /\ r.other \in Nat /\ r.otherPtr \in 0 .. Frames
      /\ r.buffer \in [0 .. Frames -> SlotType]
      /\ DOMAIN r.buffer = 0 .. Frames
      /\ BufferSize \in Nat \ {0} /\ BufferSize = Frames + 1 /\ Frames \in Nat
  BY RingSize, NetplayAssumption DEF PeerType
<1>2. \A f \in Nat : r.other <= f /\ f <= m => At(f) = f % BufferSize
  <2> SUFFICES ASSUME NEW f \in Nat, r.other <= f, f <= m
               PROVE  At(f) = f % BufferSize
    OBVIOUS
  <2>1. f <= r.other + BufferSize
    BY <1>1
  <2>2. ((r.other % BufferSize) + f - r.other) % BufferSize = f % BufferSize
    BY <1>1, <2>1, SlotFrom
  <2>3. QED
    BY <2>2
<1>3. bad = {f \in News(r) : WrongAt(r, f)}
  <2>1. \A f \in News(r) : f \in Nat /\ r.other <= f /\ f <= m
    BY <1>1 DEF News
  <2>2. \A f \in News(r) : At(f) = f % BufferSize
    BY <1>2, <2>1
  <2> HIDE DEF At
  <2>3. QED
    BY <2>2 DEF WrongAt, News
<1>4. CASE bad = {}
  <2>1. s = [r EXCEPT !.other = r.read, !.otherPtr = r.readPtr]
    BY <1>4 DEF PostFrame, Settled
  <2>2. s \in PeerType /\ s.core = r.core /\ s.buffer = r.buffer
    BY <2>1 DEF PeerType
  <2>3. s = [r EXCEPT !.other = r.read, !.otherPtr = r.readPtr,
                      !.core = s.core, !.buffer = s.buffer]
    BY <2>1, <2>2 DEF PeerType
  <2>4. \A f \in News(r) : ~ WrongAt(r, f)
    BY <1>3, <1>4
  <2>5. QED
    BY <2>2, <2>3, <2>4 DEF FrameOver
<1>5. CASE bad # {}
  <2>1. s = [[r EXCEPT !.other = r.read, !.otherPtr = r.readPtr]
                EXCEPT !.core = replayed, !.buffer = ring]
    <3> DEFINE t == Settled(r)
               ring2 == [i \in DOMAIN t.buffer |->
                          IF \E k \in 0 .. size - 1 : At(start + k) = i
                          THEN [t.buffer[i] EXCEPT !.state = SavedAt(Back(i))]
                          ELSE t.buffer[i]]
    <3>1. s = [t EXCEPT !.core = replayed, !.buffer = ring2]
      BY <1>5 DEF PostFrame
    <3>2. t.buffer = r.buffer
      BY DEF Settled, PeerType
    <3>3. ring2 = ring
      <4> HIDE DEF t, SavedAt, Back, At
      <4>1. QED
        BY <3>2
    <3> HIDE DEF ring, replayed, ring2
    <3>4. s = [t EXCEPT !.core = replayed, !.buffer = ring]
      BY <3>1, <3>3
    <3>5. QED
      BY <3>4 DEF Settled
  <2>2. FirstWrong(r, start) /\ start \in bad
    <3>1. bad \in SUBSET Nat
      BY <1>1, <1>3 DEF News
    <3>2. \E f \in bad : \A g \in bad : f <= g
      BY <1>5, <3>1, Least
    <3>3. start \in bad /\ \A g \in bad : start <= g
      BY <3>2
    <3> HIDE DEF start, bad
    <3>4. start \in News(r) /\ WrongAt(r, start) /\ start \in Nat
      BY <1>3, <3>1, <3>3
    <3>5. ASSUME NEW g \in r.other .. start - 1 PROVE ~ WrongAt(r, g)
      <4>1. g \in News(r) /\ ~ (start <= g)
        BY <1>1, <3>4 DEF News
      <4>2. QED
        BY <1>3, <3>3, <4>1
    <3>6. QED
      BY <3>3, <3>4, <3>5 DEF FirstWrong
  <2>3. /\ start \in Nat /\ r.other <= start /\ start < m /\ m <= start + BufferSize
        /\ start \in News(r)
    <3>1. start \in News(r)
      BY <2>2 DEF FirstWrong
    <3> HIDE DEF start
    <3>2. QED
      BY <1>1, <3>1 DEF News
  <2> HIDE DEF start, bad
  <2>4. At(start) = start % BufferSize
    BY <1>1, <1>2, <2>3
  <2>5. size = m - start
    <3>1. (IF start % BufferSize = m % BufferSize THEN BufferSize
           ELSE ((m % BufferSize) - (start % BufferSize)) % BufferSize) = m - start
      BY <2>3, Distance
    <3> HIDE DEF At
    <3>2. QED
      BY <2>4, <3>1
  <2> HIDE DEF size
  <2>6. /\ size \in Nat \ {0} /\ size <= BufferSize
    BY <1>1, <2>3, <2>5
  <2>7. \A k \in 0 .. size - 1 :
          /\ start + k \in Nat /\ At(start + k) = (start + k) % BufferSize
          /\ (start + k) % BufferSize \in 0 .. Frames
    <3> SUFFICES ASSUME NEW k \in 0 .. size - 1
                 PROVE  /\ start + k \in Nat /\ At(start + k) = (start + k) % BufferSize
                        /\ (start + k) % BufferSize \in 0 .. Frames
      OBVIOUS
    <3> DEFINE f == start + k
    <3>1. f \in Nat /\ r.other <= f /\ f <= m
      BY <1>1, <2>3, <2>5, <2>6
    <3> HIDE DEF f
    <3>2. At(f) = f % BufferSize /\ f % BufferSize \in 0 .. Frames
      BY <1>1, <1>2, <3>1, InRing
    <3>3. QED
      BY <3>1, <3>2 DEF f
  <2>8. \A k \in 1 .. size :
          /\ k - 1 \in 0 .. size - 1 /\ start + k - 1 = start + (k - 1)
          /\ At(start + k - 1) = (start + k - 1) % BufferSize
          /\ (start + k - 1) % BufferSize \in 0 .. Frames
    <3> SUFFICES ASSUME NEW k \in 1 .. size
                 PROVE  /\ k - 1 \in 0 .. size - 1 /\ start + k - 1 = start + (k - 1)
                        /\ At(start + k - 1) = (start + k - 1) % BufferSize
                        /\ (start + k - 1) % BufferSize \in 0 .. Frames
      OBVIOUS
    <3>1. k - 1 \in 0 .. size - 1 /\ start + k - 1 = start + (k - 1)
      BY <2>3, <2>6
    <3> HIDE DEF At
    <3>2. QED
      BY <2>7, <3>1
  <2>9. base = r.buffer[start % BufferSize].state /\ base \in Games
    <3>1. start % BufferSize \in 0 .. Frames
      BY <1>1, <2>3, InRing
    <3> HIDE DEF At
    <3>2. QED
      BY <1>1, <2>4, <3>1 DEF SlotType
  <2>10. /\ \A k \in 1 .. size : more[k] =
              JointInput(n, r, (start + k - 1) % BufferSize, start + k - 1)
         /\ more \in [1 .. size -> Input \X Input]
    <3>1. \A k \in 1 .. size : more[k] =
              JointInput(n, r, (start + k - 1) % BufferSize, start + k - 1)
      <4> HIDE DEF At
      <4>1. QED
        BY <2>8
    <3>2. \A k \in 1 .. size : more[k] \in Input \X Input
      <4> HIDE DEF more
      <4>1. QED
        BY <2>8, <3>1, InputIsJoint
    <3>3. DOMAIN more = 1 .. size /\ more = [k \in DOMAIN more |-> more[k]]
      OBVIOUS
    <3> HIDE DEF more
    <3>4. more \in [1 .. size -> Input \X Input]
      BY <3>2, <3>3
    <3>5. QED
      BY <3>1, <3>4
  <2> HIDE DEF more, base
  <2>11. /\ replayed \in Games /\ Len(base) \in Nat
         /\ Len(replayed) = Len(base) + size
         /\ \A j \in 1 .. Len(base) : replayed[j] = base[j]
         /\ \A k \in 1 .. size : replayed[Len(base) + k] = more[k]
         /\ \A k \in 0 .. size :
              /\ SavedAt(k) \in Games
              /\ Len(SavedAt(k)) = Len(base) + k
              /\ \A j \in 1 .. Len(base) + k : SavedAt(k)[j] = replayed[j]
    <3>1. replayed = base \o more /\ base \in Seq(Input \X Input) /\ size \in Nat
      BY <2>6, <2>9 DEF Games
    <3>2. more \in [1 .. size -> Input \X Input]
      BY <2>10
    <3> HIDE DEF replayed
    <3>3. GoesOn(Input \X Input, base, size, more, base \o more)
      BY <3>1, <3>2, Extends
    <3>4. GoesOn(Input \X Input, base, size, more, replayed)
      BY <3>1, <3>3
    <3>5. QED
      BY <3>4 DEF Games, GoesOn
  <2> HIDE DEF replayed, SavedAt
  <2>12. \A k \in 0 .. size - 1 : Back((start + k) % BufferSize) = k
    <3> SUFFICES ASSUME NEW k \in 0 .. size - 1
                 PROVE  Back((start + k) % BufferSize) = k
      OBVIOUS
    <3>1. ASSUME NEW l \in 0 .. size - 1, At(start + l) = (start + k) % BufferSize
          PROVE  l = k
      <4>1. (start + l) % BufferSize = (start + k) % BufferSize
        BY <2>7, <3>1
      <4>2. /\ start + l \in Nat /\ start + k \in Nat
            /\ start + l < (start + k) + BufferSize /\ start + k < (start + l) + BufferSize
            /\ k \in Nat /\ l \in Nat
        <5>1. /\ k \in Nat /\ k < size /\ l \in Nat /\ l < size
          BY <2>6
        <5>2. start \in Nat /\ size \in Nat /\ size <= BufferSize /\ BufferSize \in Nat
          BY <1>1, <2>3, <2>6
        <5>3. /\ start + l \in Nat /\ start + k \in Nat
              /\ start + l < (start + k) + BufferSize /\ start + k < (start + l) + BufferSize
          BY <5>1, <5>2, Near
        <5>4. QED
          BY <5>1, <5>3
      <4>3. ~ (start + l < start + k) /\ ~ (start + k < start + l)
        BY <4>1, <4>2, OwnSlot
      <4>4. QED
        BY <2>3, <4>2, <4>3
    <3>2. At(start + k) = (start + k) % BufferSize
      BY <2>7
    <3> HIDE DEF At
    <3>3. QED
      BY <3>1, <3>2
  <2>13. \A k \in 0 .. size - 1 : ring[(start + k) % BufferSize] =
           [r.buffer[(start + k) % BufferSize] EXCEPT !.state = SavedAt(k)]
    <3> SUFFICES ASSUME NEW k \in 0 .. size - 1
                 PROVE  ring[(start + k) % BufferSize] =
                          [r.buffer[(start + k) % BufferSize] EXCEPT !.state = SavedAt(k)]
      OBVIOUS
    <3>1. /\ \E l \in 0 .. size - 1 : At(start + l) = (start + k) % BufferSize
          /\ (start + k) % BufferSize \in DOMAIN r.buffer
      BY <1>1, <2>7
    <3>2. Back((start + k) % BufferSize) = k
      BY <2>12
    <3> HIDE DEF At, Back
    <3>3. QED
      BY <3>1, <3>2
  <2>14. \A i \in 0 .. Frames :
           (\A k \in 0 .. size - 1 : (start + k) % BufferSize # i) => ring[i] = r.buffer[i]
    <3> SUFFICES ASSUME NEW i \in 0 .. Frames,
                        \A k \in 0 .. size - 1 : (start + k) % BufferSize # i
                 PROVE  ring[i] = r.buffer[i]
      OBVIOUS
    <3>1. ~ \E k \in 0 .. size - 1 : At(start + k) = i
      BY <2>7
    <3> HIDE DEF At, Back
    <3>2. QED
      BY <1>1, <3>1
  <2>15. ring \in [0 .. Frames -> SlotType]
    <3>1. ASSUME NEW i \in 0 .. Frames PROVE ring[i] \in SlotType
      <4> HIDE DEF ring
      <4>1. CASE \E k \in 0 .. size - 1 : (start + k) % BufferSize = i
        <5>1. PICK k \in 0 .. size - 1 : (start + k) % BufferSize = i
          BY <4>1
        <5>2. SavedAt(k) \in Games /\ r.buffer[i] \in SlotType
          BY <1>1, <2>6, <2>11
        <5>3. ring[i] = [r.buffer[i] EXCEPT !.state = SavedAt(k)]
          BY <2>13, <5>1
        <5>4. QED
          BY <5>2, <5>3 DEF SlotType
      <4>2. CASE \A k \in 0 .. size - 1 : (start + k) % BufferSize # i
        BY <1>1, <2>14, <4>2
      <4>3. QED
        BY <4>1, <4>2
    <3>2. DOMAIN ring = 0 .. Frames
      BY <1>1
    <3>3. ring = [i \in DOMAIN ring |-> ring[i]]
      OBVIOUS
    <3> HIDE DEF ring
    <3>4. QED
      BY <3>1, <3>2, <3>3
  <2> HIDE DEF ring
  <2>16. s \in PeerType /\ s.core = replayed /\ s.buffer = ring
    <3>1. PICK t : t = [r EXCEPT !.other = r.read, !.otherPtr = r.readPtr]
      OBVIOUS
    <3>2. t \in PeerType
      BY <3>1 DEF PeerType
    <3>3. s = [t EXCEPT !.core = replayed, !.buffer = ring]
      BY <2>1, <3>1
    <3> HIDE DEF s
    <3>4. QED
      BY <2>11, <2>15, <3>2, <3>3 DEF PeerType
  <2>17. s = [r EXCEPT !.other = r.read, !.otherPtr = r.readPtr,
                       !.core = s.core, !.buffer = s.buffer]
    BY <2>1, <2>16
  <2>18. Replayed(n, r, s, start, m)
    <3>1. \A k \in 0 .. size - 1 :
            LET slot == s.buffer[(start + k) % BufferSize] IN
            /\ slot = [r.buffer[(start + k) % BufferSize] EXCEPT !.state = slot.state]
            /\ Len(slot.state) = Len(base) + k
            /\ \A j \in 1 .. Len(base) + k : slot.state[j] = s.core[j]
      <4> SUFFICES ASSUME NEW k \in 0 .. size - 1
                   PROVE  LET slot == s.buffer[(start + k) % BufferSize] IN
                          /\ slot = [r.buffer[(start + k) % BufferSize] EXCEPT
                                       !.state = slot.state]
                          /\ Len(slot.state) = Len(base) + k
                          /\ \A j \in 1 .. Len(base) + k : slot.state[j] = s.core[j]
        OBVIOUS
      <4> DEFINE old == r.buffer[(start + k) % BufferSize]
                 slot == s.buffer[(start + k) % BufferSize]
      <4>1. slot = [old EXCEPT !.state = SavedAt(k)] /\ old \in SlotType
        BY <1>1, <2>7, <2>13, <2>16
      <4>2. /\ Len(SavedAt(k)) = Len(base) + k
            /\ \A j \in 1 .. Len(base) + k : SavedAt(k)[j] = s.core[j]
        BY <2>6, <2>11, <2>16
      <4> HIDE DEF old, slot
      <4>3. slot.state = SavedAt(k)
        BY <4>1 DEF SlotType
      <4>4. /\ slot = [old EXCEPT !.state = slot.state]
            /\ Len(slot.state) = Len(base) + k
            /\ \A j \in 1 .. Len(base) + k : slot.state[j] = s.core[j]
        BY <4>1, <4>2, <4>3
      <4>5. QED
        BY <4>4 DEF old, slot
    <3>2. /\ Len(base) \in Nat
          /\ Len(s.core) = Len(base) + size
          /\ \A j \in 1 .. Len(base) : s.core[j] = base[j]
          /\ \A k \in 1 .. size : s.core[Len(base) + k] =
               JointInput(n, r, (start + k - 1) % BufferSize, start + k - 1)
          /\ \A i \in 0 .. Frames :
               (\A k \in 0 .. size - 1 : (start + k) % BufferSize # i) =>
                 s.buffer[i] = r.buffer[i]
      BY <2>10, <2>11, <2>14, <2>16
    <3>3. QED
      BY <2>5, <2>9, <3>1, <3>2 DEF Replayed
  <2>19. QED
    BY <2>2, <2>3, <2>16, <2>17, <2>18 DEF FrameOver
<1>6. QED
  BY <1>4, <1>5

-----------------------------------------------------------------------------
(* The counters, and the window they make                                    *)

\* The sliding window with what is proved about it, in the terms of Netplay.
W == INSTANCE NetplayPromises_proofs WITH
    online <- [n \in Node |-> Connected(n)],
    polling <- [n \in Node |-> Sent(n) > np[n].frame],
    frame <- [n \in Node |-> np[n].frame],
    read <- [n \in Node |-> np[n].read],
    other <- [n \in Node |-> np[n].other],
    flipFrame <- [n \in Node |-> np[n].flipFrame],
    offered <- [n \in Node |-> IF packed[n] = <<>> THEN <<NoInput>> ELSE packed[n]],
    game <- [n \in Node |-> Reliable(n)],
    FlipLimit <- FrameLimit + 2 * Packets

\* Types, without the bounds that only hold because frames end.
Typed ==
    /\ np \in [Node -> PeerType]
    /\ packed \in [Node -> Seq(Input)]
    /\ wire \in [Node -> SUBSET Nat]
    /\ request \in {"none", "asked", "acked", "naked"}
    /\ asked \in Nat

\* Where a peer stands in its frame.
Standing(n) ==
    LET r == np[n] IN
    /\ Sent(n) = r.frame \/ Sent(n) = r.frame + 1
    /\ Sent(n) <= FrameLimit
    /\ r.pc \in {"idle", "response"} => Sent(n) = r.frame
    /\ r.pc \in {"first", "again", "run"} => Sent(n) = r.frame + 1
    /\ r.pc \in {"first", "again"} => r.frame > 0 /\ r.read <= r.frame
    /\ r.pc = "run" => Sent(n) - r.read <= Frames
    /\ r.pc = "response" <=> n = "host" /\ request # "none"
    /\ r.other <= r.frame
    /\ r.firstRead <= r.read
    /\ wire[n] \subseteq 0 .. Sent(n) - 1

\* The ring pointers are the counters, modulo the ring.
Pointers(n) ==
    /\ np[n].selfPtr = Sent(n) % BufferSize
    /\ np[n].readPtr = np[n].read % BufferSize
    /\ np[n].otherPtr = np[n].other % BufferSize

\* The counters: types, places, pointers, and what the window knows.
CountInv ==
    /\ Typed
    /\ \A n \in Node : Standing(n) /\ Pointers(n)
    /\ W!WindowInv /\ W!FlipInv

\* The window has the same two sides.
LEMMA WindowNames ==
    /\ W!Node = Node
    /\ \A n \in Node : W!Peer(n) = Peer(n)
  BY DEF W!Node, Node, W!Peer, Peer

\* What the window knows of a peer.
Counts(n) ==
    LET r == np[n] IN
    /\ Sent(n) \in Nat
    /\ r.other <= r.read /\ r.read <= Sent(n)
    /\ r.frame <= r.other + Frames
    /\ Sent(n) = r.frame => r.other = r.read
    /\ Sent(n) > 0 => r.read >= 1
    /\ r.read <= 1 \/ r.read <= Sent(Peer(n))
    /\ r.frame + 1 <= r.other + BufferSize

\* What was sent is numbered.
LEMMA SentIsNat ==
    ASSUME Typed, NEW n \in Node
    PROVE  Sent(n) \in Nat
<1>1. packed[n] \in Seq(Input)
  BY DEF Typed
<1>2. QED
  BY <1>1 DEF Sent

\* In the window too: a frame is under way if its input is out.
LEMMA WindowSent ==
    ASSUME Typed, NEW n \in Node, Sent(n) = np[n].frame \/ Sent(n) = np[n].frame + 1
    PROVE  W!Sent(n) = Sent(n)
<1>1. np[n] \in PeerType /\ Sent(n) \in Nat
  BY SentIsNat DEF Typed
<1>2. np[n].frame \in Nat
  BY <1>1 DEF PeerType
<1>3. Sent(n) > np[n].frame <=> Sent(n) = np[n].frame + 1
  BY <1>1, <1>2
<1> DEFINE polling == [m \in Node |-> Sent(m) > np[m].frame]
<1>4. polling[n] = (Sent(n) > np[n].frame)
  OBVIOUS
<1>5. W!Sent(n) = np[n].frame + (IF polling[n] THEN 1 ELSE 0)
  BY DEF W!Sent
<1> HIDE DEF polling
<1>6. CASE Sent(n) > np[n].frame
  BY <1>1, <1>2, <1>3, <1>4, <1>5, <1>6
<1>7. CASE ~ (Sent(n) > np[n].frame)
  <2>1. ~ polling[n]
    BY <1>4, <1>7, Zenon
  <2>2. W!Sent(n) = np[n].frame
    BY <1>2, <1>5, <2>1
  <2>3. QED
    BY <1>1, <1>2, <1>3, <1>7, <2>2
<1>8. QED
  BY <1>6, <1>7

\* The window in terms of the counters of a peer.
LEMMA Counting ==
    ASSUME CountInv, NEW n \in Node
    PROVE  Counts(n)
<1>1. /\ Typed /\ Standing(n) /\ Standing(Peer(n)) /\ Peer(n) \in Node
      /\ W!Counters(n) /\ W!HeardWasSent(n)
  BY PeerIsNode, WindowNames DEF CountInv, W!WindowInv
<1>2. /\ W!Sent(n) = Sent(n) /\ W!Sent(Peer(n)) = Sent(Peer(n))
  BY <1>1, WindowSent DEF Standing
<1>3. /\ np[n].frame \in Nat /\ np[n].read \in Nat /\ np[n].other \in Nat
      /\ Sent(n) \in Nat /\ BufferSize = Frames + 1 /\ Frames \in Nat
  <2>1. np[n] \in PeerType
    BY <1>1 DEF Typed
  <2>2. QED
    BY <1>1, <2>1, SentIsNat, RingSize, NetplayAssumption DEF PeerType
<1>4. /\ np[n].other <= np[n].read /\ np[n].read <= Sent(n)
      /\ np[n].frame <= np[n].other + Frames
      /\ ~ (Sent(n) > np[n].frame) => np[n].other = np[n].read
      /\ Sent(n) > 0 => np[n].read >= 1
  BY <1>1, <1>2 DEF W!Counters
<1>5. np[n].read <= 1 \/ np[n].read <= Sent(Peer(n))
  BY <1>1, <1>2, WindowNames DEF W!HeardWasSent
<1>6. QED
  BY <1>3, <1>4, <1>5 DEF Counts

\* Only the peer n moves, and no flip is asked for or answered.
OnlyMoves(n) ==
    /\ \A m \in Node \ {n} : np'[m] = np[m] /\ packed'[m] = packed[m]
    /\ np'[n].flipFrame = np[n].flipFrame
    /\ request' = request /\ asked' = asked

\* The counters of both peers, as the window sees them.
Online == [n \in Node |-> Connected(n)]
Polling == [n \in Node |-> Sent(n) > np[n].frame]
Frame == [n \in Node |-> np[n].frame]
Read == [n \in Node |-> np[n].read]
Other == [n \in Node |-> np[n].other]
FlipFrame == [n \in Node |-> np[n].flipFrame]

\* A step of n changes the counters of n only.
LEMMA WindowMoves ==
    ASSUME NEW n \in Node, OnlyMoves(n)
    PROVE  /\ Online' = [Online EXCEPT ![n] = Connected(n)']
           /\ Connected(n)' = Connected(n) => Online' = Online
           /\ Polling' = [Polling EXCEPT ![n] = (Sent(n) > np[n].frame)']
           /\ (Sent(n) > np[n].frame)' = (Sent(n) > np[n].frame) => Polling' = Polling
           /\ Frame' = [Frame EXCEPT ![n] = np'[n].frame]
           /\ np'[n].frame = np[n].frame => Frame' = Frame
           /\ Read' = [Read EXCEPT ![n] = np'[n].read]
           /\ np'[n].read = np[n].read => Read' = Read
           /\ Other' = [Other EXCEPT ![n] = np'[n].other]
           /\ np'[n].other = np[n].other => Other' = Other
           /\ FlipFrame' = FlipFrame
<1>1. \A m \in Node \ {n} : /\ Connected(m)' = Connected(m)
                            /\ (Sent(m) > np[m].frame)' = (Sent(m) > np[m].frame)
                            /\ np'[m] = np[m]
  BY DEF OnlyMoves, Connected, Sent
<1>2. np'[n].flipFrame = np[n].flipFrame
  BY DEF OnlyMoves
<1>3. /\ Online' = [Online EXCEPT ![n] = Connected(n)']
      /\ Connected(n)' = Connected(n) => Online' = Online
  BY <1>1 DEF Online
<1>4. /\ Polling' = [Polling EXCEPT ![n] = (Sent(n) > np[n].frame)']
      /\ (Sent(n) > np[n].frame)' = (Sent(n) > np[n].frame) => Polling' = Polling
  BY <1>1 DEF Polling
<1>5. /\ Frame' = [Frame EXCEPT ![n] = np'[n].frame]
      /\ np'[n].frame = np[n].frame => Frame' = Frame
  BY <1>1 DEF Frame
<1>6. /\ Read' = [Read EXCEPT ![n] = np'[n].read]
      /\ np'[n].read = np[n].read => Read' = Read
  BY <1>1 DEF Read
<1>7. /\ Other' = [Other EXCEPT ![n] = np'[n].other]
      /\ np'[n].other = np[n].other => Other' = Other
  BY <1>1 DEF Other
<1>8. FlipFrame' = FlipFrame
  BY <1>1, <1>2 DEF FlipFrame
<1>9. QED
  BY <1>3, <1>4, <1>5, <1>6, <1>7, <1>8

-----------------------------------------------------------------------------
(* Steps of Netplay, seen as steps of the window                             *)

\* The counters of a peer, before a step and after it.
LEMMA WindowHas ==
    ASSUME NEW n \in Node
    PROVE  /\ Online[n] = Connected(n) /\ Polling[n] = (Sent(n) > np[n].frame)
           /\ Frame[n] = np[n].frame /\ Read[n] = np[n].read /\ Other[n] = np[n].other
           /\ FlipFrame[n] = np[n].flipFrame
  BY DEF Online, Polling, Frame, Read, Other, FlipFrame

\* A step that sends the input of the next frame starts one in the window.
LEMMA StartsFrame ==
    ASSUME Typed, NEW n \in Node, OnlyMoves(n), Connected(n), Connected(n)',
           Sent(n) = np[n].frame, Sent(n)' = np[n].frame + 1,
           np[n].frame < FrameLimit, n = "host" => request = "none",
           np'[n].frame = np[n].frame, np'[n].other = np[n].other,
           np'[n].read = IF np[n].frame = 0 THEN 1 ELSE np[n].read
    PROVE  W!PreFrame(n)
<1>1. np[n].frame \in Nat
  BY DEF Typed, PeerType
<1>2. ~ (Sent(n) > np[n].frame) /\ (Sent(n) > np[n].frame)'
  BY <1>1
<1>3. Online[n] /\ ~ Polling[n]
  <2>1. Online[n] = Connected(n) /\ Polling[n] = (Sent(n) > np[n].frame)
    BY WindowHas
  <2>2. QED
    BY <1>2, <2>1, Zenon
<1>4. Frame[n] < FrameLimit
  BY WindowHas
<1>5. Polling' = [Polling EXCEPT ![n] = TRUE]
  <2>1. Polling' = [Polling EXCEPT ![n] = (Sent(n) > np[n].frame)']
    BY WindowMoves
  <2>2. (Sent(n) > np[n].frame)' = TRUE
    BY <1>2, Zenon
  <2>3. QED
    BY <2>1, <2>2, Zenon
<1>6. Read' = [Read EXCEPT ![n] = IF Frame[n] = 0 THEN 1 ELSE Read[n]]
  <2>1. Read' = [Read EXCEPT ![n] = np'[n].read] /\ Frame[n] = np[n].frame /\ Read[n] = np[n].read
    BY WindowMoves, WindowHas
  <2>2. QED
    BY <2>1
<1>7. /\ Online' = Online /\ Frame' = Frame /\ Other' = Other /\ FlipFrame' = FlipFrame
  <2>1. Connected(n)' = Connected(n)
    BY DEF Connected
  <2>2. QED
    BY <2>1, WindowMoves
<1>8. request' = request /\ asked' = asked
  BY DEF OnlyMoves
<1>9. QED
  BY <1>3, <1>4, <1>5, <1>6, <1>7, <1>8
     DEF W!PreFrame, Online, Polling, Frame, Read, Other, FlipFrame

\* A packet that carries the frame waited for.
LEMMA ReceivesPacket ==
    ASSUME Typed, NEW n \in Node, NEW p \in Nat, OnlyMoves(n), Connected(n), Connected(n)',
           Sent(n) = np[n].frame + 1, Sent(n)' = Sent(n),
           W!Sent(Peer(n)) = Sent(Peer(n)), Sent(Peer(n)) \in Nat, p < Sent(Peer(n)),
           p - Packets < np[n].read, np[n].read <= p, np[n].read <= np[n].frame,
           np'[n].frame = np[n].frame, np'[n].other = np[n].other,
           np'[n].read = IF p < np[n].frame THEN p + 1 ELSE np[n].frame + 1
    PROVE  W!Receive(n, p)
<1>1. np[n].frame \in Nat
  BY DEF Typed, PeerType
<1>2. (Sent(n) > np[n].frame) /\ (Sent(n) > np[n].frame)'
  BY <1>1
<1>3. Online[n] /\ Polling[n]
  <2>1. Online[n] = Connected(n) /\ Polling[n] = (Sent(n) > np[n].frame)
    BY WindowHas
  <2>2. QED
    BY <1>2, <2>1, Zenon
<1>4. p \in 0 .. W!Sent(W!Peer(n)) - 1
  <2>1. p \in 0 .. Sent(Peer(n)) - 1
    OBVIOUS
  <2>2. QED
    BY <2>1, WindowNames
<1>5. W!Carries(p, Read[n]) /\ Read[n] <= Frame[n]
  BY WindowHas DEF W!Carries
<1>6. Read' = [Read EXCEPT ![n] = IF p < Frame[n] THEN p + 1 ELSE Frame[n] + 1]
  <2>1. Read' = [Read EXCEPT ![n] = np'[n].read] /\ Frame[n] = np[n].frame
    BY WindowMoves, WindowHas
  <2>2. QED
    BY <2>1
<1>7. /\ Online' = Online /\ Frame' = Frame /\ Other' = Other /\ FlipFrame' = FlipFrame
      /\ Polling' = Polling
  <2>1. /\ Connected(n)' = Connected(n)
        /\ (Sent(n) > np[n].frame)' = (Sent(n) > np[n].frame)
    BY <1>2, Zenon
  <2>2. QED
    BY <2>1, WindowMoves
<1>8. request' = request /\ asked' = asked
  BY DEF OnlyMoves
<1>9. QED
  BY <1>3, <1>4, <1>5, <1>6, <1>7, <1>8
     DEF W!Receive, Online, Polling, Frame, Read, Other, FlipFrame

\* A step that runs the frame and settles what was heard finishes one there.
LEMMA FinishesFrame ==
    ASSUME Typed, NEW n \in Node, OnlyMoves(n), Connected(n), Connected(n)',
           Sent(n) = np[n].frame + 1, Sent(n)' = Sent(n),
           np[n].frame + 1 - np[n].other <= Frames \/ np[n].read > np[n].other,
           np'[n].frame = np[n].frame + 1, np'[n].other = np[n].read,
           np'[n].read = np[n].read
    PROVE  W!FinishFrame(n)
<1>1. np[n].frame \in Nat
  BY DEF Typed, PeerType
<1>2. (Sent(n) > np[n].frame) /\ ~ (Sent(n) > np[n].frame)'
  BY <1>1
<1>3. Online[n] /\ Polling[n]
  <2>1. Online[n] = Connected(n) /\ Polling[n] = (Sent(n) > np[n].frame)
    BY WindowHas
  <2>2. QED
    BY <1>2, <2>1, Zenon
<1>4. W!HasRoom(n) \/ Read[n] > Other[n]
  BY WindowHas DEF W!HasRoom, Frame, Other
<1>5. Polling' = [Polling EXCEPT ![n] = FALSE]
  <2>1. Polling' = [Polling EXCEPT ![n] = (Sent(n) > np[n].frame)']
    BY WindowMoves
  <2>2. (Sent(n) > np[n].frame)' = FALSE
    BY <1>2
  <2>3. QED
    BY <2>1, <2>2, Zenon
<1>6. /\ Frame' = [Frame EXCEPT ![n] = Frame[n] + 1]
      /\ Other' = [Other EXCEPT ![n] = Read[n]]
  <2>1. /\ Frame' = [Frame EXCEPT ![n] = np'[n].frame] /\ Frame[n] = np[n].frame
        /\ Other' = [Other EXCEPT ![n] = np'[n].other] /\ Read[n] = np[n].read
    BY WindowMoves, WindowHas
  <2>2. QED
    BY <2>1
<1>7. Online' = Online /\ Read' = Read /\ FlipFrame' = FlipFrame
  <2>1. Connected(n)' = Connected(n)
    BY DEF Connected
  <2>2. QED
    BY <2>1, WindowMoves
<1>8. request' = request /\ asked' = asked
  BY DEF OnlyMoves
<1>9. QED
  BY <1>3, <1>4, <1>5, <1>6, <1>7, <1>8
     DEF W!FinishFrame, Online, Polling, Frame, Read, Other, FlipFrame

\* A step that only ends the connection, or nothing the window knows of.
LEMMA HangsUpOrStays ==
    ASSUME NEW n \in Node, OnlyMoves(n), Connected(n)' => Connected(n),
           Sent(n)' = Sent(n), np'[n].frame = np[n].frame,
           np'[n].other = np[n].other, np'[n].read = np[n].read
    PROVE  W!HangUp(n) \/ UNCHANGED W!vars
<1>1. (Sent(n) > np[n].frame)' = (Sent(n) > np[n].frame)
  OBVIOUS
<1>2. /\ Polling' = Polling /\ Frame' = Frame /\ Other' = Other /\ Read' = Read
      /\ FlipFrame' = FlipFrame
  BY <1>1, WindowMoves
<1>3. request' = request /\ asked' = asked
  BY DEF OnlyMoves
<1>4. CASE Connected(n)' = Connected(n)
  <2>1. Online' = Online
    BY <1>4, WindowMoves
  <2>2. UNCHANGED W!vars
    BY <1>2, <1>3, <2>1 DEF W!vars, Online, Polling, Frame, Read, Other, FlipFrame
  <2>3. QED
    BY <2>2
<1>5. CASE Connected(n)' # Connected(n)
  <2>1. Connected(n) /\ ~ Connected(n)'
    BY <1>5 DEF Connected
  <2>2. Online[n]
    <3>1. Online[n] = Connected(n)
      BY WindowHas
    <3>2. QED
      BY <2>1, <3>1, Zenon
  <2>3. Online' = [Online EXCEPT ![n] = FALSE]
    <3>1. Online' = [Online EXCEPT ![n] = Connected(n)']
      BY WindowMoves
    <3>2. Connected(n)' = FALSE
      BY <2>1 DEF Connected
    <3>3. QED
      BY <3>1, <3>2, Zenon
  <2>4. W!HangUp(n)
    BY <1>2, <1>3, <2>2, <2>3
       DEF W!HangUp, Online, Polling, Frame, Read, Other, FlipFrame
  <2>5. QED
    BY <2>4
<1>6. QED
  BY <1>4, <1>5

\* The fields the window knows of, and their pointers.
SameCounts(r, s) ==
    /\ s.frame = r.frame /\ s.other = r.other
    /\ s.selfPtr = r.selfPtr /\ s.otherPtr = r.otherPtr
    /\ s.flipFrame = r.flipFrame

\* A peer that steps becomes what it steps to, and the other stays.
LEMMA Moved ==
    ASSUME Typed, NEW n \in Node, NEW s \in PeerType, np' = [np EXCEPT ![n] = s],
           s.flipFrame = np[n].flipFrame,
           \A m \in Node \ {n} : packed'[m] = packed[m],
           request' = request, asked' = asked
    PROVE  /\ np' \in [Node -> PeerType] /\ np'[n] = s
           /\ OnlyMoves(n)
  BY DEF Typed, OnlyMoves

\* What is true of the other peer stays so.
LEMMA OthersStand ==
    ASSUME NEW n \in Node, OnlyMoves(n), NEW m \in Node \ {n}, wire'[m] = wire[m],
           Standing(m), Pointers(m)
    PROVE  Standing(m)' /\ Pointers(m)'
  BY DEF OnlyMoves, Standing, Pointers, Sent

\* What PollTimeout resends was sent before.
LEMMA SendsOld ==
    ASSUME Typed, NEW n \in Node, Standing(n), Send(n), Sent(n) = np[n].frame + 1
    PROVE  /\ wire' \in [Node -> SUBSET Nat]
           /\ wire'[n] \subseteq 0 .. Sent(n) - 1
           /\ \A m \in Node \ {n} : wire'[m] = wire[m]
<1>1. np[n].frame \in Nat /\ Sent(n) \in Nat /\ wire \in [Node -> SUBSET Nat]
  BY SentIsNat DEF Typed, PeerType
<1>2. wire[n] \subseteq 0 .. Sent(n) - 1
  BY DEF Standing
<1>3. np[n].frame \in 0 .. Sent(n) - 1
  BY <1>1
<1>4. QED
  BY <1>1, <1>2, <1>3 DEF Send

\* A poll that keeps the counters, or takes in a packet, is a step of the window.
LEMMA Polled ==
    ASSUME CountInv, NEW n \in Node, InPoll(n), NEW s \in PeerType,
           np' = [np EXCEPT ![n] = s], packed' = packed,
           wire' = wire \/ Send(n), request' = request, asked' = asked,
           SameCounts(np[n], s), s.readPtr = s.read % BufferSize, s.firstRead <= s.read,
           s.pc \in {"first", "again", "run", "offline", "lost"},
           s.pc \in {"first", "again"} => s.read <= s.frame,
           s.pc = "run" => Sent(n) - s.read <= Frames,
           \/ s.read = np[n].read
           \/ s.pc \notin {"offline", "lost"} /\ s.read > np[n].read /\
              \E p \in wire[Peer(n)] : s.read = NextRead(np[n], p)
    PROVE  /\ Typed' /\ OnlyMoves(n)
           /\ \A m \in Node : Standing(m)' /\ Pointers(m)'
           /\ W!NodeStep(n) \/ UNCHANGED W!vars
<1>1. /\ Typed /\ Standing(n) /\ Pointers(n) /\ Counts(n)
      /\ Standing(Peer(n)) /\ Peer(n) \in Node /\ np[n] \in PeerType
  BY Counting, PeerIsNode DEF CountInv, Typed
<1>2. /\ np[n].frame \in Nat /\ np[n].read \in Nat /\ Sent(n) \in Nat
      /\ np[n].pc \in {"first", "again"}
      /\ s.frame \in Nat /\ s.read \in Nat
  BY <1>1, SentIsNat DEF PeerType, InPoll
<1>3. Sent(n) = np[n].frame + 1 /\ np[n].frame > 0 /\ np[n].read <= np[n].frame
  BY <1>1, <1>2 DEF Standing
<1>4. /\ wire' \in [Node -> SUBSET Nat]
      /\ wire'[n] \subseteq 0 .. Sent(n) - 1
      /\ \A m \in Node \ {n} : wire'[m] = wire[m]
  <2>1. CASE wire' = wire
    BY <1>1, <2>1 DEF Typed, Standing
  <2>2. CASE Send(n)
    BY <1>1, <1>3, <2>2, SendsOld
  <2>3. QED
    BY <2>1, <2>2
<1>5. np' \in [Node -> PeerType] /\ np'[n] = s /\ OnlyMoves(n)
  BY <1>1, Moved DEF SameCounts
<1>6. Typed'
  BY <1>1, <1>4, <1>5 DEF Typed
<1>7. Sent(n)' = Sent(n)
  BY DEF Sent
<1>8. s.pc # "response" /\ s.pc \notin {"idle", "response"} /\ np[n].pc # "response"
  BY <1>2
<1>9. Standing(n)'
  <2>1. /\ s.frame = np[n].frame /\ s.other = np[n].other
    BY DEF SameCounts
  <2>2. ~ (n = "host" /\ request # "none")
    BY <1>1, <1>8 DEF Standing
  <2>3. s.other <= s.frame /\ Sent(n) <= FrameLimit
    BY <1>1, <2>1 DEF Standing
  <2>4. QED
    BY <1>3, <1>4, <1>5, <1>7, <1>8, <2>1, <2>2, <2>3 DEF Standing
<1>10. Pointers(n)'
  BY <1>1, <1>5, <1>7 DEF Pointers, SameCounts
<1>11. \A m \in Node : Standing(m)' /\ Pointers(m)'
  <2>1. ASSUME NEW m \in Node \ {n} PROVE Standing(m)' /\ Pointers(m)'
    BY <1>4, <1>5, OthersStand DEF CountInv
  <2>2. QED
    BY <1>9, <1>10, <2>1
<1>12. Connected(n)
  BY <1>2 DEF Connected
<1>13. CASE s.read = np[n].read
  <2>1. W!HangUp(n) \/ UNCHANGED W!vars
    BY <1>5, <1>7, <1>12, <1>13, HangsUpOrStays DEF SameCounts
  <2>2. QED
    BY <1>5, <1>6, <1>11, <2>1 DEF W!NodeStep
<1>14. CASE s.pc \notin {"offline", "lost"} /\ s.read > np[n].read /\
            \E p \in wire[Peer(n)] : s.read = NextRead(np[n], p)
  <2>1. PICK p \in wire[Peer(n)] : s.read = NextRead(np[n], p)
    BY <1>14
  <2>2. /\ p \in Nat /\ Sent(Peer(n)) \in Nat /\ p < Sent(Peer(n))
        /\ p \in 0 .. FrameLimit
    <3>1. /\ wire[Peer(n)] \subseteq 0 .. Sent(Peer(n)) - 1
          /\ Sent(Peer(n)) <= FrameLimit /\ Sent(Peer(n)) \in Nat
      BY <1>1, SentIsNat DEF Standing
    <3>2. QED
      BY <3>1, <2>1, NetplayAssumption
  <2>3. Connected(n)'
    BY <1>5, <1>14 DEF Connected, PeerType
  <2>4. /\ p - Packets < np[n].read /\ np[n].read <= p
        /\ s.read = IF p < np[n].frame THEN p + 1 ELSE np[n].frame + 1
    <3>1. s.read # np[n].read
      BY <1>2, <1>14
    <3>2. QED
      BY <2>1, <3>1 DEF NextRead
  <2>5. W!Sent(Peer(n)) = Sent(Peer(n))
    BY <1>1, WindowSent DEF Standing
  <2>6. /\ np'[n].frame = np[n].frame /\ np'[n].other = np[n].other
        /\ np'[n].read = IF p < np[n].frame THEN p + 1 ELSE np[n].frame + 1
    BY <1>5, <2>4 DEF SameCounts
  <2>7. W!Receive(n, p)
    BY <1>1, <1>3, <1>5, <1>7, <1>12, <2>2, <2>3, <2>4, <2>5, <2>6, ReceivesPacket
  <2>8. QED
    BY <1>5, <1>6, <1>11, <2>2, <2>7 DEF W!NodeStep
<1>15. QED
  BY <1>13, <1>14

-----------------------------------------------------------------------------
(* The poll                                                                  *)

\* Less, or the same.
LEMMA LessOrSame == \A a, b \in Int : a <= b => a = b \/ a < b
  OBVIOUS

\* The buffer is full when the frames under way fill the ring.
LEMMA FullMeans ==
    ASSUME NEW r \in PeerType, NEW m \in Nat, r.other < m, m <= r.other + BufferSize,
           r.selfPtr = m % BufferSize, r.otherPtr = r.other % BufferSize
    PROVE  Full(r) <=> m = r.other + BufferSize
<1>1. r.other \in Nat /\ BufferSize \in Nat \ {0}
  BY RingSize DEF PeerType
<1>2. CASE m = r.other + BufferSize
  <2>1. m % BufferSize = r.other % BufferSize
    BY <1>1, <1>2, AroundTheRing
  <2>2. QED
    BY <1>2, <2>1 DEF Full
<1>3. CASE m # r.other + BufferSize
  <2>1. m < r.other + BufferSize
    <3> DEFINE o == r.other + BufferSize
    <3>1. o \in Int /\ m \in Int /\ m <= o /\ m # o
      BY <1>1, <1>3
    <3> HIDE DEF o
    <3>2. m < o
      BY <3>1, LessOrSame
    <3>3. QED
      BY <3>2 DEF o
  <2>2. m % BufferSize # r.other % BufferSize
    BY <1>1, <2>1, OwnSlot
  <2>3. QED
    BY <1>3, <2>2 DEF Full
<1>4. QED
  BY <1>2, <1>3

\* Where poll_input leaves a peer, before the poll ends.
Amid(n, r) ==
    /\ r \in PeerType /\ r.pc \in {"first", "again"}
    /\ SameCounts(np[n], r) /\ r.readPtr = r.read % BufferSize
    /\ r.firstRead <= r.read /\ np[n].read <= r.read

\* Where the end of the poll leaves it.
Ended(n, r, s) ==
    /\ s \in PeerType /\ s.pc \in {"run", "lost"}
    /\ SameCounts(np[n], s) /\ s.readPtr = s.read % BufferSize
    /\ s.firstRead <= s.read /\ s.read = r.read
    /\ s.pc = "run" => Sent(n) - s.read <= Frames
    /\ s.pc = "lost" => s.read = np[n].read

\* A poll that ends runs the frame if the ring has room, or has heard something.
LEMMA EndsWell ==
    ASSUME CountInv, NEW n \in Node, InPoll(n), NEW r, Amid(n, r), r.read <= Sent(n)
    PROVE  Ended(n, r, EndPoll(r))
<1> DEFINE s == EndPoll(r)
<1>1. /\ Typed /\ Standing(n) /\ Pointers(n) /\ Counts(n) /\ np[n] \in PeerType
  BY Counting DEF CountInv, Typed
<1>2. /\ r \in PeerType /\ s \in PeerType
      /\ s = [r EXCEPT !.pc = s.pc, !.buffer = s.buffer]
      /\ s.pc = IF Full(r) /\ r.read = r.other THEN "lost" ELSE "run"
  <2>1. r \in PeerType
    BY DEF Amid
  <2>2. PollOver(r, s)
    BY <2>1, PollEnds
  <2> HIDE DEF s
  <2>3. QED
    BY <2>1, <2>2 DEF PollOver
<1> HIDE DEF s
<1>3. /\ s.read = r.read /\ s.readPtr = r.readPtr /\ s.firstRead = r.firstRead
      /\ SameCounts(r, s)
  BY <1>2 DEF PeerType, SameCounts
<1>4. /\ r.other \in Nat /\ r.read \in Nat /\ np[n].read \in Nat /\ np[n].frame \in Nat
      /\ np[n].other \in Nat
      /\ Sent(n) \in Nat /\ BufferSize = Frames + 1 /\ Frames \in Nat
  BY <1>1, <1>2, SentIsNat, RingSize, NetplayAssumption DEF PeerType
<1>5. /\ r.other = np[n].other /\ r.selfPtr = np[n].selfPtr /\ r.otherPtr = np[n].otherPtr
      /\ np[n].read <= r.read
  BY DEF Amid, SameCounts
<1>6. Sent(n) = np[n].frame + 1 /\ np[n].other <= np[n].frame
      /\ np[n].other <= np[n].read /\ np[n].frame + 1 <= np[n].other + BufferSize
  BY <1>1 DEF Standing, InPoll, Counts
<1>7. Full(r) <=> Sent(n) = r.other + BufferSize
  <2>1. r.selfPtr = Sent(n) % BufferSize /\ r.otherPtr = r.other % BufferSize
    BY <1>1, <1>5 DEF Pointers
  <2>2. r.other < Sent(n) /\ Sent(n) <= r.other + BufferSize
    BY <1>4, <1>5, <1>6
  <2>3. QED
    BY <1>2, <1>4, <2>1, <2>2, FullMeans
<1>8. s.pc = "run" => Sent(n) - s.read <= Frames
  <2>1. s.pc = "run" => ~ (Full(r) /\ r.read = r.other)
    BY <1>2
  <2>2. QED
    BY <1>3, <1>4, <1>5, <1>6, <1>7, <2>1
<1>9. s.pc = "lost" => s.read = np[n].read
  <2>1. s.pc = "lost" => r.read = r.other
    BY <1>2
  <2>2. QED
    BY <1>3, <1>4, <1>5, <1>6, <2>1
<1>10. SameCounts(np[n], s) /\ s.readPtr = s.read % BufferSize /\ s.firstRead <= s.read
  BY <1>3 DEF SameCounts, Amid
<1>11. s.pc \in {"run", "lost"}
  BY <1>2
<1>12. Ended(n, r, s)
  BY <1>2, <1>3, <1>8, <1>9, <1>10, <1>11 DEF Ended
<1>13. QED
  BY <1>12 DEF s

\* What a step of a peer leaves behind.
Went(n) ==
    /\ Typed' /\ OnlyMoves(n)
    /\ \A m \in Node : Standing(m)' /\ Pointers(m)'
    /\ W!NodeStep(n) \/ UNCHANGED W!vars

\* A peer in a poll may leave it as it is.
LEMMA PollingNow ==
    ASSUME CountInv, NEW n \in Node, InPoll(n), NEW t \in 0 .. Retries,
           NEW r, r = [np[n] EXCEPT !.timeouts = t]
    PROVE  Amid(n, r) /\ r.read = np[n].read /\ r.read <= r.frame /\ r.read <= Sent(n)
           /\ r.pc = np[n].pc
<1>1. /\ Standing(n) /\ Pointers(n) /\ Counts(n) /\ np[n] \in PeerType
  BY Counting DEF CountInv, Typed
<1>2. /\ r \in PeerType /\ r.pc = np[n].pc /\ r.read = np[n].read /\ SameCounts(np[n], r)
      /\ r.readPtr = np[n].readPtr /\ r.firstRead = np[n].firstRead
  BY <1>1 DEF PeerType, SameCounts
<1>3. r.pc \in {"first", "again"}
  BY <1>1, <1>2 DEF InPoll
<1>4. QED
  <2>1. /\ np[n].firstRead <= np[n].read /\ np[n].readPtr = np[n].read % BufferSize
        /\ np[n].read <= Sent(n) /\ np[n].read <= np[n].frame
        /\ np[n].read \in Nat
    BY <1>1 DEF Standing, Pointers, Counts, InPoll, PeerType
  <2>2. r.frame = np[n].frame
    BY <1>2 DEF SameCounts
  <2>3. np[n].read <= np[n].read
    BY <2>1
  <2>4. QED
    BY <1>2, <1>3, <2>1, <2>2, <2>3 DEF Amid

\* timeout_cnt never passes MAX_RETRIES.
LEMMA CountedInRange ==
    ASSUME NEW t \in 0 .. Retries
    PROVE  Counted(t) \in 0 .. Retries
  BY NetplayAssumption DEF Counted

\* A poll that finds nothing and need not wait.
LEMMA NothingWent ==
    ASSUME CountInv, NEW n \in Node, PollNothing(n)
    PROVE  Went(n)
<1> DEFINE r == [np[n] EXCEPT !.timeouts = Counted(@)]
           s == EndPoll(r)
<1>1. /\ InPoll(n) /\ np' = [np EXCEPT ![n] = s]
      /\ UNCHANGED <<packed, wire, request, asked, flips>>
  BY DEF PollNothing
<1>2. np[n].timeouts \in 0 .. Retries
  BY DEF CountInv, Typed, PeerType
<1>3. /\ Amid(n, r) /\ r.read = np[n].read /\ r.read <= Sent(n)
  BY <1>1, <1>2, CountedInRange, PollingNow
<1> HIDE DEF r
<1>4. Ended(n, r, s)
  BY <1>1, <1>3, EndsWell
<1> HIDE DEF s
<1>5. QED
  BY <1>1, <1>3, <1>4, Polled DEF Went, Ended

\* poll_input gives up.
LEMMA GaveUp ==
    ASSUME CountInv, NEW n \in Node, InPoll(n), NEW t \in 0 .. Retries, NEW r,
           r = [np[n] EXCEPT !.timeouts = t], NEW s, s = GiveUp(r),
           np' = [np EXCEPT ![n] = s], packed' = packed,
           wire' = wire \/ Send(n), request' = request, asked' = asked
    PROVE  Went(n)
<1>1. /\ Amid(n, r) /\ r.read = np[n].read /\ r.read <= Sent(n)
      /\ r.pc \in {"first", "again"}
  BY PollingNow DEF InPoll
<1>2. CASE r.pc = "first"
  <2>1. s = [r EXCEPT !.pc = "offline"]
    BY <1>2 DEF GiveUp
  <2>2. /\ s \in PeerType /\ s.pc = "offline" /\ SameCounts(np[n], s)
        /\ s.readPtr = s.read % BufferSize /\ s.firstRead <= s.read /\ s.read = np[n].read
    BY <1>1, <2>1 DEF Amid, PeerType, SameCounts
  <2>3. QED
    BY <2>2, Polled DEF Went
<1>3. CASE r.pc # "first"
  <2>1. s = EndPoll(r)
    BY <1>3 DEF GiveUp
  <2>2. Ended(n, r, s)
    BY <1>1, <2>1, EndsWell
  <2>3. QED
    BY <1>1, <2>2, Polled DEF Went, Ended
<1>4. QED
  BY <1>2, <1>3

\* The other process has ended.
LEMMA EofWent ==
    ASSUME CountInv, NEW n \in Node, PollEof(n)
    PROVE  Went(n)
<1> DEFINE r == [np[n] EXCEPT !.timeouts = Counted(@)]
<1>1. /\ InPoll(n) /\ np' = [np EXCEPT ![n] = GiveUp(r)]
      /\ UNCHANGED <<packed, wire, request, asked, flips>>
  BY DEF PollEof
<1>2. Counted(np[n].timeouts) \in 0 .. Retries
  BY CountedInRange DEF CountInv, Typed, PeerType
<1>3. r = [np[n] EXCEPT !.timeouts = Counted(np[n].timeouts)]
  OBVIOUS
<1> HIDE DEF r
<1>4. QED
  BY <1>1, <1>2, <1>3, GaveUp

\* A poll that waits times out.
LEMMA TimeoutWent ==
    ASSUME CountInv, NEW n \in Node, PollTimeout(n)
    PROVE  Went(n)
<1> DEFINE r == [np[n] EXCEPT !.timeouts = Counted(@)]
           s == IF r.timeouts < Retries THEN r ELSE GiveUp(r)
<1>1. /\ InPoll(n) /\ np' = [np EXCEPT ![n] = s] /\ Send(n)
      /\ UNCHANGED <<packed, request, asked, flips>>
  BY DEF PollTimeout
<1>2. Counted(np[n].timeouts) \in 0 .. Retries
  BY CountedInRange DEF CountInv, Typed, PeerType
<1>3. r = [np[n] EXCEPT !.timeouts = Counted(np[n].timeouts)]
  OBVIOUS
<1> HIDE DEF r
<1>4. CASE r.timeouts < Retries
  <2>1. s = r
    BY <1>4
  <2>2. /\ Amid(n, r) /\ r.read = np[n].read /\ r.read <= r.frame
        /\ r.pc \in {"first", "again"}
    BY <1>1, <1>2, <1>3, PollingNow DEF InPoll
  <2>3. QED
    BY <1>1, <2>1, <2>2, Polled DEF Went, Amid
<1>5. CASE ~ (r.timeouts < Retries)
  <2>1. s = GiveUp(r)
    BY <1>5
  <2>2. QED
    BY <1>1, <1>2, <1>3, <2>1, GaveUp
<1>6. QED
  BY <1>4, <1>5

\* A poll takes in a packet.
LEMMA PacketWent ==
    ASSUME CountInv, NEW n \in Node, NEW p, PollPacket(n, p)
    PROVE  Went(n)
<1> DEFINE r == np[n]
           q == ParsePacket(n, r, p)
           s == [q EXCEPT !.hasAddr = TRUE,
                   !.firstRead = IF r.pc = "first" THEN r.read ELSE @]
           t == IF s.read <= s.frame THEN [s EXCEPT !.pc = "again"] ELSE EndPoll(s)
<1>1. /\ InPoll(n) /\ p \in wire[Peer(n)] /\ np' = [np EXCEPT ![n] = t]
      /\ UNCHANGED <<packed, wire, request, asked, flips>>
  BY DEF PollPacket
<1>2. /\ Typed /\ Standing(n) /\ Pointers(n) /\ Counts(n)
      /\ Standing(Peer(n)) /\ Peer(n) \in Node /\ np[n] \in PeerType
  BY Counting, PeerIsNode DEF CountInv, Typed
<1>3. p \in Nat /\ p < Len(packed[Peer(n)])
  <2>1. wire[Peer(n)] \subseteq 0 .. Sent(Peer(n)) - 1 /\ Sent(Peer(n)) \in Nat
    BY <1>2, SentIsNat DEF Standing
  <2>2. QED
    BY <1>1, <2>1 DEF Sent
<1>4. /\ r.readPtr = r.read % BufferSize
      /\ r.read <= r.frame /\ r.frame + 1 <= r.read + BufferSize
      /\ Sent(n) = r.frame + 1
  <2>1. /\ r.read <= r.frame /\ r.other <= r.read /\ r.frame + 1 <= r.other + BufferSize
        /\ Sent(n) = r.frame + 1
    BY <1>1, <1>2 DEF Standing, Counts, InPoll
  <2>2. r.read \in Nat /\ r.frame \in Nat /\ r.other \in Nat /\ BufferSize \in Nat
    BY <1>2, RingSize DEF PeerType
  <2>3. QED
    BY <1>2, <2>1, <2>2 DEF Pointers
<1>5. TakenIn(n, r, p, q)
  <2>1. packed \in [Node -> Seq(Input)] /\ r \in PeerType
    BY <1>2 DEF Typed
  <2> HIDE DEF r
  <2>2. QED
    BY <1>3, <1>4, <2>1, ParseTakesIn
<1>6. /\ q \in PeerType
      /\ q = [r EXCEPT !.buffer = q.buffer, !.readPtr = q.readPtr,
                       !.read = q.read, !.timeouts = q.timeouts]
      /\ q.read = NextRead(r, p)
      /\ r.read <= q.read /\ q.read <= r.frame + 1
      /\ q.readPtr = q.read % BufferSize
  BY <1>5 DEF TakenIn
<1> HIDE DEF q
<1>7. /\ s \in PeerType /\ s.read = q.read /\ s.pc = r.pc
      /\ s.readPtr = q.readPtr /\ SameCounts(r, s)
      /\ s.firstRead = IF r.pc = "first" THEN r.read ELSE r.firstRead
  BY <1>2, <1>6 DEF PeerType, SameCounts
<1>8. /\ r.firstRead <= r.read /\ r.firstRead \in Nat /\ r.read \in Nat /\ q.read \in Nat
      /\ r.frame \in Nat
  BY <1>2, <1>6 DEF Standing, PeerType
<1> HIDE DEF s
<1>9. /\ Amid(n, s) /\ s.read <= Sent(n)
  <2>1. s.firstRead <= s.read
    BY <1>6, <1>7, <1>8
  <2>2. QED
    BY <1>1, <1>4, <1>6, <1>7, <2>1 DEF Amid, InPoll
<1>10. \/ s.read = np[n].read
       \/ s.read > np[n].read /\ \E x \in wire[Peer(n)] : s.read = NextRead(np[n], x)
  BY <1>1, <1>6, <1>7, <1>8
<1>11. CASE s.read <= s.frame
  <2>1. t = [s EXCEPT !.pc = "again"]
    BY <1>11
  <2>2. /\ t \in PeerType /\ t.pc = "again" /\ SameCounts(np[n], t)
        /\ t.readPtr = t.read % BufferSize /\ t.firstRead <= t.read
        /\ t.read = s.read /\ t.read <= t.frame
    BY <1>9, <1>11, <2>1 DEF Amid, SameCounts, PeerType
  <2> HIDE DEF t
  <2>3. QED
    BY <1>1, <1>10, <2>2, Polled DEF Went
<1>12. CASE ~ (s.read <= s.frame)
  <2>1. t = EndPoll(s)
    BY <1>12
  <2>2. Ended(n, s, t)
    BY <1>1, <1>9, <2>1, EndsWell
  <2> HIDE DEF t
  <2>3. \/ t.read = np[n].read
        \/ /\ t.pc \notin {"offline", "lost"} /\ t.read > np[n].read
           /\ \E x \in wire[Peer(n)] : t.read = NextRead(np[n], x)
    BY <1>10, <2>2 DEF Ended
  <2>4. QED
    BY <1>1, <2>2, <2>3, Polled DEF Went, Ended
<1>13. QED
  BY <1>11, <1>12

-----------------------------------------------------------------------------
(* Starting a frame                                                          *)

\* netplay_pre_frame: the state is saved and the own input sent.
LEMMA PreFrameWent ==
    ASSUME CountInv, NEW n \in Node, NEW i \in Input, PreFrame(n, i)
    PROVE  Went(n)
<1> DEFINE r == np[n]
           slot == [r.buffer[r.selfPtr] EXCEPT !.state = r.core, !.self = i]
           zero == [slot EXCEPT !.usedReal = TRUE, !.isSimulated = FALSE, !.real = NoInput]
           s == IF r.frame = 0
                THEN [r EXCEPT !.buffer[0] = zero,
                               !.selfPtr = NextPtr(@), !.readPtr = NextPtr(@),
                               !.read = @ + 1, !.pc = "run"]
                ELSE [r EXCEPT !.buffer[r.selfPtr] = slot,
                               !.selfPtr = NextPtr(@), !.pc = "first"]
<1>1. /\ r.pc = "idle" /\ r.frame < FrameLimit
      /\ np' = [np EXCEPT ![n] = s]
      /\ packed' = [packed EXCEPT ![n] = Append(@, i)]
      /\ Send(n)
      /\ request' = request /\ asked' = asked
  <2>1. CASE r.frame = 0
    BY <2>1 DEF PreFrame
  <2>2. CASE r.frame # 0
    BY <2>2 DEF PreFrame
  <2>3. QED
    BY <2>1, <2>2
<1>2. /\ Typed /\ Standing(n) /\ Pointers(n) /\ Counts(n) /\ r \in PeerType
  BY Counting DEF CountInv, Typed
<1>3. /\ r.frame \in Nat /\ r.read \in Nat /\ r.other \in Nat /\ r.firstRead \in Nat
      /\ r.selfPtr \in 0 .. Frames /\ r.readPtr \in 0 .. Frames
      /\ r.buffer \in [0 .. Frames -> SlotType] /\ r.core \in Games
      /\ Frames \in Nat /\ Sent(n) \in Nat /\ FrameLimit \in Nat
  BY <1>2, SentIsNat, NetplayAssumption DEF PeerType
<1>4. /\ Sent(n) = r.frame /\ r.other = r.read /\ r.read <= Sent(n)
      /\ wire[n] \subseteq 0 .. Sent(n) - 1 /\ r.firstRead <= r.read
      /\ ~ (n = "host" /\ request # "none")
  BY <1>1, <1>2 DEF Standing, Counts
<1>5. /\ packed' \in [Node -> Seq(Input)] /\ Sent(n)' = Sent(n) + 1
      /\ \A m \in Node \ {n} : packed'[m] = packed[m]
  <2>1. packed \in [Node -> Seq(Input)] /\ packed[n] \in Seq(Input)
    BY <1>2 DEF Typed
  <2>2. Append(packed[n], i) \in Seq(Input) /\ Len(Append(packed[n], i)) = Len(packed[n]) + 1
    BY <2>1, AppendProperties
  <2>3. packed'[n] = Append(packed[n], i)
    BY <1>1, <2>1
  <2>4. QED
    BY <1>1, <2>1, <2>2, <2>3 DEF Sent
<1>6. /\ wire' \in [Node -> SUBSET Nat]
      /\ wire'[n] \subseteq 0 .. Sent(n)
      /\ \A m \in Node \ {n} : wire'[m] = wire[m]
  <2>1. wire \in [Node -> SUBSET Nat]
    BY <1>2 DEF Typed
  <2>2. r.frame \in 0 .. Sent(n) /\ 0 .. Sent(n) - 1 \subseteq 0 .. Sent(n)
    BY <1>3, <1>4
  <2>3. QED
    BY <1>1, <1>3, <1>4, <2>1, <2>2 DEF Send
<1>7. /\ slot \in SlotType /\ zero \in SlotType
      /\ NextPtr(r.selfPtr) \in 0 .. Frames /\ NextPtr(r.readPtr) \in 0 .. Frames
  <2>1. r.buffer[r.selfPtr] \in SlotType /\ NoInput \in Input
    BY <1>3 DEF Input
  <2>2. slot \in SlotType
    BY <1>3, <2>1 DEF SlotType
  <2>3. zero \in SlotType
    <3> HIDE DEF slot
    <3>1. QED
      BY <2>1, <2>2 DEF SlotType
  <2>4. QED
    BY <1>3, <2>2, <2>3, PrevInRing
<1> HIDE DEF slot, zero
<1>8. /\ s \in PeerType /\ s.frame = r.frame /\ s.other = r.other
      /\ s.flipFrame = r.flipFrame /\ s.firstRead = r.firstRead
      /\ s.selfPtr = NextPtr(r.selfPtr) /\ s.otherPtr = r.otherPtr
      /\ s.read = IF r.frame = 0 THEN r.read + 1 ELSE r.read
      /\ s.readPtr = IF r.frame = 0 THEN NextPtr(r.readPtr) ELSE r.readPtr
      /\ s.pc = IF r.frame = 0 THEN "run" ELSE "first"
  <2>1. CASE r.frame = 0
    <3> DEFINE ring == [r.buffer EXCEPT ![0] = zero]
    <3>1. s = [r EXCEPT !.buffer = ring,
                        !.selfPtr = NextPtr(r.selfPtr), !.readPtr = NextPtr(r.readPtr),
                        !.read = r.read + 1, !.pc = "run"]
      BY <2>1
    <3>2. ring \in [0 .. Frames -> SlotType]
      BY <1>3, <1>7
    <3> HIDE DEF ring, s, r
    <3> DEFINE self == NextPtr(r.selfPtr)
               heard == NextPtr(r.readPtr)
               next == r.read + 1
    <3>3. self \in 0 .. Frames /\ heard \in 0 .. Frames /\ next \in Nat /\ r \in PeerType
      BY <1>2, <1>3, <1>7
    <3>4. s = [r EXCEPT !.buffer = ring, !.selfPtr = self, !.readPtr = heard,
                       !.read = next, !.pc = "run"]
      BY <3>1
    <3>5. s \in PeerType
      <4> HIDE DEF self, heard, next
      <4>1. QED
        BY <3>2, <3>3, <3>4 DEF PeerType
    <3>6. /\ s.frame = r.frame /\ s.other = r.other
          /\ s.flipFrame = r.flipFrame /\ s.firstRead = r.firstRead
          /\ s.selfPtr = NextPtr(r.selfPtr) /\ s.otherPtr = r.otherPtr
          /\ s.read = r.read + 1 /\ s.readPtr = NextPtr(r.readPtr) /\ s.pc = "run"
      BY <1>2, <3>1 DEF PeerType
    <3>7. QED
      BY <2>1, <3>5, <3>6
  <2>2. CASE r.frame # 0
    <3> DEFINE ring == [r.buffer EXCEPT ![r.selfPtr] = slot]
    <3>1. s = [r EXCEPT !.buffer = ring,
                        !.selfPtr = NextPtr(r.selfPtr), !.pc = "first"]
      BY <2>2
    <3>2. ring \in [0 .. Frames -> SlotType]
      BY <1>3, <1>7
    <3> HIDE DEF ring, s, r
    <3>3. s \in PeerType
      BY <1>2, <1>3, <1>7, <3>1, <3>2 DEF PeerType
    <3>4. /\ s.frame = r.frame /\ s.other = r.other
          /\ s.flipFrame = r.flipFrame /\ s.firstRead = r.firstRead
          /\ s.selfPtr = NextPtr(r.selfPtr) /\ s.otherPtr = r.otherPtr
          /\ s.read = r.read /\ s.readPtr = r.readPtr /\ s.pc = "first"
      BY <1>2, <3>1 DEF PeerType
    <3>5. QED
      BY <2>2, <3>3, <3>4
  <2>3. QED
    BY <2>1, <2>2
<1> HIDE DEF s
<1>9. np' \in [Node -> PeerType] /\ np'[n] = s /\ OnlyMoves(n)
  BY <1>1, <1>2, <1>5, <1>8, Moved
<1>10. Typed'
  BY <1>1, <1>2, <1>5, <1>6, <1>9 DEF Typed
<1>11. s.read <= s.frame + 1 /\ (r.frame # 0 => s.read <= s.frame) /\ r.read <= s.read
       /\ (r.frame = 0 => s.read = 1)
  BY <1>3, <1>4, <1>8
<1>12. Standing(n)'
  <2>1. /\ Sent(n)' = s.frame + 1 /\ Sent(n)' <= FrameLimit /\ s.other <= s.frame
        /\ wire'[n] \subseteq 0 .. Sent(n)' - 1 /\ s.firstRead <= s.read
    BY <1>1, <1>3, <1>4, <1>5, <1>6, <1>8, <1>11
  <2>2. s.pc = "run" => Sent(n)' - s.read <= Frames
    BY <1>3, <1>4, <1>5, <1>8, <1>11
  <2>3. s.pc = "first" => s.frame > 0 /\ s.read <= s.frame
    BY <1>3, <1>8, <1>11
  <2>4. s.pc \in {"run", "first"}
    BY <1>8
  <2>5. ~ (n = "host" /\ request' # "none")
    BY <1>1, <1>4
  <2>6. QED
    BY <1>9, <2>1, <2>2, <2>3, <2>4, <2>5 DEF Standing
<1>13. Pointers(n)'
  <2>1. /\ r.selfPtr = Sent(n) % BufferSize /\ r.readPtr = r.read % BufferSize
        /\ r.otherPtr = r.other % BufferSize
    BY <1>2 DEF Pointers
  <2>2. NextPtr(r.selfPtr) = (Sent(n) + 1) % BufferSize
    BY <1>3, <2>1, NextOf
  <2>3. NextPtr(r.readPtr) = (r.read + 1) % BufferSize
    BY <1>3, <2>1, NextOf
  <2>4. QED
    BY <1>5, <1>8, <1>9, <2>1, <2>2, <2>3 DEF Pointers
<1>14. \A m \in Node : Standing(m)' /\ Pointers(m)'
  <2>1. ASSUME NEW m \in Node \ {n} PROVE Standing(m)' /\ Pointers(m)'
    BY <1>6, <1>9, OthersStand DEF CountInv
  <2>2. QED
    BY <1>12, <1>13, <2>1
<1>15. W!PreFrame(n)
  <2>1. Connected(n) /\ Connected(n)'
    BY <1>1, <1>8, <1>9 DEF Connected
  <2>2. np'[n].read = IF np[n].frame = 0 THEN 1 ELSE np[n].read
    BY <1>8, <1>9, <1>11
  <2>3. np'[n].frame = np[n].frame /\ np'[n].other = np[n].other /\ np[n].frame < FrameLimit
    BY <1>1, <1>8, <1>9
  <2>4. Sent(n) = np[n].frame /\ Sent(n)' = np[n].frame + 1
    BY <1>4, <1>5
  <2>5. n = "host" => request = "none"
    BY <1>4
  <2>6. QED
    BY <1>2, <1>9, <2>1, <2>2, <2>3, <2>4, <2>5, StartsFrame
<1>16. QED
  BY <1>9, <1>10, <1>14, <1>15 DEF Went, W!NodeStep

-----------------------------------------------------------------------------
(* Running a frame, and leaving                                              *)

\* The frame has run, its counter is up, nothing is settled yet.
Ran(n) ==
    LET r == np[n] IN
    [r EXCEPT !.core = Append(@, JointInput(n, r, PrevPtr(r.selfPtr), r.frame)),
              !.frame = @ + 1, !.pc = "idle"]

\* Running the core changes the core, the frame counter and the place.
LEMMA RanIsPeer ==
    ASSUME NEW n \in Node, np[n] \in PeerType
    PROVE  /\ Ran(n) \in PeerType /\ Ran(n).frame = np[n].frame + 1 /\ Ran(n).pc = "idle"
           /\ Ran(n).buffer = np[n].buffer
           /\ Ran(n).core = Append(np[n].core, JointInput(n, np[n], PrevPtr(np[n].selfPtr), np[n].frame))
           /\ Ran(n).selfPtr = np[n].selfPtr /\ Ran(n).otherPtr = np[n].otherPtr
           /\ Ran(n).readPtr = np[n].readPtr /\ Ran(n).read = np[n].read
           /\ Ran(n).other = np[n].other /\ Ran(n).firstRead = np[n].firstRead
           /\ Ran(n).flipFrame = np[n].flipFrame /\ Ran(n).flip = np[n].flip
<1> DEFINE r == np[n]
           input == JointInput(n, r, PrevPtr(r.selfPtr), r.frame)
           core == Append(r.core, input)
           next == r.frame + 1
<1>1. core \in Games /\ next \in Nat
  <2>1. r.selfPtr \in 0 .. Frames /\ r.core \in Seq(Input \X Input) /\ r.frame \in Nat
    BY DEF PeerType, Games
  <2>2. input \in Input \X Input
    BY <2>1, PrevInRing, InputIsJoint
  <2> HIDE DEF input, r
  <2>3. core \in Games
    BY <2>1, <2>2, AppendProperties DEF Games
  <2>4. QED
    BY <2>1, <2>3
<1>2. Ran(n) = [r EXCEPT !.core = core, !.frame = next, !.pc = "idle"]
  BY DEF Ran
<1>3. r \in PeerType
  OBVIOUS
<1> DEFINE s == Ran(n)
<1>4. s = [r EXCEPT !.core = core, !.frame = next, !.pc = "idle"]
  BY <1>2
<1>5. /\ s \in PeerType /\ s.frame = next /\ s.pc = "idle"
      /\ s.buffer = r.buffer /\ s.core = core
      /\ s.selfPtr = r.selfPtr /\ s.otherPtr = r.otherPtr
      /\ s.readPtr = r.readPtr /\ s.read = r.read
      /\ s.other = r.other /\ s.firstRead = r.firstRead
      /\ s.flipFrame = r.flipFrame /\ s.flip = r.flip
  <2> HIDE DEF s, core, next, r
  <2>1. QED
    BY <1>1, <1>3, <1>4 DEF PeerType
<1>6. QED
  BY <1>5

\* The frame runs and netplay_post_frame ends it.
LEMMA RunOver ==
    ASSUME CountInv, NEW n \in Node, RunFrame(n)
    PROVE  /\ np' = [np EXCEPT ![n] = PostFrame(n, Ran(n))]
           /\ FrameOver(n, Ran(n), PostFrame(n, Ran(n)), Sent(n))
           /\ Sent(n) = Ran(n).frame /\ Sent(n) = np[n].frame + 1
           /\ np[n].pc = "run"
           /\ UNCHANGED <<packed, wire, request, asked, flips>>
<1>1. /\ np[n].pc = "run" /\ np' = [np EXCEPT ![n] = PostFrame(n, Ran(n))]
      /\ UNCHANGED <<packed, wire, request, asked, flips>>
  BY DEF RunFrame, Ran
<1>2. /\ Typed /\ Standing(n) /\ Pointers(n) /\ Counts(n) /\ np[n] \in PeerType
  BY Counting DEF CountInv, Typed
<1>3. Sent(n) = np[n].frame + 1 /\ Sent(n) \in Nat
  BY <1>1, <1>2 DEF Standing, Counts
<1> DEFINE r == Ran(n)
<1>4. /\ r \in PeerType /\ r.selfPtr = np[n].selfPtr /\ r.otherPtr = np[n].otherPtr
      /\ r.other = np[n].other /\ r.read = np[n].read /\ r.frame = np[n].frame + 1
  BY <1>2, RanIsPeer
<1> HIDE DEF r
<1>5. /\ r.selfPtr = Sent(n) % BufferSize /\ r.otherPtr = r.other % BufferSize
      /\ r.other <= r.read /\ r.read <= Sent(n) /\ Sent(n) <= r.other + BufferSize
  BY <1>2, <1>3, <1>4 DEF Pointers, Counts
<1>6. FrameOver(n, r, PostFrame(n, r), Sent(n))
  BY <1>3, <1>4, <1>5, FrameEnds
<1>7. QED
  BY <1>1, <1>3, <1>4, <1>6 DEF r

\* A frame that runs finishes one in the window.
LEMMA RunFrameWent ==
    ASSUME CountInv, NEW n \in Node, RunFrame(n)
    PROVE  Went(n)
<1> DEFINE r == Ran(n)
           s == PostFrame(n, r)
<1>1. /\ np' = [np EXCEPT ![n] = s] /\ FrameOver(n, r, s, Sent(n))
      /\ Sent(n) = r.frame /\ Sent(n) = np[n].frame + 1 /\ np[n].pc = "run"
      /\ packed' = packed /\ wire' = wire /\ request' = request /\ asked' = asked
  BY RunOver
<1>2. /\ Typed /\ Standing(n) /\ Pointers(n) /\ Counts(n) /\ np[n] \in PeerType
  BY Counting DEF CountInv, Typed
<1>3. /\ np[n].frame \in Nat /\ np[n].read \in Nat /\ np[n].other \in Nat /\ Frames \in Nat
  BY <1>2, NetplayAssumption DEF PeerType
<1>4. /\ r \in PeerType /\ r.frame = np[n].frame + 1 /\ r.pc = "idle"
      /\ r.selfPtr = np[n].selfPtr /\ r.readPtr = np[n].readPtr /\ r.read = np[n].read
      /\ r.firstRead = np[n].firstRead /\ r.flipFrame = np[n].flipFrame
  BY <1>2, RanIsPeer
<1> HIDE DEF r, s
<1>5. /\ s \in PeerType
      /\ s = [r EXCEPT !.other = r.read, !.otherPtr = r.readPtr,
                       !.core = s.core, !.buffer = s.buffer]
  BY <1>1 DEF FrameOver
<1>6. /\ s.frame = np[n].frame + 1 /\ s.pc = "idle" /\ s.read = np[n].read
      /\ s.other = np[n].read /\ s.otherPtr = np[n].readPtr /\ s.readPtr = np[n].readPtr
      /\ s.selfPtr = np[n].selfPtr /\ s.firstRead = np[n].firstRead
      /\ s.flipFrame = np[n].flipFrame
  <2>1. /\ s.frame = r.frame /\ s.pc = r.pc /\ s.read = r.read
        /\ s.other = r.read /\ s.otherPtr = r.readPtr /\ s.readPtr = r.readPtr
        /\ s.selfPtr = r.selfPtr /\ s.firstRead = r.firstRead
        /\ s.flipFrame = r.flipFrame
    BY <1>4, <1>5 DEF PeerType
  <2>2. QED
    BY <1>4, <2>1
<1>7. np' \in [Node -> PeerType] /\ np'[n] = s /\ OnlyMoves(n)
  BY <1>1, <1>2, <1>5, <1>6, Moved
<1>8. Typed'
  BY <1>1, <1>2, <1>7 DEF Typed
<1>9. Sent(n)' = Sent(n)
  BY <1>1 DEF Sent
<1>10. Standing(n)'
  <2>1. /\ np[n].read <= Sent(n) /\ Sent(n) <= FrameLimit
        /\ wire[n] \subseteq 0 .. Sent(n) - 1 /\ np[n].firstRead <= np[n].read
        /\ ~ (n = "host" /\ request # "none")
    BY <1>1, <1>2 DEF Standing, Counts
  <2>2. QED
    BY <1>1, <1>6, <1>7, <1>9, <2>1 DEF Standing
<1>11. Pointers(n)'
  BY <1>2, <1>6, <1>7, <1>9 DEF Pointers
<1>12. \A m \in Node : Standing(m)' /\ Pointers(m)'
  <2>1. ASSUME NEW m \in Node \ {n} PROVE Standing(m)' /\ Pointers(m)'
    BY <1>1, <1>7, OthersStand DEF CountInv
  <2>2. QED
    BY <1>10, <1>11, <2>1
<1>13. W!FinishFrame(n)
  <2>1. Connected(n) /\ Connected(n)'
    BY <1>1, <1>6, <1>7 DEF Connected
  <2>2. np[n].frame + 1 - np[n].other <= Frames \/ np[n].read > np[n].other
    <3>1. /\ Sent(n) - np[n].read <= Frames /\ np[n].other <= np[n].read
      BY <1>1, <1>2 DEF Standing, Counts
    <3>2. QED
      BY <1>1, <1>3, <3>1
  <2>3. /\ np'[n].frame = np[n].frame + 1 /\ np'[n].other = np[n].read
        /\ np'[n].read = np[n].read
    BY <1>6, <1>7
  <2>4. QED
    BY <1>1, <1>2, <1>7, <1>9, <2>1, <2>2, <2>3, FinishesFrame
<1>14. QED
  BY <1>7, <1>8, <1>12, <1>13 DEF Went, W!NodeStep

\* Socket errors and processes that end hang up in the window.
LEMMA LeavesWent ==
    ASSUME CountInv, NEW n \in Node, SocketError(n) \/ Quit(n)
    PROVE  Went(n)
<1> PICK where \in {"offline", "gone"} : np' = [np EXCEPT ![n] = [np[n] EXCEPT !.pc = where]]
  BY DEF SocketError, Quit
<1> DEFINE s == [np[n] EXCEPT !.pc = where]
<1>1. /\ np' = [np EXCEPT ![n] = s] /\ np[n].pc # "response"
      /\ packed' = packed /\ wire' = wire /\ request' = request /\ asked' = asked
  BY DEF SocketError, Quit
<1>2. /\ Typed /\ Standing(n) /\ Pointers(n) /\ np[n] \in PeerType
  BY DEF CountInv, Typed
<1>3. /\ s \in PeerType /\ s.pc \in {"offline", "gone"} /\ s.frame = np[n].frame
      /\ s.read = np[n].read /\ s.other = np[n].other /\ s.firstRead = np[n].firstRead
      /\ s.selfPtr = np[n].selfPtr /\ s.readPtr = np[n].readPtr
      /\ s.otherPtr = np[n].otherPtr /\ s.flipFrame = np[n].flipFrame
  BY <1>2 DEF PeerType
<1> HIDE DEF s
<1>4. np' \in [Node -> PeerType] /\ np'[n] = s /\ OnlyMoves(n)
  BY <1>1, <1>2, <1>3, Moved
<1>5. Typed'
  BY <1>1, <1>2, <1>4 DEF Typed
<1>6. Sent(n)' = Sent(n)
  BY <1>1 DEF Sent
<1>7. Standing(n)'
  <2>1. /\ Sent(n) = s.frame \/ Sent(n) = s.frame + 1
        /\ Sent(n) <= FrameLimit /\ s.other <= s.frame /\ s.firstRead <= s.read
        /\ wire[n] \subseteq 0 .. Sent(n) - 1
        /\ ~ (n = "host" /\ request # "none")
    BY <1>1, <1>2, <1>3 DEF Standing
  <2>2. s.pc \notin {"idle", "response", "first", "again", "run"} /\ s.pc # "response"
    BY <1>3
  <2>3. QED
    BY <1>1, <1>4, <1>6, <2>1, <2>2 DEF Standing
<1>8. Pointers(n)'
  BY <1>2, <1>3, <1>4, <1>6 DEF Pointers
<1>9. \A m \in Node : Standing(m)' /\ Pointers(m)'
  <2>1. ASSUME NEW m \in Node \ {n} PROVE Standing(m)' /\ Pointers(m)'
    BY <1>1, <1>4, OthersStand DEF CountInv
  <2>2. QED
    BY <1>7, <1>8, <2>1
<1>10. W!HangUp(n) \/ UNCHANGED W!vars
  <2>1. Connected(n)' => Connected(n)
    BY <1>3, <1>4 DEF Connected
  <2>2. QED
    BY <1>3, <1>4, <1>6, <2>1, HangsUpOrStays
<1>11. QED
  BY <1>4, <1>5, <1>9, <1>10 DEF Went, W!NodeStep

\* Every step of a peer.
LEMMA NodeWent ==
    ASSUME CountInv, NEW n \in Node, NodeStep(n)
    PROVE  Went(n)
  BY PreFrameWent, PacketWent, NothingWent, TimeoutWent, EofWent, RunFrameWent, LeavesWent
     DEF NodeStep

-----------------------------------------------------------------------------
(* Flipping the users                                                        *)

\* What a step of a flip leaves behind.
FlipWent ==
    /\ Typed'
    /\ \A m \in Node : Standing(m)' /\ Pointers(m)'
    /\ W!AskFlip \/ W!AnswerFlip \/ W!EndFlip

\* Only what a flip is about has changed at n.
LEMMA FlipMoves ==
    ASSUME Typed, NEW n \in Node, NEW s \in PeerType, np' = [np EXCEPT ![n] = s],
           packed' = packed,
           s.frame = np[n].frame, s.read = np[n].read, s.other = np[n].other,
           Connected(n) = Connected(n)'
    PROVE  /\ np' \in [Node -> PeerType] /\ np'[n] = s
           /\ \A m \in Node \ {n} : np'[m] = np[m]
           /\ \A m \in Node : Sent(m)' = Sent(m)
           /\ Online' = Online /\ Polling' = Polling /\ Frame' = Frame
           /\ Read' = Read /\ Other' = Other
           /\ FlipFrame' = [FlipFrame EXCEPT ![n] = s.flipFrame]
           /\ s.flipFrame = np[n].flipFrame => FlipFrame' = FlipFrame
<1>1. /\ np' \in [Node -> PeerType] /\ np'[n] = s
      /\ \A m \in Node \ {n} : np'[m] = np[m]
  BY DEF Typed
<1>2. \A m \in Node : Sent(m)' = Sent(m)
  BY DEF Sent
<1>3. \A m \in Node : /\ Connected(m)' = Connected(m)
                      /\ np'[m].frame = np[m].frame
                      /\ (Sent(m) > np[m].frame)' = (Sent(m) > np[m].frame)
                      /\ np'[m].read = np[m].read /\ np'[m].other = np[m].other
  <2>1. \A m \in Node : np'[m].frame = np[m].frame /\ np'[m].read = np[m].read /\ np'[m].other = np[m].other
    BY <1>1
  <2>2. \A m \in Node : Connected(m)' = Connected(m)
    BY <1>1 DEF Connected
  <2>3. \A m \in Node : (Sent(m) > np[m].frame)' = (Sent(m) > np[m].frame)
    BY <1>2, <2>1
  <2>4. QED
    BY <2>1, <2>2, <2>3
<1>4. Online' = Online
  BY <1>3 DEF Online
<1>5. Polling' = Polling
  BY <1>3 DEF Polling
<1>6. Frame' = Frame /\ Read' = Read /\ Other' = Other
  BY <1>3 DEF Frame, Read, Other
<1>7. /\ FlipFrame' = [FlipFrame EXCEPT ![n] = s.flipFrame]
      /\ s.flipFrame = np[n].flipFrame => FlipFrame' = FlipFrame
  BY <1>1 DEF FlipFrame
<1>8. QED
  BY <1>1, <1>2, <1>4, <1>5, <1>6, <1>7

\* netplay_get_cmd answers a flip.
LEMMA CommandWent ==
    ASSUME CountInv, PollCommand
    PROVE  FlipWent
<1> DEFINE n == "client"
           r == np["client"]
           s == IF asked < r.flipFrame THEN r
                ELSE [r EXCEPT !.flip = 1 - @, !.flipFrame = asked]
<1>1. /\ "client" \in Node /\ "host" \in Node /\ "client" # "host"
      /\ Typed /\ Standing("client") /\ Pointers("client") /\ r \in PeerType
  BY DEF CountInv, Typed, Node
<1>2. /\ r.flip \in {0, 1} /\ r.flipFrame \in Nat /\ asked \in Nat /\ r.frame \in Nat
      /\ r.pc \in {"first", "again"} /\ request = "asked"
      /\ packed' = packed /\ wire' = wire /\ asked' = asked
      /\ request' = IF asked < r.flipFrame THEN "naked" ELSE "acked"
  BY <1>1 DEF PollCommand, InPoll, Typed, PeerType
<1>3. np' = [np EXCEPT !["client"] = s]
  <2>1. CASE asked < r.flipFrame
    <3>1. np' = np /\ s = r
      BY <2>1 DEF PollCommand
    <3>2. QED
      BY <1>1, <3>1 DEF Typed
  <2>2. CASE ~ (asked < r.flipFrame)
    <3>1. np' = [np EXCEPT !["client"].flip = 1 - @, !["client"].flipFrame = asked]
      BY <2>2 DEF PollCommand
    <3>2. QED
      BY <1>1, <2>2, <3>1 DEF Typed
  <2>3. QED
    BY <2>1, <2>2
<1>4. /\ s \in PeerType /\ s.frame = r.frame /\ s.read = r.read /\ s.other = r.other
      /\ s.pc = r.pc /\ s.firstRead = r.firstRead
      /\ s.selfPtr = r.selfPtr /\ s.readPtr = r.readPtr /\ s.otherPtr = r.otherPtr
      /\ s.flipFrame = IF asked < r.flipFrame THEN r.flipFrame ELSE asked
  <2>1. CASE asked < r.flipFrame
    BY <1>1, <2>1
  <2>2. CASE ~ (asked < r.flipFrame)
    <3> DEFINE turn == 1 - r.flip
    <3>1. turn \in {0, 1}
      BY <1>2
    <3>2. s = [r EXCEPT !.flip = turn, !.flipFrame = asked]
      BY <2>2
    <3> HIDE DEF s, r, turn
    <3>3. QED
      BY <1>1, <1>2, <2>2, <3>1, <3>2 DEF PeerType
  <2>3. QED
    BY <2>1, <2>2
<1> HIDE DEF s
<1>5. Connected("client") = Connected("client")'
  BY <1>1, <1>3, <1>4 DEF Connected, Typed
<1>6. /\ np' \in [Node -> PeerType] /\ np'["client"] = s
      /\ \A m \in Node \ {"client"} : np'[m] = np[m]
      /\ \A m \in Node : Sent(m)' = Sent(m)
      /\ Online' = Online /\ Polling' = Polling /\ Frame' = Frame
      /\ Read' = Read /\ Other' = Other
      /\ FlipFrame' = [FlipFrame EXCEPT !["client"] = s.flipFrame]
      /\ s.flipFrame = r.flipFrame => FlipFrame' = FlipFrame
  BY <1>1, <1>2, <1>3, <1>4, <1>5, FlipMoves
<1>7. Typed'
  BY <1>1, <1>2, <1>6 DEF Typed
<1>8. \A m \in Node : Standing(m)' /\ Pointers(m)'
  <2>1. Standing("client")' /\ Pointers("client")'
    BY <1>1, <1>2, <1>4, <1>6 DEF Standing, Pointers
  <2>2. ASSUME NEW m \in Node \ {"client"} PROVE Standing(m)' /\ Pointers(m)'
    <3>1. Standing(m) /\ Pointers(m) /\ np'[m] = np[m] /\ Sent(m)' = Sent(m)
      BY <1>6 DEF CountInv
    <3>2. request # "none" /\ request' # "none"
      BY <1>2
    <3>3. QED
      BY <1>2, <3>1, <3>2 DEF Standing, Pointers
  <2>3. QED
    BY <2>1, <2>2
<1>9. W!AnswerFlip
  <2>1. Connected("client") /\ Sent("client") > np["client"].frame /\ np["client"].frame > 0
    BY <1>1, <1>2 DEF Connected, Standing
  <2>2. Online["client"] /\ Polling["client"] /\ Frame["client"] > 0
    <3>1. Online["client"] = Connected("client")
          /\ Polling["client"] = (Sent("client") > np["client"].frame)
          /\ Frame["client"] = np["client"].frame
      BY <1>1, WindowHas
    <3>2. Frame["client"] > 0
      BY <2>1, <3>1
    <3>3. QED
      BY <2>1, <3>1, <3>2, Zenon
  <2>3. FlipFrame["client"] = r.flipFrame
    BY <1>1, WindowHas
  <2>4. IF asked < FlipFrame["client"]
        THEN request' = "naked" /\ FlipFrame' = FlipFrame
        ELSE request' = "acked" /\ FlipFrame' = [FlipFrame EXCEPT !["client"] = asked]
    BY <1>2, <1>4, <1>6, <2>3
  <2>5. QED
    BY <1>2, <1>6, <2>2, <2>4
       DEF W!AnswerFlip, Online, Polling, Frame, Read, Other, FlipFrame
<1>10. QED
  BY <1>7, <1>8, <1>9 DEF FlipWent

\* netplay_flip_users asks for one.
LEMMA FlipUsersWent ==
    ASSUME CountInv, FlipUsers
    PROVE  FlipWent
<1> DEFINE r == np["host"]
           s == [r EXCEPT !.pc = "response"]
<1>1. /\ "client" \in Node /\ "host" \in Node /\ "client" # "host"
      /\ Typed /\ Standing("host") /\ Standing("client") /\ Pointers("host") /\ r \in PeerType
  BY DEF CountInv, Typed, Node
<1>2. /\ r.pc = "idle" /\ r.frame \in Nat /\ Packets \in Nat
      /\ r.frame >= r.flipFrame + 2 * Packets
      /\ request' = "asked" /\ asked' = r.frame + 2 * Packets
      /\ np' = [np EXCEPT !["host"] = s]
      /\ packed' = packed /\ wire' = wire
  BY <1>1, NetplayAssumption DEF FlipUsers, Typed, PeerType
<1>3. /\ s \in PeerType /\ s.frame = r.frame /\ s.read = r.read /\ s.other = r.other
      /\ s.pc = "response" /\ s.firstRead = r.firstRead
      /\ s.selfPtr = r.selfPtr /\ s.readPtr = r.readPtr /\ s.otherPtr = r.otherPtr
      /\ s.flipFrame = r.flipFrame
  BY <1>1 DEF PeerType
<1> HIDE DEF s
<1>4. Connected("host") = Connected("host")'
  BY <1>1, <1>2, <1>3 DEF Connected, Typed
<1>5. /\ np' \in [Node -> PeerType] /\ np'["host"] = s
      /\ \A m \in Node \ {"host"} : np'[m] = np[m]
      /\ \A m \in Node : Sent(m)' = Sent(m)
      /\ Online' = Online /\ Polling' = Polling /\ Frame' = Frame
      /\ Read' = Read /\ Other' = Other
      /\ s.flipFrame = r.flipFrame => FlipFrame' = FlipFrame
  BY <1>1, <1>2, <1>3, <1>4, FlipMoves
<1>6. Typed'
  BY <1>1, <1>2, <1>5 DEF Typed
<1>7. request = "none" /\ Sent("host") = r.frame
  BY <1>1, <1>2 DEF Standing
<1>8. \A m \in Node : Standing(m)' /\ Pointers(m)'
  <2>1. Standing("host")' /\ Pointers("host")'
    BY <1>1, <1>2, <1>3, <1>5, <1>7 DEF Standing, Pointers
  <2>2. ASSUME NEW m \in Node \ {"host"} PROVE Standing(m)' /\ Pointers(m)'
    <3>1. Standing(m) /\ Pointers(m) /\ np'[m] = np[m] /\ Sent(m)' = Sent(m)
      BY <1>5 DEF CountInv
    <3>2. QED
      BY <1>2, <3>1 DEF Standing, Pointers
  <2>3. QED
    BY <2>1, <2>2
<1>9. W!AskFlip
  <2>1. Connected("host") /\ ~ (Sent("host") > np["host"].frame)
    BY <1>2, <1>7 DEF Connected
  <2>2. /\ Online["host"] /\ ~ Polling["host"]
    <3>1. Online["host"] = Connected("host")
          /\ Polling["host"] = (Sent("host") > np["host"].frame)
      BY <1>1, WindowHas
    <3>2. QED
      BY <2>1, <3>1, Zenon
  <2>3. Frame["host"] >= FlipFrame["host"] + 2 * Packets /\ asked' = Frame["host"] + 2 * Packets
    BY <1>1, <1>2, WindowHas
  <2>4. QED
    BY <1>2, <1>3, <1>5, <1>7, <2>2, <2>3
       DEF W!AskFlip, Online, Polling, Frame, Read, Other, FlipFrame
<1>10. QED
  BY <1>6, <1>8, <1>9 DEF FlipWent

\* The host hears the answer.
LEMMA GetResponseWent ==
    ASSUME CountInv, GetResponse
    PROVE  FlipWent
<1> DEFINE r == np["host"]
           back == [r EXCEPT !.pc = "idle"]
           s == IF request = "acked"
                THEN [back EXCEPT !.flip = 1 - back.flip, !.flipFrame = asked] ELSE back
<1>1. /\ "client" \in Node /\ "host" \in Node /\ "client" # "host"
      /\ Typed /\ Standing("host") /\ Pointers("host") /\ r \in PeerType
  BY DEF CountInv, Typed, Node
<1>2. /\ r.pc = "response" /\ asked \in Nat
      /\ request \in {"acked", "naked"} \/ np["client"].pc = "gone"
      /\ np' = [np EXCEPT !["host"] = s]
      /\ request' = "none"
      /\ packed' = packed /\ wire' = wire /\ asked' = asked
  BY <1>1 DEF GetResponse, Typed
<1>3. back \in PeerType /\ back.frame = r.frame /\ back.read = r.read /\ back.other = r.other
      /\ back.pc = "idle" /\ back.firstRead = r.firstRead
      /\ back.selfPtr = r.selfPtr /\ back.readPtr = r.readPtr /\ back.otherPtr = r.otherPtr
      /\ back.flipFrame = r.flipFrame
  BY <1>1 DEF PeerType
<1> HIDE DEF back
<1>4. /\ s \in PeerType /\ s.frame = r.frame /\ s.read = r.read /\ s.other = r.other
      /\ s.pc = "idle" /\ s.firstRead = r.firstRead
      /\ s.selfPtr = r.selfPtr /\ s.readPtr = r.readPtr /\ s.otherPtr = r.otherPtr
      /\ s.flipFrame = IF request = "acked" THEN asked ELSE r.flipFrame
  <2>1. CASE request = "acked"
    <3> DEFINE turn == 1 - back.flip
    <3>1. turn \in {0, 1}
      BY <1>3 DEF PeerType
    <3>2. s = [back EXCEPT !.flip = turn, !.flipFrame = asked]
      BY <2>1
    <3> HIDE DEF s, r, turn
    <3>3. QED
      BY <1>2, <1>3, <2>1, <3>1, <3>2 DEF PeerType
  <2>2. CASE request # "acked"
    BY <1>3, <2>2
  <2>3. QED
    BY <2>1, <2>2
<1> HIDE DEF s
<1>5. Connected("host") = Connected("host")'
  BY <1>1, <1>2, <1>4 DEF Connected, Typed
<1>6. /\ np' \in [Node -> PeerType] /\ np'["host"] = s
      /\ \A m \in Node \ {"host"} : np'[m] = np[m]
      /\ \A m \in Node : Sent(m)' = Sent(m)
      /\ Online' = Online /\ Polling' = Polling /\ Frame' = Frame
      /\ Read' = Read /\ Other' = Other
      /\ FlipFrame' = [FlipFrame EXCEPT !["host"] = s.flipFrame]
      /\ s.flipFrame = r.flipFrame => FlipFrame' = FlipFrame
  BY <1>1, <1>2, <1>4, <1>5, FlipMoves
<1>7. Typed'
  BY <1>1, <1>2, <1>6 DEF Typed
<1>8. Sent("host") = r.frame /\ request # "none"
  BY <1>1, <1>2 DEF Standing
<1>9. \A m \in Node : Standing(m)' /\ Pointers(m)'
  <2>1. Standing("host")' /\ Pointers("host")'
    BY <1>1, <1>2, <1>4, <1>6, <1>8 DEF Standing, Pointers
  <2>2. ASSUME NEW m \in Node \ {"host"} PROVE Standing(m)' /\ Pointers(m)'
    <3>1. Standing(m) /\ Pointers(m) /\ np'[m] = np[m] /\ Sent(m)' = Sent(m)
      BY <1>6 DEF CountInv
    <3>2. QED
      BY <1>2, <3>1 DEF Standing, Pointers
  <2>3. QED
    BY <2>1, <2>2
<1>10. W!EndFlip
  <2>1. Online["host"]
    <3>1. Connected("host") /\ Online["host"] = Connected("host")
      BY <1>1, <1>2, WindowHas DEF Connected
    <3>2. QED
      BY <3>1, Zenon
  <2>2. request \in {"acked", "naked"} \/ (request = "asked" /\ ~ Online["client"])
    <3>1. CASE request \in {"acked", "naked"}
      BY <3>1
    <3>2. CASE request \notin {"acked", "naked"}
      <4>1. request = "asked" /\ np["client"].pc = "gone"
        BY <1>1, <1>2, <1>8, <3>2 DEF Typed
      <4>2. ~ Connected("client") /\ Online["client"] = Connected("client")
        BY <1>1, <4>1, WindowHas DEF Connected
      <4>3. ~ Online["client"]
        BY <4>2, Zenon
      <4>4. QED
        BY <4>1, <4>3
    <3>3. QED
      BY <3>1, <3>2
  <2>3. FlipFrame' = IF request = "acked"
                     THEN [FlipFrame EXCEPT !["host"] = asked] ELSE FlipFrame
    BY <1>4, <1>6
  <2>4. QED
    BY <1>2, <1>6, <2>1, <2>2, <2>3
       DEF W!EndFlip, Online, Polling, Frame, Read, Other, FlipFrame
<1>11. QED
  BY <1>7, <1>9, <1>10 DEF FlipWent

-----------------------------------------------------------------------------
(* All steps                                                                 *)

\* What the window keeps has the window's types.
LEMMA TypesOfWindow ==
    ASSUME Typed
    PROVE  W!TypeOK
<1>1. \A n \in Node : /\ np[n].frame \in Nat /\ np[n].read \in Nat /\ np[n].other \in Nat
                      /\ np[n].flipFrame \in Nat
                      /\ Connected(n) \in BOOLEAN /\ (Sent(n) > np[n].frame) \in BOOLEAN
  <2>1. \A n \in Node : np[n].frame \in Nat /\ np[n].read \in Nat /\ np[n].other \in Nat /\ np[n].flipFrame \in Nat
    BY DEF Typed, PeerType
  <2>2. \A n \in Node : Connected(n) \in BOOLEAN
    BY DEF Connected
  <2>3. \A n \in Node : (Sent(n) > np[n].frame) \in BOOLEAN
    <3> SUFFICES ASSUME NEW n \in Node PROVE (Sent(n) > np[n].frame) \in BOOLEAN
      OBVIOUS
    <3>1. Sent(n) \in Nat /\ np[n].frame \in Nat
      BY <2>1, SentIsNat
    <3>2. QED
      BY <3>1
  <2>4. QED
    BY <2>1, <2>2, <2>3
<1>2. Online \in [Node -> BOOLEAN] /\ Polling \in [Node -> BOOLEAN]
  BY <1>1, Zenon DEF Online, Polling
<1>3. /\ Frame \in [Node -> Nat] /\ Read \in [Node -> Nat] /\ Other \in [Node -> Nat]
      /\ FlipFrame \in [Node -> Nat]
  BY <1>1 DEF Frame, Read, Other, FlipFrame
<1>4. QED
  BY <1>2, <1>3, WindowNames
     DEF Typed, W!TypeOK, Online, Polling, Frame, Read, Other, FlipFrame

\* netplay_new starts with all counters at zero.
LEMMA InitCounts ==
    ASSUME Init
    PROVE  CountInv /\ W!Init
<1>1. /\ np = [n \in Node |-> NewNetplay(n)] /\ packed = [n \in Node |-> <<>>]
      /\ wire = [n \in Node |-> {}] /\ request = "none" /\ asked = 0
  BY DEF Init
<1>2. \A n \in Node : NewNetplay(n) \in PeerType
  <2>1. 0 \in 0 .. Frames /\ BufferSize - 1 = Frames /\ NoInput \in Input /\ 0 \in 0 .. Retries
    BY RingSize, NetplayAssumption DEF Input
  <2>2. <<>> \in Games
    BY DEF Games
  <2>3. EmptySlot \in SlotType
    BY <2>1, <2>2 DEF EmptySlot, SlotType
  <2>4. \A n \in Node : (n = "client") \in BOOLEAN
    OBVIOUS
  <2>5. QED
    BY <2>1, <2>2, <2>3, <2>4 DEF NewNetplay, PeerType
<1>3. Typed
  <2>1. <<>> \in Seq(Input)
    OBVIOUS
  <2>2. QED
    BY <1>1, <1>2, <2>1 DEF Typed
<1>4. \A n \in Node : /\ np[n].pc = "idle" /\ Sent(n) = 0 /\ np[n].frame = 0 /\ np[n].read = 0
                      /\ np[n].other = 0 /\ np[n].firstRead = 0 /\ np[n].flipFrame = 0
                      /\ np[n].selfPtr = 0 /\ np[n].readPtr = 0 /\ np[n].otherPtr = 0
                      /\ wire[n] = {}
  BY <1>1 DEF NewNetplay, Sent
<1>5. \A n \in Node : Standing(n) /\ Pointers(n)
  <2>1. 0 % BufferSize = 0 /\ FrameLimit \in Nat
    BY RingSize, NetplayAssumption
  <2>2. QED
    BY <1>1, <1>4, <2>1 DEF Standing, Pointers
<1>6. W!Init
  <2>1. \A n \in Node : Connected(n) = TRUE /\ (Sent(n) > np[n].frame) = FALSE
    BY <1>4 DEF Connected
  <2>2. /\ Online = [n \in Node |-> TRUE] /\ Polling = [n \in Node |-> FALSE]
    BY <2>1, Zenon DEF Online, Polling
  <2>3. /\ Frame = [n \in Node |-> 0] /\ Read = [n \in Node |-> 0]
        /\ Other = [n \in Node |-> 0] /\ FlipFrame = [n \in Node |-> 0]
    BY <1>4 DEF Frame, Read, Other, FlipFrame
  <2>4. QED
    BY <1>1, <2>2, <2>3, WindowNames DEF W!Init, Online, Polling, Frame, Read, Other, FlipFrame
<1>7. W!TypeOK
  BY <1>3, TypesOfWindow
<1>8. W!WindowInv
  <2>1. \A n \in Node : W!Sent(n) = 0
    <3> SUFFICES ASSUME NEW n \in Node PROVE W!Sent(n) = 0
      OBVIOUS
    <3>1. QED
      BY <1>3, <1>4, WindowSent
  <2>2. \A n \in Node : W!Counters(n) /\ W!HeardWasSent(n)
    BY <1>4, <2>1, NetplayAssumption DEF W!Counters, W!HeardWasSent
  <2>3. QED
    BY <1>7, <2>2, WindowNames DEF W!WindowInv
<1>9. W!FlipInv
  BY <1>1, <1>4 DEF W!FlipInv, Node
<1>10. QED
  BY <1>3, <1>5, <1>6, <1>8, <1>9 DEF CountInv

\* Every step keeps the counters, and is one of the window or none.
LEMMA CountStep ==
    ASSUME CountInv, [Next]_vars
    PROVE  CountInv' /\ [W!Next]_(W!vars)
<1>1. /\ Typed' /\ \A m \in Node : Standing(m)' /\ Pointers(m)'
      /\ [W!Next]_(W!vars)
  <2>1. ASSUME NEW n \in Node, NodeStep(n) PROVE Went(n)
    BY <2>1, NodeWent
  <2>2. ASSUME NEW n \in Node, Went(n)
        PROVE  /\ Typed' /\ \A m \in Node : Standing(m)' /\ Pointers(m)'
               /\ [W!Next]_(W!vars)
    BY <2>2, WindowNames DEF Went, W!Next
  <2>3. CASE PollCommand \/ FlipUsers \/ GetResponse
    <3>1. FlipWent
      BY <2>3, CommandWent, FlipUsersWent, GetResponseWent
    <3>2. QED
      BY <3>1 DEF FlipWent, W!Next
  <2>4. CASE UNCHANGED vars
    <3>1. UNCHANGED W!vars
      BY <2>4 DEF vars, W!vars, Connected, Sent
    <3>2. Typed' /\ \A m \in Node : Standing(m)' /\ Pointers(m)'
      BY <2>4 DEF CountInv, vars, Typed, Standing, Pointers, Sent
    <3>3. QED
      BY <3>1, <3>2
  <2>5. QED
    BY <2>1, <2>2, <2>3, <2>4 DEF Next
<1>2. W!TypeOK'
  <2>1. Typed' => W!TypeOK'
    BY TypesOfWindow, PTL
  <2>2. QED
    BY <1>1, <2>1
<1>3. W!TypeOK /\ W!WindowInv /\ W!FlipInv
  BY TypesOfWindow DEF CountInv
<1>4. W!WindowInv'
  BY <1>1, <1>2, <1>3, W!WindowInductive, NetplayAssumption
<1>5. W!FlipInv'
  BY <1>1, <1>2, <1>3, W!FlipInductive, NetplayAssumption
<1>6. QED
  BY <1>1, <1>4, <1>5 DEF CountInv

-----------------------------------------------------------------------------
(* What holds of every behaviour                                             *)

\* In every state that Netplay reaches the counters of both peers are in order and
\* their pointers with them, whatever the network and the users do.
THEOREM NetplayInvariant == Spec => []CountInv
<1>1. Init => CountInv
  BY InitCounts
<1>2. CountInv /\ [Next]_vars => CountInv'
  BY CountStep
<1>3. QED
  BY <1>1, <1>2, PTL DEF Spec

\* The counters in order bound everything TypeOK bounds.
LEMMA CountsAreSound ==
    ASSUME CountInv
    PROVE  TypeOK /\ PointersFollowCounters
<1>1. PointersFollowCounters
  BY DEF CountInv, Pointers, PointersFollowCounters
<1>2. ASSUME NEW n \in Node
      PROVE  {np[n].frame, np[n].read, np[n].other, np[n].firstRead} \subseteq 0 .. FrameLimit
  <2>1. Typed /\ Standing(n) /\ Counts(n) /\ np[n] \in PeerType
    BY Counting DEF CountInv, Typed
  <2>2. /\ np[n].frame \in Nat /\ np[n].read \in Nat /\ np[n].other \in Nat
        /\ np[n].firstRead \in Nat /\ Sent(n) \in Nat /\ FrameLimit \in Nat
    BY <2>1, SentIsNat, NetplayAssumption DEF PeerType
  <2>3. /\ np[n].frame <= Sent(n) /\ np[n].read <= Sent(n) /\ np[n].other <= np[n].frame
        /\ np[n].firstRead <= np[n].read /\ Sent(n) <= FrameLimit
    BY <2>1, <2>2 DEF Standing, Counts
  <2>4. QED
    BY <2>2, <2>3
<1>3. ASSUME NEW n \in Node
      PROVE  wire[n] \in SUBSET (0 .. FrameLimit)
  <2>1. /\ wire[n] \subseteq 0 .. Sent(n) - 1 /\ Sent(n) <= FrameLimit
        /\ Sent(n) \in Nat /\ FrameLimit \in Nat
    BY SentIsNat, NetplayAssumption DEF CountInv, Standing
  <2>2. QED
    BY <2>1
<1>4. \A n \in Node : np[n] \in PeerType
  BY DEF CountInv, Typed
<1>5. TypeOK
  <2>1. Typed
    BY DEF CountInv
  <2>2. wire \in [Node -> SUBSET (0 .. FrameLimit)]
    BY <1>3, <2>1 DEF Typed
  <2>3. \A n \in Node :
         /\ np[n].pc \in {"idle", "first", "again", "run", "response", "offline", "lost", "gone"}
         /\ np[n].core \in Seq(Input \X Input)
         /\ np[n].buffer \in [0 .. Frames ->
                [state : Seq(Input \X Input), self : Input, real : Input, simulated : Input,
                 isSimulated : BOOLEAN, usedReal : BOOLEAN]]
         /\ {np[n].selfPtr, np[n].otherPtr, np[n].readPtr} \subseteq 0 .. Frames
         /\ np[n].flip \in {0, 1}
         /\ np[n].flipFrame \in Nat
         /\ np[n].timeouts \in 0 .. Retries
         /\ np[n].hasAddr \in BOOLEAN
    BY <1>4 DEF PeerType, SlotType, Games
  <2>4. QED
    BY <1>2, <2>1, <2>2, <2>3 DEF Typed, TypeOK
<1>6. QED
  BY <1>1, <1>5

\* Types hold, and the pointers that netplay_pre_frame, netplay_poll, parse_packet
\* and netplay_post_frame move apart from the counters stay those counters modulo
\* the ring: "buffer full", "all read" and "replay done" mean what they are taken
\* to mean, for every number of lag frames.
THEOREM PointersAreSound == Spec => [](TypeOK /\ PointersFollowCounters)
<1>1. CountInv => TypeOK /\ PointersFollowCounters
  BY CountsAreSound
<1>2. QED
  BY <1>1, NetplayInvariant, PTL

\* W and the window that Netplay names are the same.
LEMMA OneWindow ==
    /\ W!Init => Window!Init
    /\ [W!Next]_(W!vars) => [Window!Next]_(Window!vars)
<1>1. W!Init => Window!Init
  BY DEF W!Init, Window!Init, W!Node, Window!Node
<1>2. W!vars = Window!vars
  BY DEF W!vars, Window!vars
<1>3. W!vars' = Window!vars'
  BY DEF W!vars, Window!vars
<1>4. W!Node = Window!Node /\ \A n : W!Peer(n) = Window!Peer(n)
  BY DEF W!Node, Window!Node, W!Peer, Window!Peer
<1>5. \A n : W!Sent(n) = Window!Sent(n)
  BY DEF W!Sent, Window!Sent
<1>6. W!Next => Window!Next
  BY <1>4
     DEF W!Next, W!NodeStep, W!PreFrame, W!Receive, W!Carries, W!FinishFrame, W!HasRoom, W!HangUp,
         W!AskFlip, W!AnswerFlip, W!EndFlip, W!Sent, W!Peer, W!Node,
         Window!Next, Window!NodeStep, Window!PreFrame, Window!Receive, Window!Carries,
         Window!FinishFrame, Window!HasRoom, Window!HangUp, Window!AskFlip, Window!AnswerFlip,
         Window!EndFlip, Window!Sent, Window!Peer, Window!Node
<1>7. QED
  BY <1>1, <1>2, <1>3, <1>6

\* Netplay implements the sliding window of NetplayWindow, for every number of lag
\* frames and every packet size: its ring pointers, timeouts, retries, packets and
\* failures only ever move the counters the way the window allows.
THEOREM NetplayIsAWindow == Spec => SlidingWindow
<1>1. Init => Window!Init
  BY InitCounts, OneWindow
<1>2. CountInv /\ [Next]_vars => [Window!Next]_(Window!vars)
  BY CountStep, OneWindow
<1>3. QED
  BY <1>1, <1>2, NetplayInvariant, PTL DEF Spec, SlidingWindow, Window!Spec

\* So what is proved about the window holds of netplay itself: with fewer lag
\* frames than frames in a packet a flip of users (netplay_flip_users, netplay_get_cmd)
\* only touches frames that neither peer may still replay or has already run.
THEOREM FlipsSynced ==
    ASSUME Frames < Packets
    PROVE  Spec => SyncedBeforeFlip
<1>1. Spec => W!Spec
  <2>1. Init => W!Init
    BY InitCounts
  <2>2. CountInv /\ [Next]_vars => [W!Next]_(W!vars)
    BY CountStep
  <2>3. QED
    BY <2>1, <2>2, NetplayInvariant, PTL DEF Spec, W!Spec
<1>2. W!Spec => W!FlipsOnlyTheFuture
  BY W!FlipsOnlyTheFutureHolds, NetplayAssumption
<1>3. W!FlipsOnlyTheFuture => SyncedBeforeFlip
  <2>1. [W!NewFlipIsAhead]_(W!vars) => [Window!NewFlipIsAhead]_(Window!vars)
    BY DEF W!NewFlipIsAhead, Window!NewFlipIsAhead, W!vars, Window!vars, W!Node, Window!Node
  <2>2. QED
    BY <2>1, PTL DEF W!FlipsOnlyTheFuture, SyncedBeforeFlip, Window!FlipsOnlyTheFuture
<1>4. QED
  BY <1>1, <1>2, <1>3, PTL

\* With two packets of lag to spare, the packet that a stalled peer sends again
\* (poll_input) still carries the input the other peer waits for.
THEOREM NetplayKeepsNeededFrame ==
    ASSUME 2 * Frames + 2 <= Packets
    PROVE  Spec => []NeededFrameInWindow
<1>1. CountInv => NeededFrameInWindow
  <2> SUFFICES ASSUME CountInv, NEW n \in Node
               PROVE  Sent(Peer(n)) - Packets <= np[n].read
    BY DEF NeededFrameInWindow
  <2>1. /\ Typed /\ Standing(n) /\ Standing(Peer(n)) /\ Peer(n) \in Node /\ Peer(Peer(n)) = n
        /\ Counts(n) /\ Counts(Peer(n))
    BY Counting, PeerIsNode DEF CountInv
  <2>2. /\ np[n].frame \in Nat /\ np[n].read \in Nat /\ np[n].other \in Nat
        /\ np[Peer(n)].frame \in Nat /\ np[Peer(n)].read \in Nat /\ np[Peer(n)].other \in Nat
        /\ Sent(n) \in Nat /\ Sent(Peer(n)) \in Nat /\ Packets \in Nat /\ Frames \in Nat
    <3>1. np[n] \in PeerType /\ np[Peer(n)] \in PeerType
      BY <2>1 DEF Typed
    <3>2. QED
      BY <2>1, <3>1, SentIsNat, NetplayAssumption DEF PeerType
  <2>3. Sent(Peer(n)) <= np[Peer(n)].read + Frames + 1
    BY <2>1, <2>2 DEF Counts, Standing
  <2>4. np[Peer(n)].read <= 1 \/ np[Peer(n)].read <= Sent(n)
    BY <2>1 DEF Counts
  <2>5. Sent(n) <= np[n].read + Frames + 1
    BY <2>1, <2>2 DEF Counts, Standing
  <2>6. QED
    BY <2>2, <2>3, <2>4, <2>5
<1>2. QED
  BY <1>1, NetplayInvariant, PTL

-----------------------------------------------------------------------------
(* The games that the two peers play                                         *)

\* The input of frame f from n; that of frame 0 is zero by convention.
Given(n, f) == IF f = 0 THEN NoInput ELSE packed[n][f + 1]

\* The other user's input that the frame in this slot ran on.
Theirs(slot) == IF slot.usedReal THEN slot.real ELSE slot.simulated

\* What frame f of n ran on from the other user, as it is known now.
Took(n, f) == IF f < np[n].other THEN Given(Peer(n), f) ELSE Theirs(Slot(n, f))

\* Own input and that of the other user, as the ports see them.
Ports(n, f, own, theirs) ==
    IF (n = "host") = Game!Swapped(f) THEN <<theirs, own>> ELSE <<own, theirs>>

\* The joint input of frame f of n, as it is known.
Joins(n, f) == Ports(n, f, packed[n][f + 1], Took(n, f))

\* s is the game of n after k frames.
Plays(n, s, k) == Len(s) = k /\ \A j \in 1 .. k : s[j] = Joins(n, j - 1)

\* What the slot of frame f holds, in the ring of r.
Fits(n, r, f) ==
    LET slot == r.buffer[f % BufferSize] IN
    /\ slot.self = packed[n][f + 1]
    /\ f < r.read => ~slot.isSimulated /\ slot.real = Given(Peer(n), f)
    /\ f >= r.read /\ (f < r.frame \/ r.pc = "run") => slot.isSimulated /\ ~slot.usedReal
    /\ f = r.frame /\ r.pc = "run" /\ f < r.read => slot.usedReal

\* Own input is on record from frame 0 on, and the slots of the frames that may
\* be replayed say what is known of them.
Held(n) ==
    /\ packed[n] # <<>> => packed[n][1] = NoInput
    /\ \A f \in np[n].other .. Sent(n) - 1 : Fits(n, np[n], f)

\* The states are those of the game, as it is known.
States(n) ==
    /\ Plays(n, np[n].core, np[n].frame)
    /\ \A f \in np[n].other .. Sent(n) - 1 : Plays(n, Slot(n, f).state, f)

\* The flips that n has applied.
Known(n) == IF n = "host" /\ request = "acked" THEN flips \ {asked} ELSE flips

\* flip and flip_frame say as much about the frames from other on as all flips do:
\* every flip but the newest lies behind what n may still replay.
Flipped(n) ==
    /\ np[n].flip = Cardinality(Known(n)) % 2
    /\ Known(n) = {} => np[n].flipFrame = 0
    /\ Known(n) # {} => np[n].flipFrame \in Known(n) /\ np[n].flipFrame > 0
    /\ \A x \in Known(n) : x = np[n].flipFrame \/ (x < np[n].flipFrame /\ x <= np[n].other)

\* The flips agreed, and what the two sides know of them.
FlipsInv ==
    /\ IsFiniteSet(flips) /\ flips \subseteq 0 .. FrameLimit + 2 * Packets
    /\ \A n \in Node : Flipped(n)
    /\ request = "acked" => asked \in flips

\* The counters are in order, the flips known, and every slot that may be replayed
\* and the core itself hold the game as it is known.
GameInv ==
    /\ CountInv /\ FlipsInv
    /\ \A n \in Node : Held(n) /\ States(n)

-----------------------------------------------------------------------------
(* Flips and ports                                                           *)

\* One flip more or less.
LEMMA Parity ==
    \A c \in Nat : /\ c % 2 \in {0, 1}
                   /\ (c + 1) % 2 = 1 - (c % 2)
                   /\ c >= 1 => (c - 1) % 2 = 1 - (c % 2)
  OBVIOUS

\* Swapped users: an odd number of flips.
LEMMA SameCardinality ==
    ASSUME NEW S
    PROVE  Game!Cardinality(S) = Cardinality(S)
  BY Zenon DEF Game!Cardinality, Cardinality

\* The game and netplay count the flips alike.
LEMMA SwappedIs ==
    ASSUME NEW f
    PROVE  Game!Swapped(f) = (Cardinality({x \in flips : x <= f}) % 2 = 1)
  BY SameCardinality, Zenon DEF Game!Swapped

\* A port plus flips, modulo the two users.
LEMMA PortSum ==
    \A port, c, d \in {0, 1} :
      (port + c + d) % 2 = IF (c = 1) = (d = 0) THEN 1 - port ELSE port
  OBVIOUS

\* The ports of a frame that may still run: flip and flip_frame say as much about
\* it as all flips there were.
LEMMA PortIs ==
    ASSUME NEW n \in Node, FlipsInv, NEW r, r.flip = np[n].flip, r.flipFrame = np[n].flipFrame,
           NEW f \in Nat, np[n].other \in Nat, np[n].other <= f,
           n = "host" /\ request = "acked" => f < asked, asked \in Nat,
           NEW port \in {0, 1}, np[n].flipFrame \in Nat, Frames \in Nat, FrameLimit \in Nat, Packets \in Nat
    PROVE  FlipPort(r, f, port) = IF Game!Swapped(f) THEN 1 - port ELSE port
<1> DEFINE K == Known(n)
           F == np[n].flipFrame
           before == {x \in flips : x <= f}
           c == Cardinality(K)
           odd == c % 2
<1>1. /\ Flipped(n) /\ IsFiniteSet(flips) /\ flips \subseteq Nat
  BY DEF FlipsInv
<1>2. K \subseteq flips /\ IsFiniteSet(K) /\ c \in Nat
  <2>1. K \subseteq flips
    BY DEF Known
  <2>2. IsFiniteSet(K)
    BY <1>1, <2>1, FS_Subset
  <2>3. QED
    BY <2>1, <2>2, FS_CardinalityType
<1>3. before = {x \in K : x <= f}
  BY <1>1 DEF Known
<1>4. /\ np[n].flip = odd
      /\ K = {} => F = 0
      /\ K # {} => F \in K /\ F > 0
      /\ \A x \in K : x = F \/ (x < F /\ x <= np[n].other)
  BY <1>1 DEF Flipped
<1>5. Game!Swapped(f) = (Cardinality(before) % 2 = 1)
  BY SwappedIs
<1>6. FlipPort(r, f, port) = IF F = 0 THEN port
                             ELSE (port + odd + (IF f < F THEN 1 ELSE 0)) % 2
  BY <1>4 DEF FlipPort
<1>7. \A x \in K : x \in Nat
  BY <1>1, <1>2
<1>8. odd \in {0, 1} /\ (c >= 1 => (c - 1) % 2 = 1 - odd)
  BY <1>2, Parity
<1> HIDE DEF odd
<1>9. CASE K = {}
  <2>1. before = {}
    BY <1>3, <1>9
  <2>2. Cardinality(before) % 2 = 0
    <3>1. Cardinality(before) = 0
      BY <2>1, FS_EmptySet
    <3>2. QED
      BY <3>1
  <2>3. FlipPort(r, f, port) = port
    BY <1>4, <1>6, <1>9, Zenon
  <2>4. ~ Game!Swapped(f)
    <3>1. ~ (Cardinality(before) % 2 = 1)
      BY <2>2
    <3>2. QED
      BY <1>5, <3>1, Zenon
  <2>5. QED
    BY <2>3, <2>4, Zenon
<1>10. CASE K # {} /\ ~ (f < F)
  <2>1. before = K
    BY <1>3, <1>4, <1>7, <1>10
  <2>2. Cardinality(before) % 2 = odd
    BY <2>1 DEF odd
  <2>3. FlipPort(r, f, port) = (port + odd + 0) % 2
    <3>1. F # 0
      BY <1>4, <1>10
    <3>2. QED
      BY <1>6, <1>10, <3>1, Zenon
  <2>4. FlipPort(r, f, port) = IF (odd = 1) = (0 = 0) THEN 1 - port ELSE port
    BY <1>8, <2>3, PortSum
  <2> HIDE DEF before, K, F
  <2>5. QED
    BY <1>5, <2>2, <2>4
<1>11. CASE K # {} /\ f < F
  <2>1. before = K \ {F} /\ F \in K
    BY <1>3, <1>4, <1>7, <1>11
  <2> HIDE DEF before, K, F
  <2>2. Cardinality(before) = c - 1 /\ c >= 1
    <3>1. Cardinality(K \ {F}) = c - 1
      BY <1>2, <2>1, FS_RemoveElement
    <3>2. c # 0
      BY <1>2, <2>1, FS_EmptySet
    <3>3. c \in Nat
      BY <1>2
    <3> HIDE DEF c
    <3>4. QED
      BY <2>1, <3>1, <3>2, <3>3
  <2>3. Cardinality(before) % 2 = 1 - odd
    <3> HIDE DEF c
    <3>1. QED
      BY <1>8, <2>2, Zenon
  <2>4. FlipPort(r, f, port) = (port + odd + 1) % 2
    <3>1. F # 0
      BY <1>4, <1>11
    <3>2. QED
      BY <1>6, <1>11, <3>1, Zenon
  <2>5. FlipPort(r, f, port) = IF (odd = 1) = (1 = 0) THEN 1 - port ELSE port
    BY <1>8, <2>4, PortSum
  <2>6. Game!Swapped(f) <=> 1 - odd = 1
    BY <1>5, <2>3, Zenon
  <2>7. odd = 0 \/ odd = 1
    BY <1>8
  <2>8. CASE odd = 0
    <3>1. FlipPort(r, f, port) = 1 - port
      BY <2>5, <2>8
    <3>2. Game!Swapped(f)
      BY <2>6, <2>8
    <3>3. QED
      BY <3>1, <3>2, Zenon
  <2>9. CASE odd = 1
    <3>1. FlipPort(r, f, port) = port
      BY <2>5, <2>9
    <3>2. ~ Game!Swapped(f)
      BY <2>6, <2>9
    <3>3. QED
      BY <3>1, <3>2, Zenon
  <2>10. QED
    BY <2>7, <2>8, <2>9
<1>12. QED
  BY <1>9, <1>10, <1>11

\* So the core is given each user's input at the port that is his.
LEMMA JointIs ==
    ASSUME NEW n \in Node, FlipsInv, NEW r, r.flip = np[n].flip, r.flipFrame = np[n].flipFrame,
           NEW f \in Nat, np[n].other \in Nat, np[n].other <= f,
           n = "host" /\ request = "acked" => f < asked, asked \in Nat,
           np[n].flipFrame \in Nat,
           NEW ptr
    PROVE  JointInput(n, r, ptr, f) =
             Ports(n, f, r.buffer[ptr].self,
                   IF r.buffer[ptr].isSimulated THEN r.buffer[ptr].simulated ELSE r.buffer[ptr].real)
<1>1. \A port \in {0, 1} : FlipPort(r, f, port) = IF Game!Swapped(f) THEN 1 - port ELSE port
  BY PortIs, NetplayAssumption
<1> DEFINE own == r.buffer[ptr].self
           theirs == IF r.buffer[ptr].isSimulated THEN r.buffer[ptr].simulated
                     ELSE r.buffer[ptr].real
<1>2. \A port \in {0, 1} :
        InputState(n, r, ptr, f, port) =
          IF Port(n) # FlipPort(r, f, port) THEN own ELSE theirs
  BY DEF InputState
<1>3. JointInput(n, r, ptr, f) = <<InputState(n, r, ptr, f, 0), InputState(n, r, ptr, f, 1)>>
  BY DEF JointInput
<1> HIDE DEF own, theirs
<1>4. Game!Swapped(f) \in BOOLEAN
  BY SwappedIs
<1>5. CASE Game!Swapped(f)
  <2>1. FlipPort(r, f, 0) = 1 /\ FlipPort(r, f, 1) = 0
    BY <1>1, <1>5
  <2>2. CASE n = "host"
    <3>1. InputState(n, r, ptr, f, 0) = theirs /\ InputState(n, r, ptr, f, 1) = own
      BY <1>2, <2>1, <2>2 DEF Port
    <3>2. QED
      BY <1>3, <1>5, <2>2, <3>1 DEF Ports, own, theirs
  <2>3. CASE n # "host"
    <3>1. InputState(n, r, ptr, f, 0) = own /\ InputState(n, r, ptr, f, 1) = theirs
      BY <1>2, <2>1, <2>3 DEF Port
    <3>2. QED
      BY <1>3, <1>5, <2>3, <3>1 DEF Ports, own, theirs
  <2>4. QED
    BY <2>2, <2>3
<1>6. CASE ~ Game!Swapped(f)
  <2>1. FlipPort(r, f, 0) = 0 /\ FlipPort(r, f, 1) = 1
    BY <1>1, <1>6
  <2>2. CASE n = "host"
    <3>1. InputState(n, r, ptr, f, 0) = own /\ InputState(n, r, ptr, f, 1) = theirs
      BY <1>2, <2>1, <2>2 DEF Port
    <3>2. QED
      BY <1>4, <1>3, <1>6, <2>2, <3>1 DEF Ports, own, theirs
  <2>3. CASE n # "host"
    <3>1. InputState(n, r, ptr, f, 0) = theirs /\ InputState(n, r, ptr, f, 1) = own
      BY <1>2, <2>1, <2>3 DEF Port
    <3>2. QED
      BY <1>4, <1>3, <1>6, <2>3, <3>1 DEF Ports, own, theirs
  <2>4. QED
    BY <2>2, <2>3
<1>7. QED
  BY <1>5, <1>6

-----------------------------------------------------------------------------
(* Steps that leave the games alone                                          *)

\* What a step leaves behind of the games.
DataKept == FlipsInv' /\ \A m \in Node : Held(m)' /\ States(m)'

\* A step that neither offers input, nor agrees on a flip, nor settles a frame.
Resting ==
    packed' = packed /\ flips' = flips /\ \A m \in Node : np'[m].other = np[m].other

\* s still has of frame f what n had.
Kept(n, s, f) ==
    LET was == np[n].buffer[f % BufferSize]
        is == s.buffer[f % BufferSize] IN
    /\ Fits(n, s, f)
    /\ is.state = was.state
    /\ f < np[n].frame => Theirs(is) = Theirs(was)

\* s has run the frames that n has run, on the same input.
Quiet(n, s) ==
    /\ s.frame = np[n].frame /\ s.other = np[n].other /\ s.core = np[n].core
    /\ s.flip = np[n].flip /\ s.flipFrame = np[n].flipFrame
    /\ \A f \in np[n].other .. Sent(n) - 1 : Kept(n, s, f)

\* Numbers that everything below is about.
LEMMA Numbers ==
    ASSUME CountInv, NEW n \in Node
    PROVE  /\ np[n] \in PeerType /\ np[n].frame \in Nat /\ np[n].other \in Nat /\ np[n].read \in Nat
           /\ np[n].flipFrame \in Nat /\ Sent(n) \in Nat /\ asked \in Nat
           /\ Frames \in Nat /\ Packets \in Nat /\ BufferSize = Frames + 1
           /\ packed[n] \in Seq(Input) /\ Peer(n) \in Node
           /\ np[n].frame <= Sent(n) /\ Sent(n) <= np[n].frame + 1 /\ np[n].other <= np[n].frame
           /\ np[n].other <= np[n].read /\ np[n].read <= Sent(n)
           /\ Sent(n) <= np[n].other + BufferSize
<1>1. Typed /\ Standing(n) /\ Counts(n)
  BY Counting DEF CountInv
<1>2. /\ np[n] \in PeerType /\ packed[n] \in Seq(Input) /\ asked \in Nat
      /\ Sent(n) \in Nat /\ Peer(n) \in Node
      /\ Frames \in Nat /\ Packets \in Nat /\ BufferSize = Frames + 1
  BY <1>1, SentIsNat, PeerIsNode, RingSize, NetplayAssumption DEF Typed
<1>3. /\ np[n].frame \in Nat /\ np[n].other \in Nat /\ np[n].read \in Nat /\ np[n].flipFrame \in Nat
  BY <1>2 DEF PeerType
<1>4. /\ np[n].frame <= Sent(n) /\ Sent(n) <= np[n].frame + 1 /\ np[n].other <= np[n].frame
      /\ np[n].other <= np[n].read /\ np[n].read <= Sent(n)
      /\ Sent(n) <= np[n].other + BufferSize
  <2>1. /\ Sent(n) = np[n].frame \/ Sent(n) = np[n].frame + 1
        /\ np[n].other <= np[n].frame /\ np[n].other <= np[n].read /\ np[n].read <= Sent(n)
        /\ np[n].frame + 1 <= np[n].other + BufferSize
    BY <1>1 DEF Standing, Counts
  <2>2. QED
    BY <1>2, <1>3, <2>1
<1>5. QED
  BY <1>2, <1>3, <1>4

\* Without a new flip the ports stay.
LEMMA FlipsSame ==
    ASSUME flips' = flips, NEW f
    PROVE  Game!Swapped(f)' = Game!Swapped(f)
  BY DEF Game!Swapped

\* The input of a frame stays if its parts do.
LEMMA JoinsSame ==
    ASSUME NEW n, NEW f, packed'[n][f + 1] = packed[n][f + 1], Took(n, f)' = Took(n, f),
           Game!Swapped(f)' = Game!Swapped(f)
    PROVE  Joins(n, f)' = Joins(n, f)
  BY DEF Joins, Ports

\* The input of all frames run so far is what it was.
Past(n) == \A f \in 0 .. np[n].frame - 1 : Joins(n, f)' = Joins(n, f)

\* States stay those of the game while the input of past frames does.
LEMMA StatesStay ==
    ASSUME CountInv, NEW n \in Node, States(n), Past(n),
           np'[n].core = np[n].core, np'[n].frame = np[n].frame, np'[n].other = np[n].other,
           packed'[n] = packed[n],
           \A f \in np[n].other .. Sent(n) - 1 : Slot(n, f)'.state = Slot(n, f).state
    PROVE  States(n)'
<1>1. /\ np[n].frame \in Nat /\ np[n].other \in Nat /\ Sent(n) \in Nat
      /\ Sent(n) <= np[n].frame + 1
  BY Numbers
<1>2. Sent(n)' = Sent(n)
  BY DEF Sent
<1>3. ASSUME NEW s, NEW k \in Nat, k <= np[n].frame, Plays(n, s, k)
      PROVE  Len(s) = k /\ \A j \in 1 .. k : s[j] = Joins(n, j - 1)'
  <2>1. Len(s) = k /\ \A j \in 1 .. k : s[j] = Joins(n, j - 1)
    BY <1>3 DEF Plays
  <2>2. \A j \in 1 .. k : j - 1 \in 0 .. np[n].frame - 1
    BY <1>1, <1>3
  <2>3. QED
    BY <2>1, <2>2 DEF Past
<1>4. Plays(n, np[n].core, np[n].frame)'
  <2>1. Plays(n, np[n].core, np[n].frame) /\ np[n].frame <= np[n].frame
    BY <1>1 DEF States
  <2>2. QED
    BY <1>1, <1>3, <2>1 DEF Plays
<1>5. ASSUME NEW f \in np[n].other .. Sent(n) - 1
      PROVE  Plays(n, Slot(n, f).state, f)'
  <2>1. f \in Nat /\ f <= np[n].frame
    BY <1>1
  <2>2. Plays(n, Slot(n, f).state, f)
    BY DEF States
  <2>3. QED
    BY <1>3, <2>1, <2>2 DEF Plays
<1>6. QED
  BY <1>2, <1>4, <1>5 DEF States

\* A step that is quiet for one peer and leaves the other alone keeps all games.
LEMMA QuietStep ==
    ASSUME GameInv, NEW n \in Node, NEW s, np' = [np EXCEPT ![n] = s], Quiet(n, s),
           packed' = packed, flips' = flips,
           \/ request' = request /\ asked' = asked
           \/ request # "acked" /\ request' # "acked"
    PROVE  DataKept /\ Resting
<1>1. CountInv /\ FlipsInv /\ \A m \in Node : Held(m) /\ States(m)
  BY DEF GameInv
<1>2. np'[n] = s /\ \A m \in Node \ {n} : np'[m] = np[m]
  BY <1>1 DEF CountInv, Typed
<1>3. \A m \in Node : /\ np'[m].frame = np[m].frame /\ np'[m].other = np[m].other
                      /\ np'[m].core = np[m].core /\ np'[m].flip = np[m].flip
                      /\ np'[m].flipFrame = np[m].flipFrame
  BY <1>2 DEF Quiet
<1>4. ASSUME NEW m \in Node, NEW f \in np[m].other .. Sent(m) - 1
      PROVE  /\ Fits(m, np[m], f)'
             /\ Slot(m, f)'.state = Slot(m, f).state
             /\ f < np[m].frame => Theirs(Slot(m, f))' = Theirs(Slot(m, f))
  <2>1. CASE m = n
    <3>1. Kept(n, s, f)
      BY <2>1 DEF Quiet
    <3>2. /\ Fits(n, s, f) /\ s.buffer[f % BufferSize].state = Slot(n, f).state
          /\ f < np[n].frame => Theirs(s.buffer[f % BufferSize]) = Theirs(Slot(n, f))
      BY <3>1 DEF Kept, Slot
    <3>3. QED
      BY <1>2, <2>1, <3>2 DEF Fits, Slot, Theirs, Given
  <2>2. CASE m # n
    <3>1. np'[m] = np[m] /\ Fits(m, np[m], f)
      BY <1>1, <1>2, <2>2 DEF Held
    <3>2. QED
      BY <3>1 DEF Fits, Slot, Theirs, Given
  <2>3. QED
    BY <2>1, <2>2
<1>5. ASSUME NEW m \in Node
      PROVE  Held(m)' /\ States(m)'
  <2>1. Sent(m)' = Sent(m)
    BY DEF Sent
  <2>2. Held(m)'
    BY <1>1, <1>3, <1>4, <2>1 DEF Held
  <2>3. Past(m)
    <3> SUFFICES ASSUME NEW f \in 0 .. np[m].frame - 1 PROVE Joins(m, f)' = Joins(m, f)
      BY DEF Past
    <3>1. CASE f < np[m].other
      <4>1. Took(m, f)' = Took(m, f)
        BY <1>3, <3>1 DEF Took, Given
      <4>2. QED
        BY <4>1, FlipsSame, JoinsSame
    <3>2. CASE ~ (f < np[m].other)
      <4>1. f \in np[m].other .. Sent(m) - 1 /\ f < np[m].frame
        BY <1>1, <3>2, Numbers
      <4>2. Took(m, f)' = Took(m, f)
        BY <1>3, <1>4, <3>2, <4>1 DEF Took
      <4>3. QED
        BY <4>2, FlipsSame, JoinsSame
    <3>3. QED
      BY <3>1, <3>2
  <2>4. States(m)'
    BY <1>1, <1>3, <1>4, <2>3, StatesStay
  <2>5. QED
    BY <2>2, <2>4
<1>6. FlipsInv'
  <2>1. \A m \in Node : Known(m)' = Known(m)
    BY DEF Known
  <2>2. \A m \in Node : Flipped(m)'
    BY <1>1, <1>3, <2>1 DEF FlipsInv, Flipped
  <2>3. (request = "acked" => asked \in flips)'
    BY <1>1 DEF FlipsInv
  <2>4. QED
    BY <1>1, <2>2, <2>3 DEF FlipsInv
<1>7. QED
  BY <1>3, <1>5, <1>6 DEF DataKept, Resting

-----------------------------------------------------------------------------
(* Parsing a packet                                                          *)

\* A peer in a poll, and one that only differs in what no frame is run on.
LEMMA QuietSame ==
    ASSUME NEW n \in Node, NEW r, Quiet(n, r), NEW s, s.buffer = r.buffer, s.read = r.read,
           s.frame = r.frame, s.other = r.other, s.core = r.core, s.flip = r.flip,
           s.flipFrame = r.flipFrame, s.pc # "run"
    PROVE  Quiet(n, s)
  BY DEF Quiet, Kept, Fits

\* A peer as it stands is quiet.
LEMMA QuietNow ==
    ASSUME GameInv, NEW n \in Node
    PROVE  Quiet(n, np[n])
  BY DEF Quiet, Kept, GameInv, Held

\* The frames in the ring of n have slots of their own.
LEMMA SlotsApart ==
    ASSUME CountInv, NEW n \in Node, NEW f \in np[n].other .. Sent(n) - 1,
           NEW g \in np[n].other .. Sent(n) - 1, f # g
    PROVE  f % BufferSize # g % BufferSize
<1>1. /\ f \in Nat /\ g \in Nat /\ f < g + BufferSize /\ g < f + BufferSize
      /\ f < g \/ g < f
  <2>1. /\ np[n].other \in Nat /\ Sent(n) \in Nat /\ BufferSize \in Nat
        /\ Sent(n) <= np[n].other + BufferSize
    BY Numbers
  <2>2. QED
    BY <2>1
<1>2. QED
  BY <1>1, OwnSlot

\* parse_packet puts the real input of a frame in its slot, where replay finds it.
LEMMA ParseKeeps ==
    ASSUME GameInv, NEW n \in Node, InPoll(n), NEW p \in Nat, NEW q, TakenIn(n, np[n], p, q),
           q.read <= Sent(n)
    PROVE  Quiet(n, q)
<1> DEFINE r == np[n]
<1>1. /\ q = [r EXCEPT !.buffer = q.buffer, !.readPtr = q.readPtr,
                       !.read = q.read, !.timeouts = q.timeouts]
      /\ r.read <= q.read /\ q.read \in Nat /\ r \in PeerType
      /\ \A f \in r.read .. q.read - 1 :
           q.buffer[f % BufferSize] =
             [r.buffer[f % BufferSize] EXCEPT !.isSimulated = FALSE,
                  !.real = packed[Peer(n)][f + 1]]
      /\ \A i \in 0 .. Frames :
           (\A f \in r.read .. q.read - 1 : f % BufferSize # i) => q.buffer[i] = r.buffer[i]
  <2>1. r \in PeerType /\ q \in PeerType
    BY Numbers DEF GameInv, TakenIn
  <2>2. q.read \in Nat
    BY <2>1 DEF PeerType
  <2>3. QED
    BY <2>1, <2>2 DEF TakenIn
<1>2. /\ CountInv /\ Held(n) /\ Quiet(n, r)
  BY QuietNow DEF GameInv
<1>3. /\ r.frame \in Nat /\ r.other \in Nat /\ r.read \in Nat /\ Sent(n) \in Nat
      /\ r.other <= r.read /\ Sent(n) = r.frame + 1 /\ r.read >= 1
      /\ BufferSize \in Nat \ {0} /\ BufferSize - 1 = Frames
  <2>1. Standing(n) /\ Counts(n)
    BY <1>2, Counting DEF CountInv
  <2>2. /\ r.frame \in Nat /\ r.other \in Nat /\ r.read \in Nat /\ Sent(n) \in Nat
        /\ r.other <= r.read /\ BufferSize = Frames + 1 /\ Frames \in Nat
    BY <1>2, Numbers
  <2>3. Sent(n) = r.frame + 1
    BY <2>1 DEF Standing, InPoll
  <2>4. Sent(n) > 0 => r.read >= 1
    BY <2>1 DEF Counts
  <2>5. QED
    BY <2>2, <2>3, <2>4
<1>4. /\ q.read \in Nat /\ r.read <= q.read /\ q.read <= Sent(n)
      /\ r.read \in Nat /\ r.other \in Nat /\ Sent(n) \in Nat /\ r.other <= r.read /\ r.read >= 1
  BY <1>1, <1>3
<1>5. /\ q.frame = r.frame /\ q.other = r.other /\ q.core = r.core /\ q.flip = r.flip
      /\ q.flipFrame = r.flipFrame /\ q.pc = r.pc
  BY <1>1 DEF PeerType
<1>6. r.pc # "run"
  BY DEF InPoll
<1>7. ASSUME NEW f \in r.other .. Sent(n) - 1 PROVE Kept(n, q, f)
  <2>1. f \in Nat /\ f % BufferSize \in 0 .. Frames /\ Fits(n, r, f)
    <3>1. f \in Nat
      BY <1>3
    <3>2. Fits(n, r, f)
      BY <1>2 DEF Held
    <3>3. f % BufferSize \in 0 .. BufferSize - 1
      BY <3>1, InRing
    <3>4. QED
      BY <1>3, <3>1, <3>2, <3>3
  <2>2. r.buffer[f % BufferSize] \in SlotType
    BY <1>1, <2>1 DEF PeerType
  <2> HIDE DEF r
  <2> DEFINE was == r.buffer[f % BufferSize]
             is == q.buffer[f % BufferSize]
  <2>3. CASE f \in r.read .. q.read - 1
    <3>1. is = [was EXCEPT !.isSimulated = FALSE, !.real = packed[Peer(n)][f + 1]]
      BY <1>1, <2>3
    <3>2. /\ is.isSimulated = FALSE /\ is.real = packed[Peer(n)][f + 1]
          /\ is.state = was.state /\ is.self = was.self
          /\ is.usedReal = was.usedReal /\ is.simulated = was.simulated
      <4> HIDE DEF was, is
      <4>1. was \in SlotType
        BY <2>2 DEF was
      <4>2. QED
        BY <3>1, <4>1 DEF SlotType
    <3>3. f >= r.read /\ f < q.read /\ f # 0
      BY <1>4, <2>1, <2>3
    <3>4. is.real = Given(Peer(n), f)
      BY <3>2, <3>3 DEF Given
    <3>5. /\ was.self = packed[n][f + 1]
          /\ f < r.frame => ~ was.usedReal
      BY <2>1, <3>3 DEF Fits
    <3>6. Fits(n, q, f)
      <4>1. ~ (f >= q.read)
        BY <1>4, <2>1, <3>3
      <4>2. QED
        BY <1>5, <1>6, <3>2, <3>4, <3>5, <4>1 DEF Fits, r
    <3>7. f < r.frame => Theirs(is) = Theirs(was)
      BY <3>2, <3>5 DEF Theirs
    <3>8. QED
      BY <3>2, <3>6, <3>7 DEF Kept, r
  <2>4. CASE f \notin r.read .. q.read - 1
    <3>1. \A g \in r.read .. q.read - 1 : g % BufferSize # f % BufferSize
      <4> SUFFICES ASSUME NEW g \in r.read .. q.read - 1 PROVE g % BufferSize # f % BufferSize
        OBVIOUS
      <4>1. g \in r.other .. Sent(n) - 1 /\ f # g
        BY <1>4, <2>4
      <4>2. QED
        BY <1>2, <4>1, SlotsApart DEF r
    <3>2. is = was
      BY <1>1, <2>1, <3>1
    <3>3. f < q.read <=> f < r.read
      BY <1>4, <2>1, <2>4
    <3>4. f >= q.read => f >= r.read
      BY <1>4, <2>1
    <3>5. Fits(n, q, f)
      BY <1>5, <1>6, <2>1, <3>2, <3>3, <3>4 DEF Fits
    <3>6. QED
      BY <3>2, <3>5 DEF Kept, r
  <2>5. QED
    BY <2>3, <2>4
<1>8. QED
  BY <1>5, <1>7 DEF Quiet

-----------------------------------------------------------------------------
(* The end of a poll                                                         *)

\* The end of netplay_poll predicts for the frame to run, or notes it is real.
LEMMA EndKeeps ==
    ASSUME GameInv, NEW n \in Node, InPoll(n), NEW r, Amid(n, r), r.read <= Sent(n), Quiet(n, r)
    PROVE  Quiet(n, EndPoll(r))
<1> DEFINE s == EndPoll(r)
           last == np[n].frame % BufferSize
<1>1. /\ CountInv /\ Standing(n) /\ Pointers(n) /\ r \in PeerType /\ PollOver(r, s)
      /\ SameCounts(np[n], r) /\ r.readPtr = r.read % BufferSize /\ np[n].read <= r.read
  BY PollEnds DEF GameInv, CountInv, Amid
<1>2. /\ np[n].frame \in Nat /\ np[n].other \in Nat /\ np[n].read \in Nat /\ r.read \in Nat
      /\ Sent(n) = np[n].frame + 1 /\ np[n].other <= np[n].read
      /\ BufferSize \in Nat \ {0} /\ BufferSize - 1 = Frames /\ np[n].other <= np[n].frame
      /\ Sent(n) <= np[n].other + BufferSize
  <2>1. Sent(n) = np[n].frame + 1
    BY <1>1 DEF Standing, InPoll
  <2>2. r.read \in Nat
    BY <1>1 DEF PeerType
  <2>3. QED
    BY <1>1, <2>1, <2>2, Numbers, RingSize
<1>3. /\ r.frame = np[n].frame /\ r.other = np[n].other /\ r.selfPtr = Sent(n) % BufferSize
      /\ r.otherPtr = np[n].other % BufferSize /\ r.core = np[n].core /\ r.flip = np[n].flip
      /\ r.flipFrame = np[n].flipFrame
  BY <1>1 DEF SameCounts, Pointers, Quiet
<1>4. PrevPtr(r.selfPtr) = last
  <2>1. Sent(n) \in Nat \ {0} /\ Sent(n) - 1 = np[n].frame
    BY <1>2
  <2>2. QED
    BY <1>3, <2>1, PrevOf
<1>5. last \in 0 .. Frames /\ r.buffer[last] \in SlotType
  <2>1. last \in 0 .. BufferSize - 1
    BY <1>2, InRing
  <2>2. last \in 0 .. Frames
    BY <1>2, <2>1
  <2>3. QED
    BY <1>1, <2>2 DEF PeerType
<1> HIDE DEF s
<1>6. /\ s = [r EXCEPT !.pc = s.pc, !.buffer = s.buffer]
      /\ s.pc = IF Full(r) /\ r.read = r.other THEN "lost" ELSE "run"
      /\ s.pc = "lost" => s.buffer = r.buffer
      /\ s.pc = "run" =>
           /\ \A i \in 0 .. Frames : i # last => s.buffer[i] = r.buffer[i]
           /\ s.buffer[last] =
                IF r.readPtr # r.selfPtr
                THEN Predict(r.buffer[last], r.buffer[PrevPtr(r.readPtr)].real)
                ELSE [r.buffer[last] EXCEPT !.usedReal = TRUE]
  BY <1>1, <1>4 DEF PollOver
<1>7. /\ s.read = r.read /\ s.frame = r.frame /\ s.other = r.other /\ s.core = r.core
      /\ s.flip = r.flip /\ s.flipFrame = r.flipFrame /\ s.pc \in {"lost", "run"}
  BY <1>1, <1>6 DEF PeerType
<1>8. CASE s.pc = "lost"
  <2>1. s.buffer = r.buffer /\ s.pc # "run"
    BY <1>6, <1>8
  <2>2. QED
    BY <1>7, <2>1, QuietSame DEF s
<1>9. CASE s.pc = "run"
  <2>1. ~ (Full(r) /\ r.read = r.other)
    BY <1>6, <1>9
  <2>2. r.readPtr = r.selfPtr <=> r.read = Sent(n)
    <3>1. r.read = Sent(n) => r.readPtr = r.selfPtr
      BY <1>1, <1>3
    <3>2. CASE r.read # Sent(n)
      <4>1. r.read < Sent(n) /\ Sent(n) \in Nat
        BY <1>2, <3>2
      <4>2. CASE Sent(n) < r.read + BufferSize
        <5>1. r.readPtr # r.selfPtr
          BY <1>1, <1>2, <1>3, <4>1, <4>2, OwnSlot
        <5>2. QED
          BY <3>2, <5>1
      <4>3. CASE ~ (Sent(n) < r.read + BufferSize)
        <5>1. Sent(n) = r.other + BufferSize /\ r.read = r.other
          BY <1>1, <1>2, <1>3, <4>1, <4>3
        <5>2. r.selfPtr = r.otherPtr
          BY <1>2, <1>3, <5>1, AroundTheRing
        <5>3. QED
          BY <2>1, <5>1, <5>2 DEF Full
      <4>4. QED
        BY <4>2, <4>3
    <3>3. QED
      BY <3>1, <3>2
  <2>3. ASSUME NEW f \in np[n].other .. Sent(n) - 1, f # np[n].frame
        PROVE  Kept(n, s, f)
    <3>1. f % BufferSize # last
      <4>1. np[n].frame \in np[n].other .. Sent(n) - 1
        BY <1>2
      <4>2. QED
        BY <1>1, <2>3, <4>1, SlotsApart
    <3>2. f % BufferSize \in 0 .. Frames /\ f < np[n].frame
      <4>1. f \in Nat /\ f < np[n].frame
        BY <1>2, <2>3
      <4>2. f % BufferSize \in 0 .. BufferSize - 1
        BY <4>1, InRing
      <4>3. QED
        BY <1>2, <4>1, <4>2
    <3>3. s.buffer[f % BufferSize] = r.buffer[f % BufferSize]
      BY <1>6, <1>9, <3>1, <3>2
    <3>4. Kept(n, r, f)
      BY DEF Quiet
    <3>5. QED
      BY <1>3, <1>7, <2>3, <3>2, <3>3, <3>4 DEF Kept, Fits
  <2>4. Kept(n, s, np[n].frame)
    <3> DEFINE was == r.buffer[last]
               is == s.buffer[last]
    <3>1. Kept(n, r, np[n].frame)
      <4>1. np[n].frame \in np[n].other .. Sent(n) - 1
        BY <1>2
      <4>2. QED
        BY <4>1 DEF Quiet
    <3>2. is = IF r.read # Sent(n)
               THEN Predict(was, r.buffer[PrevPtr(r.readPtr)].real)
               ELSE [was EXCEPT !.usedReal = TRUE]
      BY <1>6, <1>9, <2>2
    <3>3. /\ is.self = was.self /\ is.state = was.state /\ is.real = was.real
          /\ r.read # Sent(n) => is.isSimulated = TRUE /\ is.usedReal = FALSE
          /\ r.read = Sent(n) => is.isSimulated = was.isSimulated /\ is.usedReal = TRUE
      <4> HIDE DEF is, last
      <4>1. was \in SlotType
        BY <1>5
      <4> HIDE DEF was
      <4>2. QED
        BY <3>2, <4>1 DEF SlotType, Predict
    <3>4. /\ was.self = packed[n][np[n].frame + 1]
          /\ np[n].frame < r.read => ~was.isSimulated /\ was.real = Given(Peer(n), np[n].frame)
          /\ was.state = np[n].buffer[last].state
      BY <3>1 DEF Kept, Fits
    <3>5. np[n].frame < r.read <=> r.read = Sent(n)
      BY <1>2
    <3>6. ~ (np[n].frame < r.read) <=> np[n].frame >= r.read
      BY <1>2
    <3>7. ~ (np[n].frame < np[n].frame)
      BY <1>2
    <3> HIDE DEF is, was, last
    <3>8. Fits(n, s, np[n].frame)
      BY <1>3, <1>7, <1>9, <3>3, <3>4, <3>5, <3>6 DEF Fits, is, last
    <3>9. QED
      BY <3>3, <3>4, <3>7, <3>8 DEF Kept, is, last
  <2>5. \A f \in np[n].other .. Sent(n) - 1 : Kept(n, s, f)
    BY <2>3, <2>4
  <2>6. QED
    BY <1>3, <1>7, <2>5 DEF Quiet, s
<1>10. QED
  BY <1>7, <1>8, <1>9

-----------------------------------------------------------------------------
(* Quiet steps                                                               *)

\* The counting of a poll disturbs nothing.
LEMMA CountingKeeps ==
    ASSUME GameInv, NEW n \in Node, InPoll(n), NEW t \in 0 .. Retries,
           NEW r, r = [np[n] EXCEPT !.timeouts = t]
    PROVE  Amid(n, r) /\ r.read <= Sent(n) /\ Quiet(n, r)
<1>1. CountInv /\ np[n] \in PeerType /\ Quiet(n, np[n])
  BY QuietNow DEF GameInv, CountInv, Typed
<1>2. Amid(n, r) /\ r.read <= Sent(n) /\ r.pc = np[n].pc
  BY <1>1, PollingNow
<1>3. /\ r.buffer = np[n].buffer /\ r.read = np[n].read /\ r.frame = np[n].frame
      /\ r.other = np[n].other /\ r.core = np[n].core /\ r.flip = np[n].flip
      /\ r.flipFrame = np[n].flipFrame /\ r.pc # "run"
  BY <1>1, <1>2 DEF PeerType, InPoll
<1>4. QED
  BY <1>1, <1>2, <1>3, QuietSame

\* poll_input gives up.
LEMMA GivingUpKeeps ==
    ASSUME GameInv, NEW n \in Node, InPoll(n), NEW t \in 0 .. Retries,
           NEW r, r = [np[n] EXCEPT !.timeouts = t]
    PROVE  Quiet(n, GiveUp(r))
<1>1. Amid(n, r) /\ r.read <= Sent(n) /\ Quiet(n, r) /\ r \in PeerType
  BY CountingKeeps DEF Amid
<1>2. CASE r.pc = "first"
  <2> DEFINE s == [r EXCEPT !.pc = "offline"]
  <2>1. GiveUp(r) = s
    BY <1>2 DEF GiveUp
  <2>2. /\ s.buffer = r.buffer /\ s.read = r.read /\ s.frame = r.frame
        /\ s.other = r.other /\ s.core = r.core /\ s.flip = r.flip
        /\ s.flipFrame = r.flipFrame /\ s.pc # "run"
    BY <1>1 DEF PeerType
  <2> HIDE DEF s
  <2>3. QED
    BY <1>1, <2>1, <2>2, QuietSame
<1>3. CASE r.pc # "first"
  <2>1. GiveUp(r) = EndPoll(r)
    BY <1>3 DEF GiveUp
  <2>2. QED
    BY <1>1, <2>1, EndKeeps
<1>4. QED
  BY <1>2, <1>3

\* A poll that finds nothing and need not wait.
LEMMA NothingKeeps ==
    ASSUME GameInv, NEW n \in Node, PollNothing(n)
    PROVE  DataKept /\ Resting
<1> DEFINE r == [np[n] EXCEPT !.timeouts = Counted(np[n].timeouts)]
<1>1. /\ InPoll(n) /\ np' = [np EXCEPT ![n] = EndPoll(r)]
      /\ UNCHANGED <<packed, wire, request, asked, flips>>
  BY DEF PollNothing
<1>2. Counted(np[n].timeouts) \in 0 .. Retries
  BY CountedInRange DEF GameInv, CountInv, Typed, PeerType
<1> HIDE DEF r
<1>3. Quiet(n, EndPoll(r))
  <2>1. Amid(n, r) /\ r.read <= Sent(n) /\ Quiet(n, r)
    BY <1>1, <1>2, CountingKeeps DEF r
  <2>2. QED
    BY <1>1, <2>1, EndKeeps
<1>4. QED
  BY <1>1, <1>3, QuietStep

\* The other process has ended.
LEMMA EofKeeps ==
    ASSUME GameInv, NEW n \in Node, PollEof(n)
    PROVE  DataKept /\ Resting
<1> DEFINE r == [np[n] EXCEPT !.timeouts = Counted(np[n].timeouts)]
<1>1. /\ InPoll(n) /\ np' = [np EXCEPT ![n] = GiveUp(r)]
      /\ UNCHANGED <<packed, wire, request, asked, flips>>
  BY DEF PollEof
<1>2. Counted(np[n].timeouts) \in 0 .. Retries
  BY CountedInRange DEF GameInv, CountInv, Typed, PeerType
<1> HIDE DEF r
<1>3. Quiet(n, GiveUp(r))
  BY <1>1, <1>2, GivingUpKeeps DEF r
<1>4. QED
  BY <1>1, <1>3, QuietStep

\* A poll that waits times out.
LEMMA TimeoutKeeps ==
    ASSUME GameInv, NEW n \in Node, PollTimeout(n)
    PROVE  DataKept /\ Resting
<1> DEFINE r == [np[n] EXCEPT !.timeouts = Counted(np[n].timeouts)]
           s == IF r.timeouts < Retries THEN r ELSE GiveUp(r)
<1>1. /\ InPoll(n) /\ np' = [np EXCEPT ![n] = s]
      /\ UNCHANGED <<packed, request, asked, flips>>
  BY DEF PollTimeout
<1>2. Counted(np[n].timeouts) \in 0 .. Retries
  BY CountedInRange DEF GameInv, CountInv, Typed, PeerType
<1>3. Quiet(n, r) /\ Quiet(n, GiveUp(r))
  <2> DEFINE t == Counted(np[n].timeouts)
  <2>1. t \in 0 .. Retries /\ r = [np[n] EXCEPT !.timeouts = t]
    BY <1>2
  <2> HIDE DEF r, t
  <2>2. QED
    BY <1>1, <2>1, CountingKeeps, GivingUpKeeps
<1> HIDE DEF r
<1>4. Quiet(n, s)
  BY <1>3
<1> HIDE DEF s
<1>5. QED
  BY <1>1, <1>4, QuietStep

\* A poll takes in a packet.
LEMMA PacketKeeps ==
    ASSUME GameInv, NEW n \in Node, NEW p, PollPacket(n, p)
    PROVE  DataKept /\ Resting
<1> DEFINE r == np[n]
           q == ParsePacket(n, r, p)
           s == [q EXCEPT !.hasAddr = TRUE,
                   !.firstRead = IF r.pc = "first" THEN r.read ELSE @]
           t == IF s.read <= s.frame THEN [s EXCEPT !.pc = "again"] ELSE EndPoll(s)
<1>1. /\ InPoll(n) /\ p \in wire[Peer(n)] /\ np' = [np EXCEPT ![n] = t]
      /\ UNCHANGED <<packed, wire, request, asked, flips>>
  BY DEF PollPacket
<1>2. /\ Typed /\ Standing(n) /\ Pointers(n) /\ Counts(n)
      /\ Standing(Peer(n)) /\ Peer(n) \in Node /\ np[n] \in PeerType
  BY Counting, PeerIsNode DEF GameInv, CountInv, Typed
<1>3. p \in Nat /\ p < Len(packed[Peer(n)])
  <2>1. wire[Peer(n)] \subseteq 0 .. Sent(Peer(n)) - 1 /\ Sent(Peer(n)) \in Nat
    BY <1>2, SentIsNat DEF Standing
  <2>2. QED
    BY <1>1, <2>1 DEF Sent
<1>4. /\ r.readPtr = r.read % BufferSize
      /\ r.read <= r.frame /\ r.frame + 1 <= r.read + BufferSize
      /\ Sent(n) = r.frame + 1
  <2>1. /\ r.read <= r.frame /\ r.other <= r.read /\ r.frame + 1 <= r.other + BufferSize
        /\ Sent(n) = r.frame + 1
    BY <1>1, <1>2 DEF Standing, Counts, InPoll
  <2>2. r.read \in Nat /\ r.frame \in Nat /\ r.other \in Nat /\ BufferSize \in Nat
    BY <1>2, RingSize DEF PeerType
  <2>3. QED
    BY <1>2, <2>1, <2>2 DEF Pointers
<1>5. TakenIn(n, r, p, q)
  <2>1. packed \in [Node -> Seq(Input)] /\ r \in PeerType
    BY <1>2 DEF Typed
  <2> HIDE DEF r
  <2>2. QED
    BY <1>3, <1>4, <2>1, ParseTakesIn
<1>6. /\ q \in PeerType
      /\ q = [r EXCEPT !.buffer = q.buffer, !.readPtr = q.readPtr,
                       !.read = q.read, !.timeouts = q.timeouts]
      /\ r.read <= q.read /\ q.read <= r.frame + 1
      /\ q.readPtr = q.read % BufferSize
  BY <1>5 DEF TakenIn
<1> HIDE DEF q
<1>7. Quiet(n, q)
  BY <1>1, <1>3, <1>4, <1>5, <1>6, ParseKeeps
<1>8. /\ s \in PeerType /\ s.read = q.read /\ s.pc = r.pc
      /\ s.readPtr = q.readPtr /\ SameCounts(r, s)
      /\ s.firstRead = IF r.pc = "first" THEN r.read ELSE r.firstRead
      /\ s.buffer = q.buffer /\ s.frame = q.frame /\ s.other = q.other /\ s.core = q.core
      /\ s.flip = q.flip /\ s.flipFrame = q.flipFrame
  BY <1>2, <1>6 DEF PeerType, SameCounts
<1> HIDE DEF s
<1>9. Quiet(n, s)
  <2>1. s.pc # "run"
    BY <1>1, <1>8 DEF InPoll
  <2>2. QED
    BY <1>7, <1>8, <2>1, QuietSame
<1>10. Quiet(n, t)
  <2>1. CASE s.read <= s.frame
    <3> DEFINE again == [s EXCEPT !.pc = "again"]
    <3>1. t = again
      BY <2>1
    <3>2. /\ again.buffer = s.buffer /\ again.read = s.read /\ again.frame = s.frame
          /\ again.other = s.other /\ again.core = s.core /\ again.flip = s.flip
          /\ again.flipFrame = s.flipFrame /\ again.pc # "run"
      BY <1>8 DEF PeerType
    <3> HIDE DEF again, t
    <3>3. QED
      BY <1>9, <3>1, <3>2, QuietSame
  <2>2. CASE ~ (s.read <= s.frame)
    <3>1. t = EndPoll(s)
      BY <2>2
    <3>2. /\ r.firstRead <= r.read /\ r.firstRead \in Nat /\ r.read \in Nat /\ q.read \in Nat
          /\ r.frame \in Nat
      BY <1>2, <1>6 DEF Standing, PeerType
    <3>3. s.firstRead <= s.read
      BY <1>6, <1>8, <3>2
    <3>4. Amid(n, s) /\ s.read <= Sent(n)
      BY <1>1, <1>4, <1>6, <1>8, <3>3 DEF Amid, InPoll
    <3>5. QED
      BY <1>1, <1>9, <3>1, <3>4, EndKeeps
  <2>3. QED
    BY <2>1, <2>2
<1> HIDE DEF t
<1>11. QED
  BY <1>1, <1>10, QuietStep

\* A peer that goes elsewhere with all it has.
LEMMA TurnKeeps ==
    ASSUME GameInv, NEW n \in Node, NEW where, where # "run",
           np' = [np EXCEPT ![n] = [np[n] EXCEPT !.pc = where]],
           packed' = packed, flips' = flips,
           \/ request' = request /\ asked' = asked
           \/ request # "acked" /\ request' # "acked"
    PROVE  DataKept /\ Resting
<1> DEFINE s == [np[n] EXCEPT !.pc = where]
<1>1. Quiet(n, np[n]) /\ np[n] \in PeerType
  BY QuietNow DEF GameInv, CountInv, Typed
<1>2. /\ s.buffer = np[n].buffer /\ s.read = np[n].read /\ s.frame = np[n].frame
      /\ s.other = np[n].other /\ s.core = np[n].core /\ s.flip = np[n].flip
      /\ s.flipFrame = np[n].flipFrame /\ s.pc # "run"
  BY <1>1 DEF PeerType
<1> HIDE DEF s
<1>3. Quiet(n, s)
  BY <1>1, <1>2, QuietSame
<1>4. QED
  BY <1>3, QuietStep DEF s

\* Socket errors and processes that end.
LEMMA LeavesKeeps ==
    ASSUME GameInv, NEW n \in Node, SocketError(n) \/ Quit(n)
    PROVE  DataKept /\ Resting
  BY TurnKeeps DEF SocketError, Quit

\* netplay_flip_users asks for a flip.
LEMMA FlipUsersKeeps ==
    ASSUME GameInv, FlipUsers
    PROVE  DataKept /\ Resting
<1>1. /\ "host" \in Node
      /\ np' = [np EXCEPT !["host"] = [np["host"] EXCEPT !.pc = "response"]]
      /\ packed' = packed /\ flips' = flips /\ request' = "asked"
  BY DEF FlipUsers, Node
<1>2. request # "acked"
  <2>1. Standing("host") /\ np["host"].pc = "idle"
    BY <1>1 DEF FlipUsers, GameInv, CountInv
  <2>2. QED
    BY <2>1 DEF Standing
<1>3. QED
  BY <1>1, <1>2, TurnKeeps

\* The host gets no flip for its answer.
LEMMA NoAnswerKeeps ==
    ASSUME GameInv, GetResponse, request # "acked"
    PROVE  DataKept /\ Resting
<1>1. /\ "host" \in Node
      /\ np' = [np EXCEPT !["host"] = [np["host"] EXCEPT !.pc = "idle"]]
      /\ packed' = packed /\ flips' = flips /\ request' = "none"
  BY DEF GetResponse, Node
<1>2. QED
  BY <1>1, TurnKeeps

-----------------------------------------------------------------------------
(* A frame starts                                                            *)

\* n has saved its state and put input i on record, and has become s.
Started(n, i, s) ==
    LET r == np[n]
        last == r.frame % BufferSize
        slot == s.buffer[last] IN
    /\ s.frame = r.frame /\ s.other = r.other /\ s.core = r.core
    /\ s.flip = r.flip /\ s.flipFrame = r.flipFrame
    /\ s.read = IF r.frame = 0 THEN 1 ELSE r.read
    /\ s.pc = IF r.frame = 0 THEN "run" ELSE "first"
    /\ \A j \in 0 .. Frames : j # last => s.buffer[j] = r.buffer[j]
    /\ slot.state = r.core /\ slot.self = i
    /\ r.frame = 0 => i = NoInput /\ ~slot.isSimulated /\ slot.usedReal /\ slot.real = NoInput

\* netplay_pre_frame saves the state of the core and its own input in the next slot.
LEMMA FrameStarts ==
    ASSUME CountInv, NEW n \in Node, NEW i \in Input, PreFrame(n, i)
    PROVE  /\ \E s : np' = [np EXCEPT ![n] = s] /\ Started(n, i, s)
           /\ packed' = [packed EXCEPT ![n] = Append(@, i)]
           /\ UNCHANGED <<request, asked, flips>>
           /\ np[n].pc = "idle"
<1> DEFINE r == np[n]
           slot == [r.buffer[r.selfPtr] EXCEPT !.state = r.core, !.self = i]
           zero == [slot EXCEPT !.usedReal = TRUE, !.isSimulated = FALSE, !.real = NoInput]
           first == [r EXCEPT !.buffer[0] = zero,
                               !.selfPtr = NextPtr(@), !.readPtr = NextPtr(@),
                               !.read = @ + 1, !.pc = "run"]
           later == [r EXCEPT !.buffer[r.selfPtr] = slot,
                               !.selfPtr = NextPtr(@), !.pc = "first"]
<1>1. /\ r.pc = "idle" /\ packed' = [packed EXCEPT ![n] = Append(@, i)]
      /\ UNCHANGED <<request, asked, flips>>
      /\ r.frame = 0 => np' = [np EXCEPT ![n] = first] /\ i = NoInput
      /\ r.frame # 0 => np' = [np EXCEPT ![n] = later]
  BY DEF PreFrame
<1>2. /\ Standing(n) /\ Pointers(n) /\ Counts(n) /\ r \in PeerType
  BY Counting DEF CountInv, Typed
<1>3. /\ r.selfPtr = r.frame % BufferSize /\ r.selfPtr \in 0 .. Frames
      /\ r.buffer[r.selfPtr] \in SlotType /\ DOMAIN r.buffer = 0 .. Frames
      /\ r.core \in Games
  <2>1. Sent(n) = r.frame
    BY <1>1, <1>2 DEF Standing
  <2>2. r.selfPtr \in 0 .. Frames
    BY <1>2 DEF PeerType
  <2>3. QED
    BY <1>2, <2>1, <2>2 DEF Pointers, PeerType
<1>4. /\ slot.state = r.core /\ slot.self = i /\ zero.state = r.core /\ zero.self = i
      /\ zero.usedReal = TRUE /\ zero.isSimulated = FALSE /\ zero.real = NoInput
  <2> DEFINE old == r.buffer[r.selfPtr]
  <2>1. old \in SlotType /\ slot = [old EXCEPT !.state = r.core, !.self = i]
    BY <1>3
  <2> HIDE DEF old, r, slot
  <2>2. slot.state = r.core /\ slot.self = i
        /\ slot = [state |-> r.core, self |-> i, real |-> old.real, simulated |-> old.simulated,
                   isSimulated |-> old.isSimulated, usedReal |-> old.usedReal]
    BY <2>1 DEF SlotType
  <2>3. QED
    BY <2>2
<1>5. CASE r.frame = 0
  <2>1. r.selfPtr = 0 /\ r.read = 0
    <3>1. Sent(n) = 0
      BY <1>1, <1>2, <1>5 DEF Standing
    <3>2. r.read = 0
      BY <1>2, <3>1 DEF Counts, PeerType
    <3>3. 0 % BufferSize = 0
      <4>1. 0 = BufferSize * 0 + 0 /\ 0 \in 0 .. BufferSize - 1
        BY RingSize
      <4>2. QED
        BY <4>1, OneRemainder
    <3>4. QED
      BY <1>3, <1>5, <3>2, <3>3
  <2> DEFINE ring == [r.buffer EXCEPT ![0] = zero]
  <2>2. first = [r EXCEPT !.buffer = ring, !.selfPtr = NextPtr(r.selfPtr),
                    !.readPtr = NextPtr(r.readPtr), !.read = r.read + 1, !.pc = "run"]
    OBVIOUS
  <2>3. /\ ring[0] = zero /\ \A j \in 0 .. Frames : j # 0 => ring[j] = r.buffer[j]
    BY <1>3, <2>1
  <2> HIDE DEF ring, zero, slot
  <2>4. /\ first.frame = r.frame /\ first.other = r.other /\ first.core = r.core
        /\ first.flip = r.flip /\ first.flipFrame = r.flipFrame
        /\ first.read = r.read + 1 /\ first.pc = "run" /\ first.buffer = ring
    <3> HIDE DEF first, r
    <3>1. r \in PeerType
      BY <1>2 DEF r
    <3>2. QED
      BY <2>2, <3>1 DEF PeerType
  <2> HIDE DEF first
  <2>5. Started(n, i, first)
    <3>1. first.read = 1
      BY <2>1, <2>4
    <3>2. r.frame % BufferSize = 0
      BY <1>3, <2>1
    <3>3. QED
      BY <1>1, <1>4, <1>5, <2>3, <2>4, <3>1, <3>2 DEF Started
  <2>6. QED
    BY <1>1, <1>5, <2>5
<1>6. CASE r.frame # 0
  <2> DEFINE ring == [r.buffer EXCEPT ![r.selfPtr] = slot]
  <2>1. later = [r EXCEPT !.buffer = ring, !.selfPtr = NextPtr(r.selfPtr), !.pc = "first"]
    OBVIOUS
  <2>2. /\ ring[r.selfPtr] = slot
        /\ \A j \in 0 .. Frames : j # r.selfPtr => ring[j] = r.buffer[j]
    BY <1>3
  <2> HIDE DEF ring, zero, slot
  <2>3. /\ later.frame = r.frame /\ later.other = r.other /\ later.core = r.core
        /\ later.flip = r.flip /\ later.flipFrame = r.flipFrame
        /\ later.read = r.read /\ later.pc = "first" /\ later.buffer = ring
    <3> HIDE DEF later, r
    <3>1. r \in PeerType
      BY <1>2 DEF r
    <3>2. QED
      BY <2>1, <3>1 DEF PeerType
  <2> HIDE DEF later
  <2>4. Started(n, i, later)
    BY <1>3, <1>4, <1>6, <2>2, <2>3 DEF Started
  <2>5. QED
    BY <1>1, <1>6, <2>4
<1>7. QED
  BY <1>1, <1>5, <1>6

\* The state it saves is the game so far.
LEMMA PreFrameKeeps ==
    ASSUME GameInv, NEW n \in Node, NEW i \in Input, PreFrame(n, i)
    PROVE  DataKept
<1> DEFINE r == np[n]
<1>1. PICK k : k = r.frame
  OBVIOUS
<1> DEFINE last == k % BufferSize
<1>2. PICK s : np' = [np EXCEPT ![n] = s] /\ Started(n, i, s)
  BY FrameStarts DEF GameInv
<1>3. /\ packed' = [packed EXCEPT ![n] = Append(@, i)]
      /\ request' = request /\ asked' = asked /\ flips' = flips /\ r.pc = "idle"
  BY FrameStarts DEF GameInv
<1>4. /\ CountInv /\ FlipsInv /\ Typed /\ Standing(n) /\ Counts(n) /\ Held(n) /\ States(n)
  BY Counting DEF GameInv, CountInv
<1>5. /\ np'[n] = s /\ \A m \in Node \ {n} : np'[m] = np[m] /\ packed'[m] = packed[m]
      /\ packed'[n] = Append(packed[n], i)
  BY <1>2, <1>3, <1>4 DEF Typed
<1>6. /\ k \in Nat /\ r.read \in Nat /\ r.other \in Nat /\ Sent(n) = k
      /\ r.other = r.read /\ r.other <= k /\ k + 1 <= r.other + BufferSize
      /\ packed[n] \in Seq(Input) /\ Len(packed[n]) = k
      /\ BufferSize \in Nat \ {0} /\ BufferSize - 1 = Frames
  <2>1. Sent(n) = r.frame /\ r.other = r.read /\ r.frame + 1 <= r.other + BufferSize
    BY <1>3, <1>4 DEF Standing, Counts
  <2>2. QED
    BY <1>1, <1>4, <2>1, Numbers, RingSize DEF Sent
<1>7. /\ Sent(n)' = k + 1
      /\ \A f \in 0 .. k - 1 : packed'[n][f + 1] = packed[n][f + 1]
      /\ packed'[n][k + 1] = i
  <2>1. Len(packed'[n]) = k + 1
    BY <1>5, <1>6
  <2>2. \A j \in 1 .. k : packed'[n][j] = packed[n][j]
    BY <1>5, <1>6
  <2>3. packed'[n][k + 1] = i
    BY <1>5, <1>6
  <2>4. \A f \in 0 .. k - 1 : f + 1 \in 1 .. k
    BY <1>6
  <2>5. QED
    BY <2>1, <2>2, <2>3, <2>4 DEF Sent
<1>8. \A f \in Nat : f < k \/ f = 0 => Given(n, f)' = Given(n, f)
  <2> SUFFICES ASSUME NEW f \in Nat, f < k, f # 0 PROVE Given(n, f)' = Given(n, f)
    BY DEF Given
  <2>1. f \in 0 .. k - 1
    BY <1>6
  <2>2. QED
    BY <1>7, <2>1 DEF Given
<1>9. /\ s.frame = k /\ s.other = r.other /\ s.core = r.core
      /\ s.flip = r.flip /\ s.flipFrame = r.flipFrame
      /\ s.read = IF k = 0 THEN 1 ELSE r.read
      /\ s.pc = IF k = 0 THEN "run" ELSE "first"
      /\ \A j \in 0 .. Frames : j # last => s.buffer[j] = r.buffer[j]
      /\ s.buffer[last].state = r.core /\ s.buffer[last].self = i
      /\ k = 0 => /\ i = NoInput /\ ~s.buffer[last].isSimulated
                  /\ s.buffer[last].usedReal /\ s.buffer[last].real = NoInput
  BY <1>1, <1>2 DEF Started
<1>10. \A f \in r.other .. k - 1 : s.buffer[f % BufferSize] = r.buffer[f % BufferSize]
  <2> SUFFICES ASSUME NEW f \in r.other .. k - 1
               PROVE  s.buffer[f % BufferSize] = r.buffer[f % BufferSize]
    OBVIOUS
  <2>1. f \in Nat /\ f < k /\ k < f + BufferSize
    BY <1>6
  <2>2. f % BufferSize # last
    BY <1>6, <2>1, OwnSlot
  <2>3. f % BufferSize \in 0 .. BufferSize - 1
    BY <2>1, InRing
  <2>4. QED
    BY <1>6, <1>9, <2>2, <2>3
<1>11. Held(n)' /\ States(n)'
  <2>1. (packed[n] # <<>> => packed[n][1] = NoInput)'
    <3>1. CASE k = 0
      BY <1>7, <1>9, <3>1
    <3>2. CASE k # 0
      <4>1. 0 \in 0 .. k - 1 /\ packed[n] # <<>>
        BY <1>6, <3>2
      <4>2. packed[n][1] = NoInput
        BY <1>4, <4>1 DEF Held
      <4>3. packed'[n][0 + 1] = packed[n][0 + 1]
        BY <1>7, <4>1
      <4>4. QED
        BY <4>2, <4>3
    <3>3. QED
      BY <3>1, <3>2
  <2>2. ASSUME NEW f \in r.other .. k - 1 PROVE Fits(n, np[n], f)'
    <3>1. Fits(n, r, f) /\ f \in 0 .. k - 1 /\ f \in Nat /\ f >= r.read /\ f < k
      BY <1>4, <1>6 DEF Held
    <3>2. k # 0 /\ ~ (f < r.read) /\ f # k
      BY <1>6, <3>1
    <3>3. s.read = r.read /\ s.pc # "run"
      BY <1>9, <3>2
    <3>4. packed'[n][f + 1] = packed[n][f + 1] /\ s.buffer[f % BufferSize] = r.buffer[f % BufferSize]
      BY <1>7, <1>10, <3>1
    <3>5. QED
      BY <1>1, <1>5, <1>9, <3>1, <3>2, <3>3, <3>4 DEF Fits
  <2>3. Fits(n, np[n], k)'
    <3>1. CASE k = 0
      <4>1. s.read = 1 /\ ~ (k >= 1) /\ k < 1
        BY <1>9, <3>1
      <4>2. Given(Peer(n), k)' = NoInput
        BY <3>1 DEF Given
      <4>3. QED
        BY <1>5, <1>7, <1>9, <3>1, <4>1, <4>2 DEF Fits
    <3>2. CASE k # 0
      <4>1. s.read = r.read /\ s.pc # "run" /\ ~ (k < r.read) /\ ~ (k < k)
        BY <1>6, <1>9, <3>2
      <4>2. QED
        BY <1>5, <1>7, <1>9, <4>1 DEF Fits
    <3>3. QED
      BY <3>1, <3>2
  <2>4. \A f \in r.other .. k : f = k \/ f \in r.other .. k - 1
    BY <1>6
  <2>5. Held(n)'
    <3>1. \A f \in r.other .. k : Fits(n, np[n], f)'
      BY <2>2, <2>3, <2>4
    <3>2. (np[n].other .. Sent(n) - 1)' = r.other .. k
      BY <1>5, <1>6, <1>7, <1>9
    <3>3. QED
      BY <2>1, <3>1, <3>2 DEF Held
  <2>6. ASSUME NEW f \in 0 .. k - 1 PROVE Joins(n, f)' = Joins(n, f)
    <3>1. Peer(n) \in Node \ {n}
      BY PeerIsNode
    <3>2. Took(n, f)' = Took(n, f)
      <4>1. CASE f < r.other
        <5>1. Given(Peer(n), f)' = Given(Peer(n), f)
          BY <1>5, <3>1 DEF Given
        <5>2. QED
          BY <1>5, <1>9, <4>1, <5>1 DEF Took
      <4>2. CASE ~ (f < r.other)
        <5>1. f \in r.other .. k - 1
          BY <1>6, <4>2
        <5>2. Slot(n, f)' = Slot(n, f)
          BY <1>5, <1>10, <5>1 DEF Slot
        <5>3. QED
          BY <1>5, <1>9, <4>2, <5>2 DEF Took, Theirs
      <4>3. QED
        BY <4>1, <4>2
    <3>3. packed'[n][f + 1] = packed[n][f + 1]
      BY <1>7
    <3>4. QED
      BY <1>3, <3>2, <3>3, FlipsSame, JoinsSame
  <2>7. ASSUME NEW z, NEW g \in Nat, g <= k, Plays(n, z, g)
        PROVE  Len(z) = g /\ \A j \in 1 .. g : z[j] = Joins(n, j - 1)'
    <3>1. Len(z) = g /\ \A j \in 1 .. g : z[j] = Joins(n, j - 1)
      BY <2>7 DEF Plays
    <3>2. \A j \in 1 .. g : j - 1 \in 0 .. k - 1
      BY <1>6, <2>7
    <3>3. QED
      BY <2>6, <3>1, <3>2
  <2>8. Plays(n, np[n].core, np[n].frame)'
    <3>1. Plays(n, r.core, k) /\ k <= k
      BY <1>1, <1>4, <1>6 DEF States
    <3>2. Len(r.core) = k /\ \A j \in 1 .. k : r.core[j] = Joins(n, j - 1)'
      BY <1>6, <2>7, <3>1
    <3>3. np'[n].core = r.core /\ np'[n].frame = k
      BY <1>5, <1>9
    <3>4. QED
      BY <3>2, <3>3 DEF Plays
  <2>9. ASSUME NEW f \in r.other .. k PROVE Plays(n, Slot(n, f).state, f)'
    <3>1. CASE f = k
      <4>1. Slot(n, f)'.state = np'[n].core
        BY <1>5, <1>9, <3>1 DEF Slot
      <4>2. np'[n].frame = f
        BY <1>5, <1>9, <3>1
      <4>3. QED
        BY <2>8, <4>1, <4>2 DEF Plays
    <3>2. CASE f \in r.other .. k - 1
      <4>1. Slot(n, f)' = Slot(n, f)
        BY <1>5, <1>10, <3>2 DEF Slot
      <4>2. Plays(n, Slot(n, f).state, f) /\ f \in Nat /\ f <= k
        BY <1>4, <1>6, <3>2 DEF States
      <4>3. QED
        BY <2>7, <4>1, <4>2 DEF Plays
    <3>3. QED
      BY <2>4, <3>1, <3>2
  <2>10. States(n)'
    <3>1. (np[n].other .. Sent(n) - 1)' = r.other .. k
      BY <1>5, <1>6, <1>7, <1>9
    <3>2. QED
      BY <2>8, <2>9, <3>1 DEF States
  <2>11. QED
    BY <2>5, <2>10
<1>12. ASSUME NEW m \in Node \ {n} PROVE Held(m)' /\ States(m)'
  <2>1. /\ np'[m] = np[m] /\ packed'[m] = packed[m] /\ Sent(m)' = Sent(m) /\ Peer(m) = n
        /\ Held(m) /\ States(m) /\ Counts(m)
    <3>1. Peer(m) = n
      BY DEF Peer, Node
    <3>2. QED
      BY <1>4, <1>5, <3>1, Counting DEF GameInv, Sent
  <2>2. /\ np[m].read \in Nat /\ np[m].other \in Nat /\ np[m].other <= np[m].read
        /\ Sent(m) \in Nat /\ np[m].frame \in Nat /\ np[m].frame <= Sent(m)
    BY <1>4, Numbers
  <2>3. \A f \in Nat : f < np[m].read => Given(n, f)' = Given(n, f)
    <3> SUFFICES ASSUME NEW f \in Nat, f < np[m].read PROVE f < k \/ f = 0
      BY <1>8
    <3>1. np[m].read <= 1 \/ np[m].read <= k
      BY <1>6, <2>1 DEF Counts
    <3>2. QED
      BY <1>6, <2>2, <3>1
  <2>4. ASSUME NEW f \in np[m].other .. Sent(m) - 1 PROVE Fits(m, np[m], f)'
    <3>1. Fits(m, np[m], f) /\ f \in Nat
      BY <2>1, <2>2 DEF Held
    <3>2. f < np[m].read => Given(Peer(m), f)' = Given(Peer(m), f)
      BY <2>1, <2>3, <3>1
    <3>3. QED
      BY <2>1, <3>1, <3>2 DEF Fits
  <2>5. Held(m)'
    BY <2>1, <2>4 DEF Held
  <2>6. Past(m)
    <3> SUFFICES ASSUME NEW f \in 0 .. np[m].frame - 1 PROVE Joins(m, f)' = Joins(m, f)
      BY DEF Past
    <3>1. f < np[m].other => Given(Peer(m), f)' = Given(Peer(m), f)
      <4>1. f \in Nat /\ (f < np[m].other => f < np[m].read)
        BY <2>2
      <4>2. QED
        BY <2>1, <2>3, <4>1
    <3>2. Took(m, f)' = Took(m, f)
      BY <2>1, <3>1 DEF Took, Theirs, Slot
    <3>3. QED
      BY <1>3, <2>1, <3>2, FlipsSame, JoinsSame
  <2>7. States(m)'
    <3>1. \A f \in np[m].other .. Sent(m) - 1 : Slot(m, f)'.state = Slot(m, f).state
      BY <2>1 DEF Slot
    <3>2. QED
      BY <1>4, <2>1, <2>6, <3>1, StatesStay
  <2>8. QED
    BY <2>5, <2>7
<1>13. FlipsInv'
  <2>1. \A m \in Node : Known(m)' = Known(m)
    BY <1>3 DEF Known
  <2>2. \A m \in Node : /\ np'[m].flip = np[m].flip /\ np'[m].flipFrame = np[m].flipFrame
                        /\ np'[m].other = np[m].other
    BY <1>5, <1>9
  <2>3. \A m \in Node : Flipped(m)'
    BY <1>4, <2>1, <2>2 DEF FlipsInv, Flipped
  <2>4. QED
    BY <1>3, <1>4, <2>3 DEF FlipsInv
<1>14. QED
  BY <1>11, <1>12, <1>13 DEF DataKept

-----------------------------------------------------------------------------
(* A frame runs                                                              *)

\* Numbers of a peer about to run its frame.
LEMMA Running ==
    ASSUME CountInv, NEW n \in Node, np[n].pc = "run"
    PROVE  /\ np[n].frame \in Nat /\ np[n].other \in Nat /\ np[n].read \in Nat
           /\ Sent(n) = np[n].frame + 1 /\ np[n].other <= np[n].read /\ np[n].other <= np[n].frame
           /\ np[n].read <= np[n].frame + 1
           /\ n = "host" => request = "none"
           /\ np[n].selfPtr = Sent(n) % BufferSize
<1>1. Standing(n) /\ Pointers(n)
  BY DEF CountInv
<1>2. Sent(n) = np[n].frame + 1
  BY <1>1 DEF Standing
<1>3. n = "host" => request = "none"
  BY <1>1 DEF Standing
<1>4. /\ np[n].frame \in Nat /\ np[n].other \in Nat /\ np[n].read \in Nat
      /\ np[n].other <= np[n].read /\ np[n].other <= np[n].frame /\ np[n].read <= Sent(n)
  BY Numbers
<1>5. QED
  BY <1>1, <1>2, <1>3, <1>4 DEF Pointers

\* What frame f is run on, or run again: own input and what is now known.
Heard(n, f) == IF f < np[n].read THEN Given(Peer(n), f) ELSE Theirs(Slot(n, f))

\* A frame of a running peer is given what is known of it.
LEMMA RunsOn ==
    ASSUME GameInv, NEW n \in Node, np[n].pc = "run",
           NEW r, r.buffer = np[n].buffer, r.flip = np[n].flip, r.flipFrame = np[n].flipFrame,
           NEW f \in np[n].other .. np[n].frame
    PROVE  JointInput(n, r, f % BufferSize, f) = Ports(n, f, packed[n][f + 1], Heard(n, f))
<1> DEFINE slot == np[n].buffer[f % BufferSize]
           theirs == IF slot.isSimulated THEN slot.simulated ELSE slot.real
<1>1. /\ CountInv /\ FlipsInv /\ Held(n)
  BY DEF GameInv
<1>2. /\ np[n].frame \in Nat /\ np[n].other \in Nat /\ np[n].read \in Nat
      /\ Sent(n) = np[n].frame + 1 /\ (n = "host" => request = "none")
      /\ np[n].flipFrame \in Nat /\ asked \in Nat
  BY <1>1, Running, Numbers
<1>3. f \in Nat /\ np[n].other <= f /\ f <= np[n].frame /\ f \in np[n].other .. Sent(n) - 1
  BY <1>2
<1>4. JointInput(n, r, f % BufferSize, f) = Ports(n, f, slot.self, theirs)
  <2>1. ~ (n = "host" /\ request = "acked")
    BY <1>2
  <2>2. JointInput(n, r, f % BufferSize, f) =
          Ports(n, f, r.buffer[f % BufferSize].self,
                IF r.buffer[f % BufferSize].isSimulated THEN r.buffer[f % BufferSize].simulated
                ELSE r.buffer[f % BufferSize].real)
    BY <1>1, <1>2, <1>3, <2>1, JointIs
  <2>3. QED
    BY <2>2
<1>5. Fits(n, np[n], f)
  BY <1>1, <1>3 DEF Held
<1>6. slot.self = packed[n][f + 1]
  BY <1>5 DEF Fits
<1>7. theirs = Heard(n, f)
  <2>1. CASE f < np[n].read
    <3>1. ~slot.isSimulated /\ slot.real = Given(Peer(n), f)
      BY <1>5, <2>1 DEF Fits
    <3>2. QED
      BY <2>1, <3>1 DEF Heard
  <2>2. CASE ~ (f < np[n].read)
    <3>1. f >= np[n].read
      BY <1>2, <1>3, <2>2
    <3>2. slot.isSimulated /\ ~slot.usedReal
      BY <1>5, <3>1 DEF Fits
    <3>3. QED
      BY <2>2, <3>2 DEF Heard, Theirs, Slot
  <2>3. QED
    BY <2>1, <2>2
<1> HIDE DEF slot, theirs
<1>8. QED
  BY <1>4, <1>6, <1>7

\* Nothing new for the peer that does not move.
LEMMA OtherKeeps ==
    ASSUME GameInv, NEW m \in Node, np'[m] = np[m], packed' = packed, flips' = flips
    PROVE  Held(m)' /\ States(m)'
<1>1. CountInv /\ Held(m) /\ States(m) /\ Sent(m)' = Sent(m)
  BY DEF GameInv, Sent
<1>2. Held(m)'
  BY <1>1 DEF Held, Fits, Given
<1>3. Past(m)
  <2> SUFFICES ASSUME NEW f \in 0 .. np[m].frame - 1 PROVE Joins(m, f)' = Joins(m, f)
    BY DEF Past
  <2>1. Took(m, f)' = Took(m, f)
    BY DEF Took, Theirs, Slot, Given
  <2>2. QED
    BY <2>1, FlipsSame, JoinsSame
<1>4. States(m)'
  <2>1. \A f \in np[m].other .. Sent(m) - 1 : Slot(m, f)'.state = Slot(m, f).state
    BY DEF Slot
  <2>2. QED
    BY <1>1, <1>3, <2>1, StatesStay
<1>5. QED
  BY <1>2, <1>4

-----------------------------------------------------------------------------
(* Frames are run again                                                      *)

\* The frame of n has run, n has become s: the game of n after it, with what
\* is known now in place of what was guessed.
Reran(n, s) ==
    LET k == np[n].frame IN
    /\ Len(s.core) = k + 1
    /\ \A j \in 1 .. k + 1 : s.core[j] = Ports(n, j - 1, packed[n][j],
          IF j - 1 < np[n].read THEN Given(Peer(n), j - 1) ELSE Theirs(Slot(n, j - 1)))
    /\ \A f \in np[n].read .. k :
         LET slot == s.buffer[f % BufferSize] IN
         /\ slot = [np[n].buffer[f % BufferSize] EXCEPT !.state = slot.state]
         /\ Len(slot.state) = f
         /\ \A j \in 1 .. f : slot.state[j] = s.core[j]

\* Where no guess was wrong, the game stays what it was.
LEMMA Unspoilt ==
    ASSUME GameInv, NEW n \in Node, np[n].pc = "run", NEW f \in 0 .. np[n].frame - 1,
           f < np[n].other \/ np[n].read <= f \/ ~ WrongAt(np[n], f)
    PROVE  Joins(n, f) = Ports(n, f, packed[n][f + 1], Heard(n, f))
<1>1. /\ CountInv /\ Held(n)
  BY DEF GameInv
<1>2. /\ np[n].frame \in Nat /\ np[n].other \in Nat /\ np[n].read \in Nat
      /\ Sent(n) = np[n].frame + 1 /\ np[n].other <= np[n].read
  BY <1>1, Running
<1>3. Took(n, f) = Heard(n, f)
  <2>1. CASE f < np[n].other
    <3>1. f < np[n].read
      BY <1>2, <2>1
    <3>2. QED
      BY <2>1, <3>1 DEF Took, Heard
  <2>2. CASE ~ (f < np[n].other) /\ np[n].read <= f
    <3>1. ~ (f < np[n].read)
      BY <1>2, <2>2
    <3>2. QED
      BY <2>2, <3>1 DEF Took, Heard
  <2>3. CASE ~ (f < np[n].other) /\ ~ (np[n].read <= f)
    <3>1. f < np[n].read /\ f \in np[n].other .. Sent(n) - 1
      BY <1>2, <2>3
    <3>2. Slot(n, f).real = Given(Peer(n), f)
      BY <1>1, <3>1 DEF Held, Fits, Slot
    <3>3. ~ WrongAt(np[n], f)
      BY <2>3
    <3>4. Theirs(Slot(n, f)) = Slot(n, f).real
      BY <3>3 DEF WrongAt, Mispredicted, Theirs, Slot
    <3>5. QED
      BY <2>3, <3>1, <3>2, <3>4 DEF Took, Heard
  <2>4. QED
    BY <2>1, <2>2, <2>3
<1>4. QED
  BY <1>3 DEF Joins

\* netplay_post_frame leaves the game as it is known now, in the core and in every
\* slot that may be replayed: what it does not run again was not mispredicted.
LEMMA Reruns ==
    ASSUME GameInv, NEW n \in Node, np[n].pc = "run", NEW s,
           FrameOver(n, Ran(n), s, Sent(n))
    PROVE  Reran(n, s)
<1> DEFINE r == Ran(n)
           k == np[n].frame
           Due(f) == Ports(n, f, packed[n][f + 1], Heard(n, f))
<1>1. /\ CountInv /\ Held(n) /\ States(n) /\ np[n] \in PeerType
  BY DEF GameInv, CountInv, Typed
<1>2. /\ k \in Nat /\ np[n].other \in Nat /\ np[n].read \in Nat
      /\ Sent(n) = k + 1 /\ np[n].other <= np[n].read /\ np[n].other <= k
      /\ np[n].read <= k + 1 /\ np[n].selfPtr = Sent(n) % BufferSize
  BY <1>1, Running
<1>3. /\ r \in PeerType /\ r.buffer = np[n].buffer /\ r.other = np[n].other
      /\ r.read = np[n].read /\ r.flip = np[n].flip /\ r.flipFrame = np[n].flipFrame
      /\ r.core = Append(np[n].core, JointInput(n, np[n], PrevPtr(np[n].selfPtr), np[n].frame))
  BY <1>1, RanIsPeer
<1> HIDE DEF r
<1>4. \A f \in np[n].other .. k : JointInput(n, r, f % BufferSize, f) = Due(f)
  BY <1>3, RunsOn
<1>5. \A f \in 0 .. k - 1 :
        f < np[n].other \/ np[n].read <= f \/ ~ WrongAt(r, f) => Joins(n, f) = Due(f)
  <2>1. \A f : WrongAt(r, f) = WrongAt(np[n], f)
    BY <1>3 DEF WrongAt
  <2>2. QED
    BY <2>1, Unspoilt
<1>6. \A f \in np[n].read .. k : f \in np[n].other .. k /\ f \in Nat
        /\ f \in np[n].other .. Sent(n) - 1 /\ f % BufferSize \in 0 .. Frames
        /\ np[n].buffer[f % BufferSize] \in SlotType
  <2> SUFFICES ASSUME NEW f \in np[n].read .. k
               PROVE  f \in np[n].other .. k /\ f \in Nat
                      /\ f \in np[n].other .. Sent(n) - 1 /\ f % BufferSize \in 0 .. Frames
                      /\ np[n].buffer[f % BufferSize] \in SlotType
    OBVIOUS
  <2>1. f \in np[n].other .. k /\ f \in Nat /\ f \in np[n].other .. Sent(n) - 1
    BY <1>2
  <2>2. f % BufferSize \in 0 .. BufferSize - 1
    BY <2>1, InRing
  <2>3. f % BufferSize \in 0 .. Frames
    BY <2>2, RingSize, NetplayAssumption
  <2>4. QED
    BY <1>1, <2>1, <2>3 DEF PeerType
<1>7. /\ Len(np[n].core) = k /\ \A j \in 1 .. k : np[n].core[j] = Joins(n, j - 1)
  BY <1>1 DEF States, Plays
<1>8. \A f \in np[n].other .. k :
        Len(Slot(n, f).state) = f /\ \A j \in 1 .. f : Slot(n, f).state[j] = Joins(n, j - 1)
  <2>1. \A f \in np[n].other .. k : f \in np[n].other .. Sent(n) - 1
    BY <1>2
  <2>2. QED
    BY <1>1, <2>1 DEF States, Plays
<1>9. ASSUME \A f \in News(r) : ~ WrongAt(r, f), s.core = r.core, s.buffer = r.buffer
      PROVE  Reran(n, s)
  <2>1. \A f \in 0 .. k - 1 : Joins(n, f) = Due(f)
    <3> SUFFICES ASSUME NEW f \in 0 .. k - 1 PROVE Joins(n, f) = Due(f)
      OBVIOUS
    <3>1. f < np[n].other \/ np[n].read <= f \/ f \in News(r)
      BY <1>2, <1>3 DEF News
    <3>2. QED
      BY <1>5, <1>9, <3>1
  <2>2. JointInput(n, np[n], PrevPtr(np[n].selfPtr), np[n].frame) = Due(k)
    <3>1. PrevPtr(np[n].selfPtr) = k % BufferSize
      <4>1. Sent(n) \in Nat \ {0} /\ Sent(n) - 1 = k
        BY <1>2
      <4>2. QED
        BY <1>2, <4>1, PrevOf
    <3>2. k \in np[n].other .. k
      BY <1>2
    <3>3. QED
      BY <3>1, <3>2, RunsOn
  <2> HIDE DEF Due
  <2>3. s.core = Append(np[n].core, Due(k)) /\ np[n].core \in Seq(Input \X Input)
    BY <1>1, <1>3, <1>9, <2>2 DEF PeerType, Games
  <2>4. /\ Len(s.core) = k + 1
        /\ \A j \in 1 .. k : s.core[j] = np[n].core[j]
        /\ s.core[k + 1] = Due(k)
    BY <1>2, <1>7, <2>3
  <2>5. \A j \in 1 .. k : j - 1 \in 0 .. k - 1
    BY <1>2
  <2>6. \A j \in 1 .. k : s.core[j] = Joins(n, j - 1) /\ s.core[j] = Due(j - 1)
    BY <1>7, <2>1, <2>4, <2>5
  <2>7. \A j \in 1 .. k + 1 : s.core[j] = Due(j - 1)
    <3>1. \A j \in 1 .. k + 1 : j \in 1 .. k \/ (j = k + 1 /\ j - 1 = k)
      BY <1>2
    <3>2. QED
      BY <2>4, <2>6, <3>1
  <2>8. ASSUME NEW f \in np[n].read .. k
        PROVE  LET slot == s.buffer[f % BufferSize] IN
               /\ slot = [np[n].buffer[f % BufferSize] EXCEPT !.state = slot.state]
               /\ Len(slot.state) = f
               /\ \A j \in 1 .. f : slot.state[j] = s.core[j]
    <3> DEFINE slot == np[n].buffer[f % BufferSize]
    <3>1. s.buffer[f % BufferSize] = slot
      BY <1>3, <1>9
    <3>2. slot = [slot EXCEPT !.state = slot.state]
      <4>1. slot \in SlotType
        BY <1>6
      <4> HIDE DEF slot
      <4>2. QED
        BY <4>1 DEF SlotType
    <3>3. Len(slot.state) = f /\ \A j \in 1 .. f : slot.state[j] = Joins(n, j - 1)
      BY <1>6, <1>8 DEF Slot
    <3>4. \A j \in 1 .. f : j \in 1 .. k
      BY <1>2
    <3>5. \A j \in 1 .. f : slot.state[j] = s.core[j]
      BY <2>6, <3>3, <3>4
    <3>6. /\ s.buffer[f % BufferSize] = [slot EXCEPT !.state = s.buffer[f % BufferSize].state]
          /\ Len(s.buffer[f % BufferSize].state) = f
          /\ \A j \in 1 .. f : s.buffer[f % BufferSize].state[j] = s.core[j]
      <4> HIDE DEF slot
      <4>1. QED
        BY <3>1, <3>2, <3>3, <3>5
    <3>7. QED
      BY <3>6, Zenon
  <2>9. \A j \in 1 .. k + 1 : (j - 1) + 1 = j
    BY <1>2
  <2>10. QED
    BY <2>4, <2>7, <2>8, <2>9 DEF Reran, Due, Heard
<1>10. ASSUME NEW F \in News(r), FirstWrong(r, F), Replayed(n, r, s, F, Sent(n))
       PROVE  Reran(n, s)
  <2> DEFINE base == r.buffer[F % BufferSize].state
  <2>1. /\ F \in Nat /\ np[n].other <= F /\ F < np[n].read /\ F <= k
        /\ F \in np[n].other .. k /\ Sent(n) - F = k + 1 - F
    <3>1. F \in np[n].other .. np[n].read - 1
      BY <1>3 DEF News
    <3>2. QED
      BY <1>2, <3>1
  <2>2. \A f \in 0 .. F - 1 : Joins(n, f) = Due(f)
    <3> SUFFICES ASSUME NEW f \in 0 .. F - 1 PROVE Joins(n, f) = Due(f)
      OBVIOUS
    <3>1. f \in 0 .. k - 1 /\ (f < np[n].other \/ f \in r.other .. F - 1)
      BY <1>2, <1>3, <2>1
    <3>2. f \in r.other .. F - 1 => ~ WrongAt(r, f)
      BY <1>10 DEF FirstWrong
    <3>3. QED
      BY <1>5, <3>1, <3>2
  <2>3. Len(base) = F /\ \A j \in 1 .. F : base[j] = Joins(n, j - 1)
    BY <1>3, <1>8, <2>1 DEF Slot
  <2>4. /\ Len(s.core) = Len(base) + (Sent(n) - F)
        /\ \A j \in 1 .. Len(base) : s.core[j] = base[j]
        /\ \A q \in 1 .. Sent(n) - F :
             s.core[Len(base) + q] = JointInput(n, r, (F + q - 1) % BufferSize, F + q - 1)
        /\ \A q \in 0 .. Sent(n) - F - 1 :
             LET slot == s.buffer[(F + q) % BufferSize] IN
             /\ slot = [r.buffer[(F + q) % BufferSize] EXCEPT !.state = slot.state]
             /\ Len(slot.state) = Len(base) + q
             /\ \A j \in 1 .. Len(base) + q : slot.state[j] = s.core[j]
    BY <1>10 DEF Replayed
  <2> HIDE DEF base
  <2>5. Len(s.core) = k + 1
    BY <1>2, <2>1, <2>3, <2>4
  <2>6. \A j \in 1 .. F : s.core[j] = Due(j - 1)
    <3> HIDE DEF Due
    <3>1. \A j \in 1 .. F : j - 1 \in 0 .. F - 1
      BY <2>1
    <3>2. QED
      BY <2>2, <2>3, <2>4, <3>1
  <2>7. \A j \in F + 1 .. k + 1 : s.core[j] = Due(j - 1)
    <3> SUFFICES ASSUME NEW j \in F + 1 .. k + 1 PROVE s.core[j] = Due(j - 1)
      OBVIOUS
    <3> DEFINE q == j - F
    <3>1. q \in 1 .. Sent(n) - F /\ F + q = j /\ F + q - 1 = j - 1 /\ j - 1 \in np[n].other .. k
      BY <1>2, <2>1
    <3>2. s.core[Len(base) + q] = JointInput(n, r, (F + q - 1) % BufferSize, F + q - 1)
      <4> HIDE DEF q
      <4>1. QED
        BY <2>4, <3>1
    <3>3. s.core[j] = JointInput(n, r, (j - 1) % BufferSize, j - 1)
      <4> HIDE DEF q
      <4>1. QED
        BY <2>3, <3>1, <3>2
    <3> HIDE DEF Due
    <3>4. QED
      BY <1>4, <3>1, <3>3
  <2>8. \A j \in 1 .. k + 1 : s.core[j] = Due(j - 1)
    <3>1. \A j \in 1 .. k + 1 : j \in 1 .. F \/ j \in F + 1 .. k + 1
      BY <1>2, <2>1
    <3> HIDE DEF Due
    <3>2. QED
      BY <2>6, <2>7, <3>1
  <2>9. ASSUME NEW f \in np[n].read .. k
        PROVE  LET slot == s.buffer[f % BufferSize] IN
               /\ slot = [np[n].buffer[f % BufferSize] EXCEPT !.state = slot.state]
               /\ Len(slot.state) = f
               /\ \A j \in 1 .. f : slot.state[j] = s.core[j]
    <3> DEFINE q == f - F
    <3>1. q \in 0 .. Sent(n) - F - 1 /\ F + q = f
      BY <1>2, <2>1
    <3> HIDE DEF q
    <3>2. QED
      BY <1>3, <2>3, <2>4, <3>1
  <2>10. \A j \in 1 .. k + 1 : (j - 1) + 1 = j
    BY <1>2
  <2>11. \A j \in 1 .. k + 1 : Due(j - 1) = Ports(n, j - 1, packed[n][j],
          IF j - 1 < np[n].read THEN Given(Peer(n), j - 1) ELSE Theirs(Slot(n, j - 1)))
    BY <2>10 DEF Heard
  <2> HIDE DEF Due
  <2>12. QED
    BY <2>5, <2>8, <2>9, <2>11 DEF Reran
<1>11. QED
  BY <1>9, <1>10 DEF FrameOver, r

\* The frame runs, and what was heard is settled.
LEMMA RunFrameKeeps ==
    ASSUME GameInv, NEW n \in Node, RunFrame(n)
    PROVE  DataKept
<1>1. PICK s : s = PostFrame(n, Ran(n))
  OBVIOUS
<1>2. /\ np' = [np EXCEPT ![n] = s] /\ FrameOver(n, Ran(n), s, Sent(n))
      /\ np[n].pc = "run" /\ UNCHANGED <<packed, wire, request, asked, flips>>
  BY <1>1, RunOver DEF GameInv
<1>3. Reran(n, s)
  BY <1>2, Reruns
<1>4. /\ CountInv /\ FlipsInv /\ Typed /\ Held(n) /\ States(n) /\ np[n] \in PeerType
  BY DEF GameInv, CountInv, Typed
<1>5. PICK k, o, h : k = np[n].frame /\ o = np[n].other /\ h = np[n].read
  OBVIOUS
<1>6. /\ k \in Nat /\ o \in Nat /\ h \in Nat /\ Sent(n) = k + 1
      /\ o <= h /\ o <= k /\ h <= k + 1
  BY <1>2, <1>4, <1>5, Running
<1>7. /\ s.frame = k + 1 /\ s.pc = "idle" /\ s.read = h /\ s.other = h
      /\ s.flip = np[n].flip /\ s.flipFrame = np[n].flipFrame
  <2> DEFINE r == Ran(n)
  <2>1. /\ r \in PeerType /\ r.frame = k + 1 /\ r.pc = "idle" /\ r.read = h
        /\ r.flip = np[n].flip /\ r.flipFrame = np[n].flipFrame
    BY <1>4, <1>5, RanIsPeer
  <2> HIDE DEF r
  <2>2. s = [r EXCEPT !.other = r.read, !.otherPtr = r.readPtr,
                      !.core = s.core, !.buffer = s.buffer]
    BY <1>2 DEF FrameOver, r
  <2>3. /\ s.frame = r.frame /\ s.pc = r.pc /\ s.read = r.read /\ s.other = r.read
        /\ s.flip = r.flip /\ s.flipFrame = r.flipFrame
    BY <2>1, <2>2 DEF PeerType
  <2>4. QED
    BY <2>1, <2>3
<1>8. np'[n] = s /\ (\A m \in Node \ {n} : np'[m] = np[m]) /\ packed'[n] = packed[n]
      /\ Sent(n)' = k + 1
  BY <1>2, <1>4, <1>6 DEF Typed, Sent
<1>9. /\ Len(s.core) = k + 1
      /\ \A j \in 1 .. k + 1 : s.core[j] = Ports(n, j - 1, packed[n][j],
            IF j - 1 < h THEN Given(Peer(n), j - 1) ELSE Theirs(Slot(n, j - 1)))
      /\ \A f \in h .. k :
           LET slot == s.buffer[f % BufferSize] IN
           /\ slot = [np[n].buffer[f % BufferSize] EXCEPT !.state = slot.state]
           /\ Len(slot.state) = f
           /\ \A j \in 1 .. f : slot.state[j] = s.core[j]
  BY <1>3, <1>5 DEF Reran
<1>10. \A f \in h .. k :
         /\ Slot(n, f)'.self = Slot(n, f).self /\ Slot(n, f)'.real = Slot(n, f).real
         /\ Slot(n, f)'.simulated = Slot(n, f).simulated
         /\ Slot(n, f)'.isSimulated = Slot(n, f).isSimulated
         /\ Slot(n, f)'.usedReal = Slot(n, f).usedReal
         /\ Len(Slot(n, f)'.state) = f
         /\ \A j \in 1 .. f : Slot(n, f)'.state[j] = s.core[j]
  <2> SUFFICES ASSUME NEW f \in h .. k
               PROVE  /\ Slot(n, f)'.self = Slot(n, f).self /\ Slot(n, f)'.real = Slot(n, f).real
                      /\ Slot(n, f)'.simulated = Slot(n, f).simulated
                      /\ Slot(n, f)'.isSimulated = Slot(n, f).isSimulated
                      /\ Slot(n, f)'.usedReal = Slot(n, f).usedReal
                      /\ Len(Slot(n, f)'.state) = f
                      /\ \A j \in 1 .. f : Slot(n, f)'.state[j] = s.core[j]
    OBVIOUS
  <2>1. PICK old : old = np[n].buffer[f % BufferSize]
    OBVIOUS
  <2>2. PICK new : new = s.buffer[f % BufferSize]
    OBVIOUS
  <2>3. old \in SlotType
    <3>1. f \in Nat
      BY <1>6
    <3>2. f % BufferSize \in 0 .. BufferSize - 1
      BY <3>1, InRing
    <3>3. f % BufferSize \in 0 .. Frames
      BY <3>2, RingSize, NetplayAssumption
    <3>4. QED
      BY <1>4, <2>1, <3>3 DEF PeerType
  <2>4. /\ new = [old EXCEPT !.state = new.state] /\ Len(new.state) = f
        /\ \A j \in 1 .. f : new.state[j] = s.core[j]
    BY <1>9, <2>1, <2>2
  <2>5. /\ new.self = old.self /\ new.real = old.real /\ new.simulated = old.simulated
        /\ new.isSimulated = old.isSimulated /\ new.usedReal = old.usedReal
    BY <2>3, <2>4 DEF SlotType
  <2>6. Slot(n, f)' = new /\ Slot(n, f) = old
    BY <1>8, <2>1, <2>2 DEF Slot
  <2>7. QED
    BY <2>4, <2>5, <2>6
<1>11. Held(n)'
  <2>1. ASSUME NEW f \in h .. k PROVE Fits(n, np[n], f)'
    <3>1. f \in o .. Sent(n) - 1 /\ f \in Nat /\ h <= f /\ f <= k
      BY <1>6
    <3>2. Fits(n, np[n], f)
      BY <1>4, <1>5, <3>1 DEF Held
    <3>3. f < k \/ f = k
      BY <1>6, <3>1
    <3>4. /\ Slot(n, f).self = packed[n][f + 1]
          /\ Slot(n, f).isSimulated /\ ~Slot(n, f).usedReal
      <4>1. f >= np[n].read /\ (f < np[n].frame \/ np[n].pc = "run")
        BY <1>2, <1>5, <3>1
      <4>2. QED
        BY <3>2, <4>1 DEF Fits, Slot
    <3>5. /\ Slot(n, f)'.self = packed'[n][f + 1]
          /\ Slot(n, f)'.isSimulated /\ ~Slot(n, f)'.usedReal
      BY <1>2, <1>10, <3>4
    <3>6. ~ (f < h) /\ np'[n].read = h /\ np'[n].pc # "run"
      BY <1>6, <1>7, <1>8, <3>1
    <3>7. QED
      BY <3>5, <3>6 DEF Fits, Slot
  <2>2. (np[n].other .. Sent(n) - 1)' = h .. k
    BY <1>6, <1>7, <1>8
  <2>3. (packed[n] # <<>> => packed[n][1] = NoInput)'
    BY <1>4, <1>8 DEF Held
  <2>4. QED
    BY <2>1, <2>2, <2>3 DEF Held
<1>12. \A j \in 1 .. k + 1 : s.core[j] = Joins(n, j - 1)'
  <2> SUFFICES ASSUME NEW j \in 1 .. k + 1 PROVE s.core[j] = Joins(n, j - 1)'
    OBVIOUS
  <2>1. PICK f : f = j - 1
    OBVIOUS
  <2>2. f + 1 = j /\ f \in 0 .. k /\ f \in Nat
    BY <1>6, <2>1
  <2>3. Took(n, f)' = IF f < h THEN Given(Peer(n), f) ELSE Theirs(Slot(n, f))
    <3>1. CASE f < h
      <4>1. np'[n].other = h
        BY <1>7, <1>8
      <4>2. QED
        BY <1>2, <3>1, <4>1 DEF Took, Given
    <3>2. CASE ~ (f < h)
      <4>1. f \in h .. k
        BY <1>6, <2>2, <3>2
      <4>2. Theirs(Slot(n, f))' = Theirs(Slot(n, f))
        BY <1>10, <4>1 DEF Theirs
      <4>3. np'[n].other = h
        BY <1>7, <1>8
      <4>4. QED
        BY <3>2, <4>2, <4>3 DEF Took
    <3>3. QED
      BY <3>1, <3>2
  <2>4. Joins(n, f)' = Ports(n, f, packed[n][f + 1],
            IF f < h THEN Given(Peer(n), f) ELSE Theirs(Slot(n, f)))
    <3>1. Game!Swapped(f)' = Game!Swapped(f)
      BY <1>2, FlipsSame
    <3>2. QED
      BY <1>2, <2>3, <3>1 DEF Joins, Ports
  <2>5. s.core[j] = Ports(n, f, packed[n][j],
            IF f < h THEN Given(Peer(n), f) ELSE Theirs(Slot(n, f)))
    BY <1>9, <2>1
  <2>6. QED
    BY <2>1, <2>2, <2>4, <2>5
<1>13. States(n)'
  <2>1. Plays(n, np[n].core, np[n].frame)'
    <3>1. np'[n].core = s.core /\ np'[n].frame = k + 1
      BY <1>7, <1>8
    <3>2. QED
      BY <1>9, <1>12, <3>1 DEF Plays
  <2>2. ASSUME NEW f \in h .. k PROVE Plays(n, Slot(n, f).state, f)'
    <3>1. \A j \in 1 .. f : j \in 1 .. k + 1
      BY <1>6
    <3>2. Len(Slot(n, f)'.state) = f /\ \A j \in 1 .. f : Slot(n, f)'.state[j] = Joins(n, j - 1)'
      BY <1>10, <1>12, <3>1
    <3>3. QED
      BY <3>2 DEF Plays
  <2>3. (np[n].other .. Sent(n) - 1)' = h .. k
    BY <1>6, <1>7, <1>8
  <2>4. QED
    BY <2>1, <2>2, <2>3 DEF States
<1>14. \A m \in Node \ {n} : Held(m)' /\ States(m)'
  BY <1>2, <1>8, OtherKeeps
<1>15. FlipsInv'
  <2>1. \A m \in Node : Known(m)' = Known(m)
    BY <1>2 DEF Known
  <2>2. \A m \in Node : Flipped(m)'
    <3>1. ASSUME NEW m \in Node \ {n} PROVE Flipped(m)'
      BY <1>4, <1>8, <2>1 DEF FlipsInv, Flipped
    <3>2. Flipped(n)'
      <4>1. /\ np'[n].flip = np[n].flip /\ np'[n].flipFrame = np[n].flipFrame
            /\ np'[n].other = h
        BY <1>7, <1>8
      <4>2. \A x \in Known(n) : x \in Nat
        BY <1>4 DEF FlipsInv, Known
      <4>3. \A x \in Known(n) : x <= o => x <= h
        BY <1>6, <4>2
      <4>4. QED
        BY <1>4, <1>5, <2>1, <4>1, <4>3 DEF FlipsInv, Flipped
    <3>3. QED
      BY <3>1, <3>2
  <2>3. QED
    BY <1>2, <1>4, <2>2 DEF FlipsInv
<1>16. QED
  BY <1>11, <1>13, <1>14, <1>15 DEF DataKept

-----------------------------------------------------------------------------
(* Flips                                                                     *)

\* What host and client know of a flip under way.
LEMMA FlipFacts ==
    ASSUME CountInv
    PROVE  /\ request \in {"none", "asked", "acked"}
           /\ request = "asked" => np["client"].flipFrame = np["host"].flipFrame
           /\ request # "none" => /\ asked = np["host"].frame + 2 * Packets
                                  /\ np["host"].flipFrame + 2 * Packets <= np["host"].frame
                                  /\ Sent("host") = np["host"].frame
<1>1. W!FlipInv /\ "host" \in Node /\ "client" \in Node
  BY DEF CountInv, Node
<1>2. /\ FlipFrame["client"] = np["client"].flipFrame /\ FlipFrame["host"] = np["host"].flipFrame
      /\ Frame["host"] = np["host"].frame
  BY <1>1, WindowHas
<1>3. /\ request \in {"none", "asked", "acked"}
      /\ request = "asked" => FlipFrame["client"] = FlipFrame["host"]
      /\ request # "none" => /\ asked = Frame["host"] + 2 * Packets
                             /\ FlipFrame["host"] + 2 * Packets <= Frame["host"]
  BY <1>1 DEF W!FlipInv, FlipFrame, Frame
<1>4. request # "none" => Sent("host") = np["host"].frame
  BY <1>1 DEF CountInv, Standing
<1>5. QED
  BY <1>2, <1>3, <1>4

\* Where the frames of the two peers and the flip they agree on lie.
LEMMA FlipLies ==
    ASSUME CountInv, Frames < Packets, request # "none"
    PROVE  /\ asked \in Nat \ {0} /\ asked <= FrameLimit + 2 * Packets
           /\ np["host"].flipFrame < asked
           /\ np["host"].flipFrame <= np["host"].other
           /\ np["host"].frame <= asked
           /\ InPoll("client") => /\ np["host"].flipFrame <= np["client"].other
                                  /\ np["client"].frame <= asked
<1>1. /\ "host" \in Node /\ "client" \in Node /\ Peer("host") = "client" /\ Peer("client") = "host"
  BY DEF Node, Peer
<1>2. /\ Standing("host") /\ Standing("client") /\ Counts("host") /\ Counts("client")
  BY <1>1, Counting DEF CountInv
<1>3. /\ np["host"].frame \in Nat /\ np["host"].other \in Nat /\ np["host"].read \in Nat
      /\ np["host"].flipFrame \in Nat /\ Sent("host") \in Nat
      /\ np["client"].frame \in Nat /\ np["client"].other \in Nat /\ np["client"].read \in Nat
      /\ Sent("client") \in Nat /\ asked \in Nat
      /\ Frames \in Nat /\ Packets \in Nat \ {0} /\ FrameLimit \in Nat
  BY <1>1, Numbers, NetplayAssumption
<1>4. /\ asked = np["host"].frame + 2 * Packets
      /\ np["host"].flipFrame + 2 * Packets <= np["host"].frame
      /\ Sent("host") = np["host"].frame
  BY FlipFacts
<1>5. /\ np["host"].frame <= np["host"].other + Frames
      /\ np["host"].other <= np["host"].read
      /\ np["host"].read <= 1 \/ np["host"].read <= Sent("client")
      /\ np["client"].frame <= np["client"].other + Frames
      /\ np["client"].other <= np["client"].read
      /\ np["client"].read <= 1 \/ np["client"].read <= Sent("host")
      /\ Sent("host") <= FrameLimit
  BY <1>1, <1>2 DEF Counts, Standing
<1>6. InPoll("client") => Sent("client") = np["client"].frame + 1
  BY <1>2 DEF Standing, InPoll
<1>7. QED
  BY <1>3, <1>4, <1>5, <1>6

\* A peer that keeps its frames keeps its games, if the ports of those frames stay.
LEMMA SettledKeeps ==
    ASSUME GameInv, NEW m \in Node, packed' = packed,
           np'[m].core = np[m].core, np'[m].frame = np[m].frame, np'[m].other = np[m].other,
           np'[m].read = np[m].read, np'[m].buffer = np[m].buffer,
           np'[m].pc = "run" <=> np[m].pc = "run",
           \A f \in 0 .. np[m].frame - 1 : Game!Swapped(f)' = Game!Swapped(f)
    PROVE  Held(m)' /\ States(m)'
<1>1. CountInv /\ Held(m) /\ States(m) /\ Sent(m)' = Sent(m)
  BY DEF GameInv, Sent
<1>2. Held(m)'
  <2>1. ASSUME NEW f \in np[m].other .. Sent(m) - 1 PROVE Fits(m, np[m], f)'
    <3>1. Fits(m, np[m], f)
      BY <1>1 DEF Held
    <3>2. QED
      BY <3>1 DEF Fits, Given
  <2>2. QED
    BY <1>1, <2>1 DEF Held
<1>3. Past(m)
  <2> SUFFICES ASSUME NEW f \in 0 .. np[m].frame - 1 PROVE Joins(m, f)' = Joins(m, f)
    BY DEF Past
  <2>1. Took(m, f)' = Took(m, f)
    BY DEF Took, Theirs, Slot, Given
  <2>2. QED
    BY <2>1, JoinsSame
<1>4. States(m)'
  <2>1. \A f \in np[m].other .. Sent(m) - 1 : Slot(m, f)'.state = Slot(m, f).state
    BY DEF Slot
  <2>2. QED
    BY <1>1, <1>3, <2>1, StatesStay
<1>5. QED
  BY <1>2, <1>4

\* A flip that lies ahead leaves the frames behind it alone.
LEMMA FlipAhead ==
    ASSUME NEW x \in Nat, flips' = flips \union {x}, NEW f \in Int, f < x
    PROVE  Game!Swapped(f)' = Game!Swapped(f)
<1>1. {y \in flips' : y <= f} = {y \in flips : y <= f}
  <2>1. ~ (x <= f)
    OBVIOUS
  <2>2. QED
    BY <2>1
<1>2. QED
  BY <1>1 DEF Game!Swapped

\* One flip more.
LEMMA Toggle ==
    ASSUME NEW c \in Nat, NEW d, d = c + 1, NEW a, a = c % 2
    PROVE  1 - a = d % 2
<1>1. (c + 1) % 2 = 1 - (c % 2)
  BY Parity
<1>2. QED
  BY <1>1

\* The flip the client agrees to is a new one.
LEMMA NewFlip ==
    ASSUME GameInv, Frames < Packets, request = "asked"
    PROVE  /\ asked \notin flips
           /\ \A x \in flips : x < asked /\ x <= np["host"].flipFrame
           /\ Known("host") = flips /\ Known("client") = flips
<1>1. Flipped("host") /\ FlipsInv /\ CountInv
  BY DEF GameInv, FlipsInv, Node
<1>2. Known("host") = flips /\ Known("client") = flips
  BY DEF Known
<1>3. asked \in Nat /\ np["host"].flipFrame < asked /\ np["host"].flipFrame \in Nat
  BY <1>1, FlipLies, Numbers DEF Node
<1>4. \A x \in flips : x \in Nat /\ (x = np["host"].flipFrame \/ x < np["host"].flipFrame)
  BY <1>1, <1>2 DEF Flipped, FlipsInv
<1>5. \A x \in flips : x < asked /\ x <= np["host"].flipFrame
  BY <1>3, <1>4
<1>6. asked \notin flips
  BY <1>3, <1>5
<1>7. QED
  BY <1>2, <1>5, <1>6

\* netplay_get_cmd agrees to a flip.
LEMMA CommandKeeps ==
    ASSUME GameInv, Frames < Packets, PollCommand
    PROVE  DataKept
<1>1. /\ "client" \in Node /\ "host" \in Node /\ CountInv /\ FlipsInv /\ Typed
      /\ Flipped("host") /\ Flipped("client") /\ np["client"] \in PeerType
  BY DEF GameInv, FlipsInv, CountInv, Typed, Node
<1>2. InPoll("client") /\ request = "asked"
  BY DEF PollCommand
<1>3. /\ asked \in Nat \ {0} /\ asked <= FrameLimit + 2 * Packets
      /\ np["host"].flipFrame < asked /\ np["client"].flipFrame = np["host"].flipFrame
      /\ np["host"].frame <= asked /\ np["client"].frame <= asked
      /\ np["host"].flipFrame <= np["client"].other
      /\ np["host"].flipFrame \in Nat /\ np["client"].other \in Nat
      /\ np["host"].frame \in Nat /\ np["client"].frame \in Nat
  BY <1>1, <1>2, FlipLies, FlipFacts, Numbers
<1>4. /\ request' = "acked" /\ flips' = flips \union {asked}
      /\ np' = [np EXCEPT !["client"].flip = 1 - @, !["client"].flipFrame = asked]
      /\ packed' = packed /\ asked' = asked
  <2>1. ~ (asked < np["client"].flipFrame)
    BY <1>3
  <2>2. QED
    BY <2>1 DEF PollCommand
<1>5. /\ np'["host"] = np["host"]
      /\ np'["client"] = [np["client"] EXCEPT !.flip = 1 - np["client"].flip, !.flipFrame = asked]
  BY <1>1, <1>4 DEF Typed
<1>6. PICK s : s = np'["client"]
  OBVIOUS
<1>7. /\ s.core = np["client"].core /\ s.frame = np["client"].frame
      /\ s.other = np["client"].other /\ s.read = np["client"].read
      /\ s.buffer = np["client"].buffer /\ s.pc = np["client"].pc
      /\ s.flip = 1 - np["client"].flip /\ s.flipFrame = asked
  <2>1. PICK turn : turn = 1 - np["client"].flip
    OBVIOUS
  <2>2. s = [np["client"] EXCEPT !.flip = turn, !.flipFrame = asked]
    BY <1>5, <1>6, <2>1
  <2>3. QED
    BY <1>1, <2>1, <2>2 DEF PeerType
<1>8. /\ asked \notin flips /\ Known("host") = flips /\ Known("client") = flips
      /\ \A x \in flips : x < asked /\ x <= np["host"].flipFrame
  BY <1>2, NewFlip
<1>9. \A m \in Node : Held(m)' /\ States(m)'
  <2>1. ASSUME NEW m \in Node PROVE \A f \in 0 .. np[m].frame - 1 : Game!Swapped(f)' = Game!Swapped(f)
    <3>1. m = "host" \/ m = "client"
      BY DEF Node
    <3>2. \A f \in 0 .. np[m].frame - 1 : f \in Int /\ f < asked
      BY <1>3, <3>1
    <3>3. QED
      BY <1>3, <1>4, <3>2, FlipAhead
  <2>2. Held("host")' /\ States("host")'
    BY <1>1, <1>4, <1>5, <2>1, SettledKeeps
  <2>3. Held("client")' /\ States("client")'
    BY <1>1, <1>4, <1>6, <1>7, <2>1, SettledKeeps
  <2>4. QED
    BY <2>2, <2>3 DEF Node
<1>10. IsFiniteSet(flips') /\ flips' \subseteq 0 .. FrameLimit + 2 * Packets
  <2>1. IsFiniteSet(flips) /\ flips \subseteq 0 .. FrameLimit + 2 * Packets
    BY <1>1 DEF FlipsInv
  <2>2. IsFiniteSet(flips')
    BY <1>4, <2>1, FS_AddElement
  <2>3. asked \in 0 .. FrameLimit + 2 * Packets
    BY <1>3, NetplayAssumption
  <2>4. QED
    BY <1>4, <2>1, <2>2, <2>3
<1>11. Flipped("host")'
  <2>1. Known("host")' = flips
    BY <1>4, <1>8 DEF Known
  <2>2. QED
    BY <1>1, <1>5, <1>8, <2>1 DEF Flipped
<1>12. Flipped("client")'
  <2>1. Known("client")' = flips'
    BY DEF Known
  <2>2. (1 - np["client"].flip) = Cardinality(flips') % 2
    <3>1. IsFiniteSet(flips)
      BY <1>1 DEF FlipsInv
    <3>2. PICK c : c = Cardinality(flips)
      OBVIOUS
    <3>3. Cardinality(flips') = c + 1 /\ c \in Nat
      BY <1>4, <1>8, <3>1, <3>2, FS_AddElement, FS_CardinalityType
    <3>4. np["client"].flip = c % 2
      BY <1>1, <1>8, <3>2 DEF Flipped
    <3>5. QED
      BY <3>3, <3>4, Toggle
  <2>3. \A x \in flips' : x = asked \/ (x < asked /\ x <= np["client"].other)
    <3>1. \A x \in flips : x \in Nat
      BY <1>1 DEF FlipsInv
    <3>2. QED
      BY <1>3, <1>4, <1>8, <3>1
  <2>4. np'["client"].flip = 1 - np["client"].flip /\ np'["client"].flipFrame = asked
        /\ np'["client"].other = np["client"].other
    BY <1>6, <1>7
  <2>5. asked \in flips' /\ asked > 0 /\ flips' # {}
    BY <1>3, <1>4
  <2>6. QED
    BY <2>1, <2>2, <2>3, <2>4, <2>5 DEF Flipped
<1>13. FlipsInv'
  <2>1. \A m \in Node : Flipped(m)'
    BY <1>11, <1>12 DEF Node
  <2>2. asked' \in flips'
    BY <1>4
  <2>3. QED
    BY <1>10, <2>1, <2>2 DEF FlipsInv
<1>14. QED
  BY <1>9, <1>13 DEF DataKept

\* The host hears of the flip.
LEMMA AnswerKeeps ==
    ASSUME GameInv, Frames < Packets, GetResponse, request = "acked"
    PROVE  DataKept /\ Resting
<1>1. /\ "client" \in Node /\ "host" \in Node /\ CountInv /\ FlipsInv /\ Typed
      /\ Flipped("host") /\ Flipped("client") /\ np["host"] \in PeerType
  BY DEF GameInv, FlipsInv, CountInv, Typed, Node
<1>2. /\ asked \in Nat \ {0} /\ np["host"].flipFrame < asked
      /\ np["host"].flipFrame <= np["host"].other
      /\ np["host"].flipFrame \in Nat /\ np["host"].other \in Nat
  BY <1>1, FlipLies, Numbers
<1>3. PICK s : s = np'["host"]
  OBVIOUS
<1>4. /\ request' = "none" /\ flips' = flips /\ packed' = packed /\ asked' = asked
      /\ np["host"].pc = "response"
      /\ np' = [np EXCEPT !["host"] = [[np["host"] EXCEPT !.pc = "idle"] EXCEPT
           !.flip = 1 - [np["host"] EXCEPT !.pc = "idle"].flip, !.flipFrame = asked]]
  BY DEF GetResponse
<1>5. np'["client"] = np["client"]
  BY <1>1, <1>4 DEF Typed
<1>6. /\ s.core = np["host"].core /\ s.frame = np["host"].frame
      /\ s.other = np["host"].other /\ s.read = np["host"].read
      /\ s.buffer = np["host"].buffer /\ s.pc = "idle"
      /\ s.flip = 1 - np["host"].flip /\ s.flipFrame = asked
  <2>1. PICK r : r = [np["host"] EXCEPT !.pc = "idle"]
    OBVIOUS
  <2>2. /\ r \in PeerType /\ r.core = np["host"].core /\ r.frame = np["host"].frame
        /\ r.other = np["host"].other /\ r.read = np["host"].read
        /\ r.buffer = np["host"].buffer /\ r.pc = "idle" /\ r.flip = np["host"].flip
    BY <1>1, <2>1 DEF PeerType
  <2>3. PICK turn : turn = 1 - r.flip
    OBVIOUS
  <2>4. s = [r EXCEPT !.flip = turn, !.flipFrame = asked]
    BY <1>1, <1>3, <1>4, <2>1, <2>3 DEF Typed
  <2>5. QED
    BY <2>2, <2>3, <2>4 DEF PeerType
<1>7. \A m \in Node : Held(m)' /\ States(m)'
  <2>1. \A f : Game!Swapped(f)' = Game!Swapped(f)
    BY <1>4, FlipsSame
  <2>2. Held("host")' /\ States("host")'
    BY <1>1, <1>3, <1>4, <1>6, <2>1, SettledKeeps
  <2>3. Held("client")' /\ States("client")'
    BY <1>1, <1>4, <1>5, OtherKeeps
  <2>4. QED
    BY <2>2, <2>3 DEF Node
<1>8. Flipped("client")'
  <2>1. Known("client")' = Known("client")
    BY <1>4 DEF Known
  <2>2. QED
    BY <1>1, <1>5, <2>1 DEF Flipped
<1>9. Flipped("host")'
  <2>1. Known("host")' = flips /\ Known("host") = flips \ {asked} /\ asked \in flips
    BY <1>1, <1>4 DEF Known, FlipsInv
  <2>2. (1 - np["host"].flip) = Cardinality(flips) % 2
    <3>1. IsFiniteSet(flips)
      BY <1>1 DEF FlipsInv
    <3>2. PICK c : c = Cardinality(flips)
      OBVIOUS
    <3>3. Cardinality(flips \ {asked}) = c - 1 /\ c \in Nat /\ c # 0
      BY <2>1, <3>1, <3>2, FS_RemoveElement, FS_CardinalityType, FS_EmptySet
    <3>4. np["host"].flip = (c - 1) % 2
      BY <1>1, <2>1, <3>3 DEF Flipped
    <3>5. c - 1 \in Nat /\ c = (c - 1) + 1
      BY <3>3
    <3>6. QED
      BY <3>2, <3>4, <3>5, Toggle
  <2>3. \A x \in flips : x = asked \/ (x < asked /\ x <= np["host"].other)
    <3>1. \A x \in flips : x \in Nat
      BY <1>1 DEF FlipsInv
    <3>2. \A x \in flips \ {asked} : x = np["host"].flipFrame \/ x < np["host"].flipFrame
      BY <1>1, <2>1 DEF Flipped
    <3>3. QED
      BY <1>2, <3>1, <3>2
  <2>4. np'["host"].flip = 1 - np["host"].flip /\ np'["host"].flipFrame = asked
        /\ np'["host"].other = np["host"].other
    BY <1>3, <1>6
  <2>5. asked > 0 /\ flips # {}
    BY <1>2, <2>1
  <2>6. QED
    BY <2>1, <2>2, <2>3, <2>4, <2>5 DEF Flipped
<1>10. FlipsInv'
  <2>1. \A m \in Node : Flipped(m)'
    BY <1>8, <1>9 DEF Node
  <2>2. QED
    BY <1>1, <1>4, <2>1 DEF FlipsInv
<1>11. \A m \in Node : np'[m].other = np[m].other
  BY <1>3, <1>5, <1>6 DEF Node
<1>12. QED
  BY <1>4, <1>7, <1>10, <1>11 DEF DataKept, Resting

\* Nothing happens.
LEMMA StutterKeeps ==
    ASSUME GameInv, UNCHANGED vars
    PROVE  DataKept /\ Resting
<1>1. \A m \in Node : Held(m)' /\ States(m)'
  BY OtherKeeps DEF vars
<1>2. FlipsInv'
  BY DEF GameInv, FlipsInv, Flipped, Known, vars
<1>3. Resting
  BY DEF vars, Resting
<1>4. QED
  BY <1>1, <1>2, <1>3 DEF DataKept

\* All steps.
LEMMA GameStep ==
    ASSUME GameInv, Frames < Packets, [Next]_vars
    PROVE  GameInv'
<1>1. CountInv'
  BY CountStep DEF GameInv
<1>2. ASSUME NEW n \in Node, NodeStep(n) PROVE DataKept
  BY <1>2, PreFrameKeeps, PacketKeeps, NothingKeeps, TimeoutKeeps, EofKeeps, RunFrameKeeps,
     LeavesKeeps DEF NodeStep
<1>3. DataKept
  BY <1>2, CommandKeeps, FlipUsersKeeps, NoAnswerKeeps, AnswerKeeps, StutterKeeps DEF Next
<1>4. QED
  BY <1>1, <1>3 DEF DataKept, GameInv

\* netplay_new starts with an empty game.
LEMMA GameInit ==
    ASSUME Init
    PROVE  GameInv
<1>1. CountInv
  BY InitCounts
<1>2. \A n \in Node : np[n] = NewNetplay(n) /\ packed[n] = <<>> /\ Sent(n) = 0
  BY DEF Init, Sent
<1>3. \A n \in Node : /\ np[n].core = <<>> /\ np[n].frame = 0 /\ np[n].other = 0
                      /\ np[n].flip = 0 /\ np[n].flipFrame = 0
  <2>1. ASSUME NEW n \in Node
        PROVE  LET r == NewNetplay(n) IN
               /\ r.core = <<>> /\ r.frame = 0 /\ r.other = 0 /\ r.flip = 0 /\ r.flipFrame = 0
    BY DEF NewNetplay
  <2>2. QED
    BY <1>2, <2>1
<1>4. \A n \in Node : Held(n)
  BY <1>2, <1>3 DEF Held
<1>5. \A n \in Node : States(n)
  BY <1>2, <1>3 DEF States, Plays
<1>6. flips = {} /\ request = "none"
  BY DEF Init
<1>7. IsFiniteSet(flips) /\ Cardinality(flips) % 2 = 0
  BY <1>6, FS_EmptySet
<1>8. \A n \in Node : Flipped(n)
  BY <1>3, <1>6, <1>7 DEF Flipped, Known
<1>9. FlipsInv
  BY <1>6, <1>7, <1>8 DEF FlipsInv
<1>10. QED
  BY <1>1, <1>4, <1>5, <1>9 DEF GameInv

\* In every state that netplay reaches, the core of each peer and every state it may
\* roll back to are the game on the input it has given and heard and, beyond that,
\* on the predictions on record in the ring: for every number of lag frames below
\* the frames in a packet, whatever the network loses, repeats or reorders.
THEOREM GameInvariant ==
    ASSUME Frames < Packets
    PROVE  Spec => []GameInv
<1>1. Init => GameInv
  BY GameInit
<1>2. GameInv /\ [Next]_vars => GameInv'
  BY GameStep
<1>3. QED
  BY <1>1, <1>2, PTL DEF Spec

-----------------------------------------------------------------------------
(* The saved states                                                          *)

\* Games are the same if they agree frame by frame.
LEMMA SameGames ==
    ASSUME NEW s \in Games, NEW t \in Games, Len(s) = Len(t),
           \A j \in 1 .. Len(s) : s[j] = t[j]
    PROVE  s = t
  BY DEF Games

\* A game of one frame more.
LEMMA OneFrameMore ==
    ASSUME NEW n, NEW k \in Nat, NEW s \in Games, NEW t \in Games,
           Plays(n, s, k), Plays(n, t, k + 1)
    PROVE  t = Append(s, Joins(n, k))
<1>1. /\ Len(s) = k /\ \A j \in 1 .. k : s[j] = Joins(n, j - 1)
      /\ Len(t) = k + 1 /\ \A j \in 1 .. k + 1 : t[j] = Joins(n, j - 1)
  BY DEF Plays
<1>2. PICK x : x = Joins(n, k)
  OBVIOUS
<1>3. t[k + 1] = x
  <2>1. k + 1 \in 1 .. k + 1 /\ (k + 1) - 1 = k
    OBVIOUS
  <2>2. t[k + 1] = Joins(n, (k + 1) - 1)
    BY <1>1, <2>1
  <2>3. QED
    BY <1>2, <2>1, <2>2
<1>4. t \in Seq(Input \X Input) /\ s \in Seq(Input \X Input)
  BY DEF Games
<1>5. x \in Input \X Input
  <2>1. k + 1 \in 1 .. Len(t)
    BY <1>1
  <2>2. QED
    BY <1>3, <1>4, <2>1
<1>6. PICK u : u = Append(s, x)
  OBVIOUS
<1>7. /\ u \in Games /\ Len(u) = k + 1 /\ u[k + 1] = x
      /\ \A j \in 1 .. k : u[j] = s[j]
  BY <1>1, <1>4, <1>5, <1>6 DEF Games
<1>8. \A j \in 1 .. k : j \in 1 .. k + 1
  OBVIOUS
<1>9. \A j \in 1 .. k : u[j] = t[j]
  BY <1>1, <1>7, <1>8
<1>10. \A j \in 1 .. k + 1 : j \in 1 .. k \/ j = k + 1
  OBVIOUS
<1>11. \A j \in 1 .. k + 1 : u[j] = t[j]
  BY <1>3, <1>7, <1>9, <1>10
<1>12. t = u
  BY <1>1, <1>7, <1>11, SameGames
<1>13. QED
  BY <1>2, <1>6, <1>12

\* RanOn reads off the slot what the frame ran on.
LEMMA RanIsJoined ==
    ASSUME GameInv, Frames < Packets, NEW n \in Node,
           NEW f \in np[n].other .. Sent(n) - 1, f < np[n].frame
    PROVE  RanOn(n, f) = Joins(n, f)
<1>1. CountInv /\ FlipsInv /\ Fits(n, np[n], f)
  BY DEF GameInv, Held
<1>2. /\ np[n].frame \in Nat /\ np[n].other \in Nat /\ Sent(n) \in Nat
      /\ np[n].flipFrame \in Nat /\ asked \in Nat
      /\ Frames \in Nat /\ FrameLimit \in Nat /\ Packets \in Nat
  BY <1>1, Numbers, NetplayAssumption
<1>3. f \in Nat /\ np[n].other <= f
  BY <1>2
<1>4. n = "host" /\ request = "acked" => f < asked
  <2>1. request = "acked" => np["host"].frame <= asked
    BY <1>1, FlipLies
  <2>2. QED
    BY <1>2, <1>3, <2>1
<1>5. \A port \in {0, 1} : FlipPort(np[n], f, port) = IF Game!Swapped(f) THEN 1 - port ELSE port
  BY <1>1, <1>2, <1>3, <1>4, PortIs
<1>6. PICK own, theirs : own = Slot(n, f).self /\ theirs = Theirs(Slot(n, f))
  OBVIOUS
<1>7. RanOn(n, f) = << IF Port(n) = FlipPort(np[n], f, 0) THEN theirs ELSE own,
                       IF Port(n) = FlipPort(np[n], f, 1) THEN theirs ELSE own >>
  BY <1>6 DEF RanOn, Theirs
<1>8. Joins(n, f) = Ports(n, f, own, theirs)
  <2>1. ~ (f < np[n].other)
    BY <1>2, <1>3
  <2>2. Took(n, f) = theirs
    BY <1>6, <2>1 DEF Took
  <2>3. packed[n][f + 1] = own
    BY <1>1, <1>6 DEF Fits, Slot
  <2>4. QED
    BY <2>2, <2>3 DEF Joins
<1>9. Game!Swapped(f) \in BOOLEAN
  BY SwappedIs
<1>10. CASE Game!Swapped(f)
  <2>1. FlipPort(np[n], f, 0) = 1 /\ FlipPort(np[n], f, 1) = 0
    BY <1>5, <1>10
  <2>2. CASE n = "host"
    <3>1. RanOn(n, f) = <<theirs, own>>
      BY <1>7, <2>1, <2>2 DEF Port
    <3>2. Ports(n, f, own, theirs) = <<theirs, own>>
      BY <1>9, <1>10, <2>2 DEF Ports
    <3>3. QED
      BY <1>8, <3>1, <3>2
  <2>3. CASE n # "host"
    <3>1. RanOn(n, f) = <<own, theirs>>
      BY <1>7, <2>1, <2>3 DEF Port
    <3>2. Ports(n, f, own, theirs) = <<own, theirs>>
      BY <1>9, <1>10, <2>3 DEF Ports
    <3>3. QED
      BY <1>8, <3>1, <3>2
  <2>4. QED
    BY <2>2, <2>3
<1>11. CASE ~ Game!Swapped(f)
  <2>1. FlipPort(np[n], f, 0) = 0 /\ FlipPort(np[n], f, 1) = 1
    BY <1>5, <1>11
  <2>2. CASE n = "host"
    <3>1. RanOn(n, f) = <<own, theirs>>
      BY <1>7, <2>1, <2>2 DEF Port
    <3>2. Ports(n, f, own, theirs) = <<own, theirs>>
      BY <1>9, <1>11, <2>2 DEF Ports
    <3>3. QED
      BY <1>8, <3>1, <3>2
  <2>3. CASE n # "host"
    <3>1. RanOn(n, f) = <<theirs, own>>
      BY <1>7, <2>1, <2>3 DEF Port
    <3>2. Ports(n, f, own, theirs) = <<theirs, own>>
      BY <1>9, <1>11, <2>3 DEF Ports
    <3>3. QED
      BY <1>8, <3>1, <3>2
  <2>4. QED
    BY <2>2, <2>3
<1>12. QED
  BY <1>10, <1>11

\* The states in the ring are states of the core.
LEMMA GamesHeld ==
    ASSUME CountInv, NEW n \in Node
    PROVE  /\ np[n].core \in Games
           /\ \A f \in np[n].other .. Sent(n) - 1 : Slot(n, f).state \in Games
<1>1. np[n] \in PeerType /\ np[n].other \in Nat
  BY Numbers DEF CountInv, Typed
<1>2. ASSUME NEW f \in np[n].other .. Sent(n) - 1 PROVE Slot(n, f).state \in Games
  <2>1. f \in Nat
    BY <1>1
  <2>2. f % BufferSize \in 0 .. BufferSize - 1
    BY <2>1, InRing
  <2>3. f % BufferSize \in 0 .. Frames
    BY <2>2, RingSize, NetplayAssumption
  <2>4. QED
    BY <1>1, <2>3 DEF Slot, PeerType, SlotType
<1>3. QED
  BY <1>1, <1>2 DEF PeerType

\* The games held make the saved states a chain.
LEMMA StatesChain ==
    ASSUME GameInv, Frames < Packets
    PROVE  SavedStatesChain
<1> SUFFICES ASSUME NEW n \in Node
             PROVE  /\ \A f \in np[n].other .. Sent(n) - 2 :
                         Slot(n, f + 1).state = Append(Slot(n, f).state, RanOn(n, f))
                    /\ (np[n].other < np[n].frame /\ np[n].frame = Sent(n)) =>
                         np[n].core = Append(Slot(n, np[n].frame - 1).state,
                                             RanOn(n, np[n].frame - 1))
  BY DEF SavedStatesChain
<1>1. CountInv /\ States(n)
  BY DEF GameInv
<1>2. /\ np[n].frame \in Nat /\ np[n].other \in Nat /\ Sent(n) \in Nat
      /\ Sent(n) <= np[n].frame + 1
  BY <1>1, Numbers
<1>3. ASSUME NEW f \in np[n].other .. Sent(n) - 2
      PROVE  Slot(n, f + 1).state = Append(Slot(n, f).state, RanOn(n, f))
  <2>1. /\ f \in Nat /\ f < np[n].frame /\ f \in np[n].other .. Sent(n) - 1
        /\ f + 1 \in np[n].other .. Sent(n) - 1
    BY <1>2
  <2>2. Plays(n, Slot(n, f).state, f) /\ Plays(n, Slot(n, f + 1).state, f + 1)
    BY <1>1, <2>1 DEF States
  <2>3. Slot(n, f).state \in Games /\ Slot(n, f + 1).state \in Games
    BY <1>1, <2>1, GamesHeld
  <2>4. RanOn(n, f) = Joins(n, f)
    BY <2>1, RanIsJoined
  <2>5. QED
    BY <2>1, <2>2, <2>3, <2>4, OneFrameMore
<1>4. ASSUME np[n].other < np[n].frame, np[n].frame = Sent(n)
      PROVE  np[n].core = Append(Slot(n, np[n].frame - 1).state, RanOn(n, np[n].frame - 1))
  <2>1. PICK f : f = np[n].frame - 1
    OBVIOUS
  <2>2. /\ f \in Nat /\ f < np[n].frame /\ f \in np[n].other .. Sent(n) - 1
        /\ np[n].frame = f + 1
    BY <1>2, <1>4, <2>1
  <2>3. Plays(n, Slot(n, f).state, f) /\ Plays(n, np[n].core, f + 1)
    BY <1>1, <2>2 DEF States
  <2>4. Slot(n, f).state \in Games /\ np[n].core \in Games
    BY <1>1, <2>2, GamesHeld
  <2>5. RanOn(n, f) = Joins(n, f)
    BY <2>2, RanIsJoined
  <2>6. np[n].core = Append(Slot(n, f).state, RanOn(n, f))
    BY <2>2, <2>3, <2>4, <2>5, OneFrameMore
  <2>7. QED
    BY <2>1, <2>6
<1>5. QED
  BY <1>3, <1>4

\* Each state saved by netplay_pre_frame or by a replay is the one before it plus the
\* input that frame ran on, and the core is the last of them plus its input: so
\* comparing predictions with real input in netplay_post_frame finds every frame that
\* ran on a wrong guess, across replays, flips and reuse of the slots.
THEOREM RingHoldsTheGame ==
    ASSUME Frames < Packets
    PROVE  Spec => []RingInv
<1>1. GameInv => RingInv
  BY StatesChain, CountsAreSound DEF RingInv, GameInv
<1>2. QED
  BY <1>1, GameInvariant, PTL

-----------------------------------------------------------------------------
(* The one game both users were promised                                     *)

\* The inputs n has offered to the game; that of frame 0 is zero by convention.
Offers(n) == IF packed[n] = <<>> THEN <<NoInput>> ELSE packed[n]

\* The promised game, in the terms of Netplay.
LEMMA GameHas ==
    /\ Game!Node = Node
    /\ Game!vars = <<[n \in Node |-> Offers(n)], flips, [n \in Node |-> Reliable(n)]>>
    /\ \A f : Game!JointInput(f) =
         IF Game!Swapped(f) THEN <<Offers("client")[f + 1], Offers("host")[f + 1]>>
         ELSE <<Offers("host")[f + 1], Offers("client")[f + 1]>>
<1>1. Game!Node = Node /\ "host" \in Node /\ "client" \in Node
  BY DEF Game!Node, Node
<1>2. Game!vars = <<[n \in Node |-> Offers(n)], flips, [n \in Node |-> Reliable(n)]>>
  BY DEF Game!vars, Offers
<1>3. ASSUME NEW f
      PROVE  Game!JointInput(f) =
               IF Game!Swapped(f) THEN <<Offers("client")[f + 1], Offers("host")[f + 1]>>
               ELSE <<Offers("host")[f + 1], Offers("client")[f + 1]>>
  <2>1. PICK all : all = [n \in Node |-> Offers(n)]
    OBVIOUS
  <2>2. Game!JointInput(f) =
          IF Game!Swapped(f) THEN <<all["client"][f + 1], all["host"][f + 1]>>
          ELSE <<all["host"][f + 1], all["client"][f + 1]>>
    BY <2>1 DEF Game!JointInput, Offers
  <2>3. all["client"] = Offers("client") /\ all["host"] = Offers("host")
    BY <1>1, <2>1
  <2>4. QED
    BY <2>2, <2>3, Zenon
<1>4. QED
  BY <1>1, <1>2, <1>3

\* What has been offered covers what has been heard and settled.
LEMMA OffersHold ==
    ASSUME GameInv, NEW n \in Node
    PROVE  /\ Offers(n) \in Seq(Input) /\ Len(Offers(n)) \in Nat \ {0}
           /\ Len(Offers(n)) = IF Sent(n) = 0 THEN 1 ELSE Sent(n)
           /\ \A f \in Nat : f < Len(Offers(n)) => Offers(n)[f + 1] = Given(n, f)
           /\ \A f \in Nat : f < Sent(n) => packed[n][f + 1] = Given(n, f)
           /\ np[n].read <= Len(Offers(n)) /\ np[n].read <= Len(Offers(Peer(n)))
<1>1. /\ CountInv /\ Held(n) /\ Typed /\ Standing(n) /\ Counts(n)
      /\ packed \in [Node -> Seq(Input)]
  BY Counting DEF GameInv, CountInv, Typed
<1>2. /\ np[n].read \in Nat /\ Sent(n) \in Nat /\ Sent(Peer(n)) \in Nat /\ Peer(n) \in Node
      /\ np[n].read <= Sent(n) /\ (np[n].read <= 1 \/ np[n].read <= Sent(Peer(n)))
  BY <1>1, Numbers, SentIsNat, PeerIsNode DEF Counts
<1>3. ASSUME NEW m \in Node
      PROVE  /\ Offers(m) \in Seq(Input) /\ Len(Offers(m)) \in Nat \ {0}
             /\ Len(Offers(m)) = IF Sent(m) = 0 THEN 1 ELSE Sent(m)
             /\ Sent(m) = 0 => Offers(m)[1] = NoInput
             /\ Sent(m) # 0 => Offers(m) = packed[m]
  <2>1. NoInput \in Input
    BY DEF Input
  <2>2. CASE packed[m] = <<>>
    <3>1. Offers(m) = <<NoInput>> /\ Sent(m) = 0
      BY <2>2 DEF Offers, Sent
    <3>2. QED
      BY <2>1, <3>1
  <2>3. CASE packed[m] # <<>>
    <3>1. Offers(m) = packed[m] /\ packed[m] \in Seq(Input) /\ Len(packed[m]) # 0
      BY <1>1, <2>3 DEF Offers
    <3>2. QED
      BY <3>1 DEF Sent
  <2>4. QED
    BY <2>2, <2>3
<1>4. \A f \in Nat : f < Sent(n) => packed[n][f + 1] = Given(n, f)
  <2> SUFFICES ASSUME NEW f \in Nat, f < Sent(n) PROVE packed[n][f + 1] = Given(n, f)
    OBVIOUS
  <2>1. packed[n] # <<>>
    BY <1>2 DEF Sent
  <2>2. packed[n][1] = NoInput
    BY <1>1, <2>1 DEF Held
  <2>3. QED
    BY <2>2 DEF Given
<1>5. \A f \in Nat : f < Len(Offers(n)) => Offers(n)[f + 1] = Given(n, f)
  <2> SUFFICES ASSUME NEW f \in Nat, f < Len(Offers(n)) PROVE Offers(n)[f + 1] = Given(n, f)
    OBVIOUS
  <2>1. CASE Sent(n) = 0
    <3>1. Len(Offers(n)) = 1 /\ Offers(n)[1] = NoInput
      BY <1>3, <2>1
    <3>2. f = 0
      BY <3>1
    <3>3. QED
      BY <3>1, <3>2 DEF Given
  <2>2. CASE Sent(n) # 0
    <3>1. Offers(n) = packed[n] /\ f < Sent(n)
      BY <1>3, <2>2
    <3>2. QED
      BY <1>4, <3>1
  <2>3. QED
    BY <2>1, <2>2
<1>6. np[n].read <= Len(Offers(n)) /\ np[n].read <= Len(Offers(Peer(n)))
  BY <1>2, <1>3
<1>7. QED
  BY <1>3, <1>4, <1>5, <1>6

\* What a peer calls reliable is the game of the inputs that both have offered.
LEMMA ReliableIs ==
    ASSUME GameInv, NEW n \in Node
    PROVE  Reliable(n) = Game!TrueGame(np[n].other)
<1>1. /\ CountInv /\ States(n) /\ Pointers(n)
  BY DEF GameInv, CountInv
<1>2. PICK k : k = np[n].other
  OBVIOUS
<1>3. PICK s : s = Reliable(n)
  OBVIOUS
<1>4. /\ k \in Nat /\ np[n].frame \in Nat /\ Sent(n) \in Nat /\ np[n].read \in Nat
      /\ k <= np[n].frame /\ np[n].frame <= Sent(n) /\ k <= np[n].read
      /\ Peer(n) \in Node
  BY <1>1, <1>2, Numbers
<1>5. s \in Games /\ Plays(n, s, k)
  <2>1. CASE k = np[n].frame
    <3>1. s = np[n].core
      BY <1>2, <1>3, <2>1 DEF Reliable
    <3>2. QED
      BY <1>1, <2>1, <3>1, GamesHeld DEF States
  <2>2. CASE k # np[n].frame
    <3>1. s = Slot(n, k).state
      BY <1>1, <1>2, <1>3, <2>2 DEF Reliable, Pointers, Slot
    <3>2. k \in np[n].other .. Sent(n) - 1
      BY <1>2, <1>4, <2>2
    <3>3. QED
      BY <1>1, <3>1, <3>2, GamesHeld DEF States
  <2>3. QED
    BY <2>1, <2>2
<1>6. ASSUME NEW j \in 1 .. k PROVE s[j] = Game!JointInput(j - 1)
  <2>1. PICK f : f = j - 1
    OBVIOUS
  <2>2. f \in Nat /\ f + 1 = j /\ f < k
    BY <1>4, <2>1
  <2>3. s[j] = Joins(n, f)
    BY <1>5, <2>1 DEF Plays
  <2>4. Joins(n, f) = Ports(n, f, Given(n, f), Given(Peer(n), f))
    <3>1. Took(n, f) = Given(Peer(n), f)
      BY <1>2, <2>2 DEF Took
    <3>2. packed[n][f + 1] = Given(n, f)
      <4>1. f < Sent(n)
        BY <1>4, <2>2
      <4>2. QED
        BY <2>2, <4>1, OffersHold
    <3>3. QED
      BY <3>1, <3>2 DEF Joins
  <2>5. Offers(n)[f + 1] = Given(n, f) /\ Offers(Peer(n))[f + 1] = Given(Peer(n), f)
    <3>1. /\ np[n].read <= Len(Offers(n)) /\ np[n].read <= Len(Offers(Peer(n)))
          /\ Len(Offers(n)) \in Nat /\ Len(Offers(Peer(n))) \in Nat
      BY <1>4, OffersHold
    <3>2. f < Len(Offers(n)) /\ f < Len(Offers(Peer(n)))
      BY <1>4, <2>2, <3>1
    <3>3. QED
      BY <1>4, <2>2, <3>2, OffersHold
  <2>6. PICK b \in BOOLEAN : b = Game!Swapped(f)
    BY SwappedIs
  <2>7. Game!JointInput(f) =
          IF b THEN <<Offers("client")[f + 1], Offers("host")[f + 1]>>
          ELSE <<Offers("host")[f + 1], Offers("client")[f + 1]>>
    BY <2>6, GameHas
  <2>8. Joins(n, f) = IF (n = "host") = b THEN <<Given(Peer(n), f), Given(n, f)>>
                      ELSE <<Given(n, f), Given(Peer(n), f)>>
    BY <2>4, <2>6 DEF Ports
  <2>9. CASE n = "host"
    <3>1. Peer(n) = "client"
      BY <2>9 DEF Peer
    <3>2. QED
      BY <2>1, <2>3, <2>5, <2>6, <2>7, <2>8, <2>9, <3>1
  <2>10. CASE n = "client"
    <3>1. Peer(n) = "host"
      BY <2>10 DEF Peer
    <3>2. QED
      BY <2>1, <2>3, <2>5, <2>6, <2>7, <2>8, <2>10, <3>1
  <2>11. QED
    BY <2>9, <2>10 DEF Node
<1>7. s = [j \in 1 .. k |-> Game!JointInput(j - 1)]
  <2>1. s \in Seq(Input \X Input) /\ Len(s) = k
    BY <1>5 DEF Games, Plays
  <2>2. s = [j \in 1 .. k |-> s[j]]
    BY <2>1
  <2>3. QED
    BY <1>6, <2>2, Zenon
<1>8. QED
  BY <1>2, <1>3, <1>7, Zenon DEF Game!TrueGame

\* The game after k frames is what those frames say it is.
LEMMA TrueGameStays ==
    ASSUME NEW k \in Nat,
           \A m \in Node : \A f \in 0 .. k - 1 : Offers(m)'[f + 1] = Offers(m)[f + 1],
           \A f \in 0 .. k - 1 : Game!Swapped(f)' = Game!Swapped(f)
    PROVE  Game!TrueGame(k)' = Game!TrueGame(k)
<1>1. "host" \in Node /\ "client" \in Node
  BY DEF Node
<1>2. ASSUME NEW f \in 0 .. k - 1 PROVE Game!JointInput(f)' = Game!JointInput(f)
  <2>1. Game!JointInput(f) =
          IF Game!Swapped(f) THEN <<Offers("client")[f + 1], Offers("host")[f + 1]>>
          ELSE <<Offers("host")[f + 1], Offers("client")[f + 1]>>
    BY GameHas
  <2>2. PICK all : all = [n \in Node |-> Offers(n)']
    OBVIOUS
  <2>3. Game!JointInput(f)' =
          IF Game!Swapped(f)' THEN <<all["client"][f + 1], all["host"][f + 1]>>
          ELSE <<all["host"][f + 1], all["client"][f + 1]>>
    BY <2>2 DEF Game!JointInput, Offers
  <2>4. all["client"] = Offers("client")' /\ all["host"] = Offers("host")'
    BY <1>1, <2>2
  <2>5. /\ Offers("client")'[f + 1] = Offers("client")[f + 1]
        /\ Offers("host")'[f + 1] = Offers("host")[f + 1]
        /\ Game!Swapped(f)' = Game!Swapped(f)
    BY <1>1
  <2>6. PICK b : b = Game!Swapped(f)
    OBVIOUS
  <2>7. PICK c, h : c = Offers("client")[f + 1] /\ h = Offers("host")[f + 1]
    OBVIOUS
  <2>8. Game!JointInput(f)' = IF b THEN <<c, h>> ELSE <<h, c>>
    <3>1. all["client"][f + 1] = c /\ all["host"][f + 1] = h /\ Game!Swapped(f)' = b
      BY <2>4, <2>5, <2>6, <2>7
    <3>2. QED
      BY <2>3, <3>1
  <2>9. Game!JointInput(f) = IF b THEN <<c, h>> ELSE <<h, c>>
    BY <2>1, <2>6, <2>7
  <2>10. QED
    BY <2>8, <2>9
<1>3. \A i \in 1 .. k : Game!JointInput(i - 1)' = Game!JointInput(i - 1)
  <2>1. \A i \in 1 .. k : i - 1 \in 0 .. k - 1
    OBVIOUS
  <2>2. QED
    BY <1>2, <2>1
<1>4. [i \in 1 .. k |-> Game!JointInput(i - 1)'] = [i \in 1 .. k |-> Game!JointInput(i - 1)]
  BY <1>3, Zenon
<1>5. QED
  BY <1>4, Zenon DEF Game!TrueGame

\* Every peer's reliable state is the game of the inputs offered.
TrueGames == \A n \in Node : Reliable(n) = Game!TrueGame(np[n].other)

\* Where nothing is offered, flipped or settled the promised game stands still.
LEMMA Idles ==
    ASSUME GameInv, TrueGames, TrueGames', Resting
    PROVE  UNCHANGED Game!vars
<1>1. \A n \in Node : np[n].other \in Nat
  BY Numbers DEF GameInv
<1>2. \A m \in Node : Offers(m)' = Offers(m)
  BY DEF Resting, Offers
<1>3. ASSUME NEW n \in Node PROVE Reliable(n)' = Reliable(n)
  <2>1. PICK k \in Nat : k = np[n].other
    BY <1>1
  <2>2. Game!TrueGame(k)' = Game!TrueGame(k)
    BY <1>2, FlipsSame, TrueGameStays DEF Resting
  <2>3. np'[n].other = k
    BY <2>1 DEF Resting
  <2>4. Reliable(n)' = Game!TrueGame(np[n].other)' /\ Reliable(n) = Game!TrueGame(np[n].other)
    BY DEF TrueGames
  <2>5. Game!TrueGame(np[n].other)' = Game!TrueGame(k)'
    BY <2>3, Zenon DEF Game!TrueGame
  <2>6. QED
    BY <2>1, <2>2, <2>4, <2>5, Zenon
<1>4. flips' = flips
  BY DEF Resting
<1>5. [n \in Node |-> Offers(n)]' = [n \in Node |-> Offers(n)]
  BY <1>2, Zenon
<1>6. [n \in Node |-> Reliable(n)]' = [n \in Node |-> Reliable(n)]
  BY <1>3, Zenon
<1>7. QED
  BY <1>4, <1>5, <1>6, Zenon DEF Game!vars, Offers

\* The games as they stand are moved on by nothing but a step of their own.
LEMMA GamesStay ==
    ASSUME GameInv, TrueGames, NEW n \in Node,
           \A m \in Node : \A f \in 0 .. np[n].other - 1 : Offers(m)'[f + 1] = Offers(m)[f + 1],
           \A f \in 0 .. np[n].other - 1 : Game!Swapped(f)' = Game!Swapped(f),
           np'[n].other = np[n].other, TrueGames'
    PROVE  Reliable(n)' = Reliable(n)
<1>1. PICK k : k = np[n].other
  OBVIOUS
<1>2. k \in Nat
  BY <1>1, Numbers DEF GameInv
<1>3. Game!TrueGame(k)' = Game!TrueGame(k)
  BY <1>1, <1>2, TrueGameStays
<1>4. np'[n].other = k
  BY <1>1
<1>5. Reliable(n)' = Game!TrueGame(np[n].other)' /\ Reliable(n) = Game!TrueGame(np[n].other)
  BY DEF TrueGames
<1>6. Game!TrueGame(np[n].other)' = Game!TrueGame(k)'
  BY <1>4, Zenon DEF Game!TrueGame
<1>7. QED
  BY <1>1, <1>3, <1>5, <1>6, Zenon

\* What netplay_pre_frame offers is the input of the next frame.
LEMMA OfferingStarts ==
    ASSUME GameInv, NEW n \in Node, NEW i \in Input, PreFrame(n, i)
    PROVE  /\ packed' = [packed EXCEPT ![n] = Append(@, i)] /\ flips' = flips
           /\ Sent(n) = np[n].frame /\ np[n].frame < FrameLimit /\ np[n].frame \in Nat
           /\ np[n].frame = 0 => i = NoInput
           /\ \A m \in Node : np'[m].other = np[m].other
<1>1. /\ CountInv /\ Typed /\ Standing(n)
  BY DEF GameInv, CountInv
<1>2. PICK s : np' = [np EXCEPT ![n] = s] /\ Started(n, i, s)
  BY <1>1, FrameStarts
<1>3. /\ packed' = [packed EXCEPT ![n] = Append(@, i)] /\ flips' = flips /\ np[n].pc = "idle"
  BY <1>1, FrameStarts
<1>4. np[n].frame < FrameLimit /\ Sent(n) = np[n].frame /\ np[n].frame \in Nat
  BY <1>1, <1>3, Numbers DEF PreFrame, Standing
<1>5. np[n].frame = 0 => i = NoInput
  BY <1>2 DEF Started
<1>6. \A m \in Node : np'[m].other = np[m].other
  BY <1>1, <1>2 DEF Typed, Started
<1>7. QED
  BY <1>3, <1>4, <1>5, <1>6

\* A frame that starts offers its input; that of frame 0 was there from the start.
LEMMA OffersOrIdles ==
    ASSUME GameInv, TrueGames, TrueGames', NEW n \in Node, NEW i \in Input, PreFrame(n, i)
    PROVE  [Game!Next]_(Game!vars)
<1>1. /\ packed' = [packed EXCEPT ![n] = Append(@, i)] /\ flips' = flips
      /\ Sent(n) = np[n].frame /\ np[n].frame < FrameLimit /\ np[n].frame \in Nat
      /\ np[n].frame = 0 => i = NoInput
      /\ \A m \in Node : np'[m].other = np[m].other
  BY OfferingStarts
<1>2. CountInv /\ packed \in [Node -> Seq(Input)] /\ packed[n] \in Seq(Input)
  BY DEF GameInv, CountInv, Typed
<1>3. \A m \in Node \ {n} : Offers(m)' = Offers(m)
  BY <1>1, <1>2 DEF Offers
<1>4. CASE np[n].frame = 0
  <2>1. packed[n] = <<>> /\ i = NoInput
    BY <1>1, <1>2, <1>4 DEF Sent
  <2>2. packed'[n] = <<NoInput>>
    BY <1>1, <1>2, <2>1
  <2>3. \A m \in Node : Offers(m)' = Offers(m)
    BY <1>3, <2>1, <2>2 DEF Offers
  <2>4. ASSUME NEW m \in Node PROVE Reliable(m)' = Reliable(m)
    BY <1>1, <2>3, FlipsSame, GamesStay
  <2>5. UNCHANGED Game!vars
    <3>1. [m \in Node |-> Offers(m)]' = [m \in Node |-> Offers(m)]
      BY <2>3, Zenon
    <3>2. [m \in Node |-> Reliable(m)]' = [m \in Node |-> Reliable(m)]
      BY <2>4, Zenon
    <3>3. QED
      BY <1>1, <3>1, <3>2, Zenon DEF Game!vars, Offers
  <2>6. QED
    BY <2>5
<1>5. CASE np[n].frame # 0
  <2>1. packed[n] # <<>> /\ Len(packed[n]) = np[n].frame
    BY <1>1, <1>2, <1>5 DEF Sent
  <2>2. packed'[n] = Append(packed[n], i) /\ packed'[n] # <<>>
    BY <1>1, <1>2
  <2>3. Offers(n)' = Append(Offers(n), i) /\ Len(Offers(n)) < FrameLimit
    BY <1>1, <2>1, <2>2 DEF Offers
  <2>4. ASSUME NEW m \in Node, NEW f \in Nat, f < Len(Offers(m))
        PROVE  Offers(m)'[f + 1] = Offers(m)[f + 1]
    <3>1. CASE m = n
      <4>1. PICK k : k = f + 1
        OBVIOUS
      <4>2. PICK own \in Seq(Input) : own = packed[n]
        BY <1>2
      <4>3. Offers(m) = own /\ Offers(m)' = Append(own, i)
        BY <2>1, <2>3, <3>1, <4>2 DEF Offers
      <4>4. k \in 1 .. Len(own)
        BY <2>4, <4>1, <4>3
      <4>5. Append(own, i)[k] = own[k]
        BY <4>2, <4>4
      <4>6. QED
        BY <4>1, <4>3, <4>5
    <3>2. CASE m # n
      BY <1>3, <3>2
    <3>3. QED
      BY <3>1, <3>2
  <2>5. ASSUME NEW m \in Node PROVE Reliable(m)' = Reliable(m)
    <3>1. /\ np[m].other \in Nat /\ np[m].read \in Nat /\ np[m].other <= np[m].read
          /\ Peer(m) \in Node /\ Peer(m) # m
      BY <1>2, Numbers, PeerIsNode
    <3>2. /\ np[m].read <= Len(Offers(m)) /\ np[m].read <= Len(Offers(Peer(m)))
          /\ Len(Offers(m)) \in Nat /\ Len(Offers(Peer(m))) \in Nat
      BY <3>1, OffersHold
    <3>3. \A q \in Node : q = m \/ q = Peer(m)
      BY DEF Node, Peer
    <3>4. \A q \in Node : \A f \in 0 .. np[m].other - 1 : f \in Nat /\ f < Len(Offers(q))
      BY <3>1, <3>2, <3>3
    <3>5. \A q \in Node : \A f \in 0 .. np[m].other - 1 : Offers(q)'[f + 1] = Offers(q)[f + 1]
      BY <2>4, <3>4
    <3>6. QED
      BY <1>1, <3>5, FlipsSame, GamesStay
  <2>6. [m \in Node |-> Offers(m)]' = [[m \in Node |-> Offers(m)] EXCEPT ![n] = Append(@, i)]
    <3>1. PICK O : O = [m \in Node |-> Offers(m)]
      OBVIOUS
    <3>2. [m \in Node |-> Offers(m)'] = [O EXCEPT ![n] = Append(@, i)]
      BY <1>3, <2>3, <3>1
    <3>3. QED
      BY <3>1, <3>2, Zenon
  <2>7. [m \in Node |-> Reliable(m)]' = [m \in Node |-> Reliable(m)]
    BY <2>5, Zenon
  <2>8. Len([m \in Node |-> Offers(m)][n]) < FrameLimit
    <3>1. [m \in Node |-> Offers(m)][n] = Offers(n)
      OBVIOUS
    <3>2. QED
      BY <2>3, <3>1
  <2>9. Game!Offer(n, i)
    BY <1>1, <2>6, <2>7, <2>8, Zenon DEF Game!Offer, Offers
  <2>10. n \in Game!Node
    BY GameHas
  <2>11. QED
    BY <2>9, <2>10, Zenon DEF Game!Next
<1>6. QED
  BY <1>4, <1>5

\* A frame that runs settles what was heard.
LEMMA FrameSettles ==
    ASSUME GameInv, NEW n \in Node, RunFrame(n)
    PROVE  /\ packed' = packed /\ flips' = flips
           /\ np'[n].other = np[n].read
           /\ \A m \in Node \ {n} : np'[m].other = np[m].other
<1>1. PICK s : s = PostFrame(n, Ran(n))
  OBVIOUS
<1>2. /\ np' = [np EXCEPT ![n] = s] /\ FrameOver(n, Ran(n), s, Sent(n))
      /\ UNCHANGED <<packed, wire, request, asked, flips>>
  BY <1>1, RunOver DEF GameInv
<1>3. Typed /\ CountInv
  BY DEF GameInv, CountInv
<1>4. s.other = np[n].read
  <2> DEFINE r == Ran(n)
  <2>1. r \in PeerType /\ r.read = np[n].read
    BY <1>3, RanIsPeer DEF Typed
  <2>2. s = [r EXCEPT !.other = r.read, !.otherPtr = r.readPtr,
                      !.core = s.core, !.buffer = s.buffer]
    BY <1>2 DEF FrameOver
  <2> HIDE DEF r
  <2>3. s.other = r.read
    BY <2>1, <2>2 DEF PeerType
  <2>4. QED
    BY <2>1, <2>3
<1>5. np'[n] = s /\ \A m \in Node \ {n} : np'[m] = np[m]
  BY <1>2, <1>3 DEF Typed
<1>6. QED
  BY <1>2, <1>4, <1>5

\* What is settled is the game of the inputs both have offered.
LEMMA SettlesOrIdles ==
    ASSUME GameInv, TrueGames, TrueGames', NEW n \in Node, RunFrame(n)
    PROVE  [Game!Next]_(Game!vars)
<1>1. /\ packed' = packed /\ flips' = flips
      /\ np'[n].other = np[n].read
      /\ \A m \in Node \ {n} : np'[m].other = np[m].other
  BY FrameSettles
<1>2. /\ np[n].other \in Nat /\ np[n].read \in Nat /\ np[n].other <= np[n].read
  BY Numbers DEF GameInv
<1>3. CASE np[n].read = np[n].other
  <2>1. Resting
    BY <1>1, <1>3 DEF Resting
  <2>2. QED
    BY <2>1, Idles
<1>4. CASE np[n].read # np[n].other
  <2>1. PICK k : k = np[n].read
    OBVIOUS
  <2>2. k \in Nat /\ np[n].other < k
    BY <1>2, <1>4, <2>1
  <2>3. \A m \in Node : Offers(m)' = Offers(m)
    BY <1>1 DEF Offers
  <2>4. Reliable(n)' = Game!TrueGame(k)
    <3>1. Reliable(n)' = Game!TrueGame(np[n].other)'
      BY DEF TrueGames
    <3>2. np'[n].other = k
      BY <1>1, <2>1
    <3>3. Game!TrueGame(np[n].other)' = Game!TrueGame(k)'
      BY <3>2, Zenon DEF Game!TrueGame
    <3>4. Game!TrueGame(k)' = Game!TrueGame(k)
      BY <1>1, <2>2, <2>3, FlipsSame, TrueGameStays
    <3>5. QED
      BY <3>1, <3>3, <3>4, Zenon
  <2>5. \A m \in Node \ {n} : Reliable(m)' = Reliable(m)
    BY <1>1, <2>3, FlipsSame, GamesStay
  <2>6. Len(Reliable(n)) = np[n].other
    <3>1. Reliable(n) = Game!TrueGame(np[n].other)
      BY DEF TrueGames
    <3>2. PICK o \in Nat : o = np[n].other
      BY <1>2
    <3>3. Game!TrueGame(o) = [i \in 1 .. o |-> Game!JointInput(i - 1)]
      BY Zenon DEF Game!TrueGame
    <3>4. Len([i \in 1 .. o |-> Game!JointInput(i - 1)]) = o
      BY <3>2
    <3>5. QED
      BY <3>1, <3>2, <3>3, <3>4, Zenon
  <2>7. \A m \in Node : k <= Len(Offers(m))
    <3>1. k <= Len(Offers(n)) /\ k <= Len(Offers(Peer(n)))
      BY <2>1, OffersHold
    <3>2. \A q \in Node : q = n \/ q = Peer(n)
      BY DEF Node, Peer
    <3>3. QED
      BY <3>1, <3>2
  <2>8. PICK O, G, t : /\ O = [m \in Node |-> Offers(m)] /\ G = [m \in Node |-> Reliable(m)]
                       /\ t = Game!TrueGame(k)
    OBVIOUS
  <2>9. [m \in Node |-> Reliable(m)]' = [G EXCEPT ![n] = t]
    <3>1. [m \in Node |-> Reliable(m)'] = [G EXCEPT ![n] = t]
      BY <2>4, <2>5, <2>8
    <3>2. QED
      BY <3>1, Zenon
  <2>10. [m \in Node |-> Offers(m)]' = O
    BY <2>3, <2>8, Zenon
  <2>11. /\ \A m \in Node : k <= Len(O[m])
         /\ Len(G[n]) < k /\ k \in 1 .. Len(O[n])
    <3>1. (\A m \in Node : O[m] = Offers(m)) /\ G[n] = Reliable(n)
      BY <2>8
    <3>2. Len(Offers(n)) \in Nat /\ k <= Len(Offers(n)) /\ k >= 1
      BY <1>2, <2>2, <2>7, OffersHold
    <3>3. QED
      BY <2>2, <2>6, <2>7, <3>1, <3>2
  <2>12. Game!Node = Node
    BY GameHas
  <2>13. Game!Settle(n, k)
    <3>1. k > Len(G[n])
      <4>1. Len(G[n]) \in Nat
        BY <1>2, <2>6, <2>8
      <4>2. QED
        BY <2>2, <2>11, <4>1
    <3>2. QED
      BY <1>1, <2>8, <2>9, <2>10, <2>11, <2>12, <3>1 DEF Game!Settle, Offers
  <2>14. \E q \in 1 .. Len([m \in Node |-> Offers(m)][n]) : Game!Settle(n, q)
    BY <2>8, <2>11, <2>13, Zenon
  <2>15. QED
    BY <2>12, <2>14, Zenon DEF Game!Next, Offers
<1>5. QED
  BY <1>3, <1>4

\* A flip is agreed for a frame that neither peer has settled.
LEMMA AgreesToFlip ==
    ASSUME GameInv, Frames < Packets, TrueGames, TrueGames', PollCommand
    PROVE  Game!Next
<1>1. CountInv /\ "client" \in Node /\ "host" \in Node
  BY DEF GameInv, Node
<1>2. InPoll("client") /\ request = "asked"
  BY DEF PollCommand
<1>3. /\ asked \in Nat /\ asked <= FrameLimit + 2 * Packets
      /\ np["host"].frame <= asked /\ np["client"].frame <= asked
      /\ np["client"].flipFrame = np["host"].flipFrame /\ np["host"].flipFrame < asked
      /\ np["host"].flipFrame \in Nat
  BY <1>1, <1>2, FlipLies, FlipFacts, Numbers
<1>4. \A x \in flips : x < asked
  BY <1>2, NewFlip
<1>5. /\ flips' = flips \union {asked} /\ packed' = packed
      /\ np' = [np EXCEPT !["client"].flip = 1 - @, !["client"].flipFrame = asked]
  <2>1. ~ (asked < np["client"].flipFrame)
    BY <1>3
  <2>2. QED
    BY <2>1 DEF PollCommand
<1>6. \A m \in Node : np'[m].other = np[m].other
  <2>1. Typed /\ np["client"] \in PeerType
    BY <1>1 DEF CountInv, Typed
  <2>2. /\ np'["host"] = np["host"]
        /\ np'["client"] = [np["client"] EXCEPT !.flip = 1 - np["client"].flip, !.flipFrame = asked]
    BY <1>1, <1>5, <2>1 DEF Typed
  <2>3. PICK turn : turn = 1 - np["client"].flip
    OBVIOUS
  <2>4. np'["client"] = [np["client"] EXCEPT !.flip = turn, !.flipFrame = asked]
    BY <2>2, <2>3
  <2>5. np'["client"].other = np["client"].other
    BY <2>1, <2>4 DEF PeerType
  <2>6. QED
    BY <2>2, <2>5 DEF Node
<1>7. \A m \in Node : Offers(m)' = Offers(m)
  BY <1>5 DEF Offers
<1>8. ASSUME NEW m \in Node
      PROVE  Reliable(m)' = Reliable(m) /\ Len(Reliable(m)) <= asked
  <2>1. PICK k \in Nat : k = np[m].other
    BY <1>1, Numbers
  <2>2. k <= asked
    <3>1. np[m].other <= np[m].frame /\ np[m].frame \in Nat
      BY <1>1, Numbers
    <3>2. QED
      BY <1>3, <2>1, <3>1 DEF Node
  <2>3. \A f \in 0 .. k - 1 : f \in Int /\ f < asked
    BY <1>3, <2>2
  <2>4. \A f \in 0 .. k - 1 : Game!Swapped(f)' = Game!Swapped(f)
    BY <1>3, <1>5, <2>3, FlipAhead
  <2>5. Reliable(m)' = Reliable(m)
    BY <1>6, <1>7, <2>1, <2>4, GamesStay
  <2>6. Len(Reliable(m)) = k
    <3>1. Reliable(m) = Game!TrueGame(np[m].other)
      BY DEF TrueGames
    <3>2. Game!TrueGame(k) = [i \in 1 .. k |-> Game!JointInput(i - 1)]
      BY Zenon DEF Game!TrueGame
    <3>3. Len([i \in 1 .. k |-> Game!JointInput(i - 1)]) = k
      OBVIOUS
    <3>4. QED
      BY <2>1, <3>1, <3>2, <3>3, Zenon
  <2>7. QED
    BY <2>2, <2>5, <2>6
<1>9. PICK O, G : O = [m \in Node |-> Offers(m)] /\ G = [m \in Node |-> Reliable(m)]
  OBVIOUS
<1>10. [m \in Node |-> Offers(m)]' = O /\ [m \in Node |-> Reliable(m)]' = G
  <2>1. [m \in Node |-> Offers(m)]' = O
    BY <1>7, <1>9, Zenon
  <2>2. [m \in Node |-> Reliable(m)]' = G
    BY <1>8, <1>9, Zenon
  <2>3. QED
    BY <2>1, <2>2
<1>11. \A m \in Node : Len(G[m]) <= asked
  BY <1>8, <1>9
<1>12. PICK x : x = asked
  OBVIOUS
<1>13. x \in 0 .. FrameLimit + 2 * Packets
  BY <1>3, <1>12, NetplayAssumption
<1>14. Game!AgreeFlip(x)
  <2>1. Game!Node = Node
    BY GameHas
  <2>2. QED
    BY <1>4, <1>5, <1>9, <1>10, <1>11, <1>12, <2>1 DEF Game!AgreeFlip, Offers
<1>15. QED
  BY <1>13, <1>14, Zenon DEF Game!Next

\* Netplay starts where the promised game does.
LEMMA GameStarts ==
    ASSUME Init
    PROVE  Game!Init
<1>1. \A n \in Node : packed[n] = <<>> /\ np[n] = NewNetplay(n)
  BY DEF Init
<1>2. \A n \in Node : Offers(n) = <<NoInput>>
  BY <1>1 DEF Offers
<1>3. ASSUME NEW n \in Node PROVE Reliable(n) = <<>>
  <2>1. NewNetplay(n).other = 0 /\ NewNetplay(n).frame = 0 /\ NewNetplay(n).core = <<>>
    BY DEF NewNetplay
  <2>2. QED
    BY <1>1, <2>1 DEF Reliable
<1>4. <<NoInput>> \in [1 .. 1 -> Input]
  BY DEF Input
<1>5. Game!Node = Node
  BY GameHas
<1>6. [n \in Node |-> Offers(n)] \in [Game!Node -> [1 .. 1 -> Input]]
  BY <1>2, <1>4, <1>5
<1>7. [n \in Node |-> Reliable(n)] = [n \in Game!Node |-> <<>>]
  BY <1>3, <1>5
<1>8. flips = {}
  BY DEF Init
<1>9. QED
  BY <1>6, <1>7, <1>8, Zenon DEF Game!Init, Offers

\* Every step is one of the promised game, or none.
LEMMA GameMoves ==
    ASSUME GameInv, Frames < Packets, TrueGames, TrueGames', [Next]_vars
    PROVE  [Game!Next]_(Game!vars)
<1>1. ASSUME NEW n \in Node, NodeStep(n) PROVE [Game!Next]_(Game!vars)
  <2>1. CASE \E i \in Input : PreFrame(n, i)
    BY <2>1, OffersOrIdles
  <2>2. CASE RunFrame(n)
    BY <2>2, SettlesOrIdles
  <2>3. CASE \/ \E p \in 0 .. FrameLimit : PollPacket(n, p)
             \/ PollNothing(n) \/ PollTimeout(n) \/ PollEof(n)
             \/ SocketError(n) \/ Quit(n)
    <3>1. Resting
      BY <2>3, PacketKeeps, NothingKeeps, TimeoutKeeps, EofKeeps, LeavesKeeps
    <3>2. QED
      BY <3>1, Idles
  <2>4. QED
    BY <1>1, <2>1, <2>2, <2>3 DEF NodeStep
<1>2. CASE PollCommand
  BY <1>2, AgreesToFlip
<1>3. CASE FlipUsers \/ GetResponse \/ UNCHANGED vars
  <2>1. Resting
    BY <1>3, FlipUsersKeeps, NoAnswerKeeps, AnswerKeeps, StutterKeeps
  <2>2. QED
    BY <2>1, Idles
<1>4. QED
  BY <1>1, <1>2, <1>3 DEF Next

\* Netplay implements the one game that both users were promised (NetplayGame): the
\* state that a peer calls reliable (buffer[other_ptr] of struct netplay) is always
\* the game that follows from the inputs both users have really given and the flips
\* they agreed on, and it only moves forward, whatever was predicted, replayed,
\* lost, repeated or delayed on the way.
THEOREM NetplayIsOneGame ==
    ASSUME Frames < Packets
    PROVE  Spec => OneGame
<1>1. Init => Game!Init
  BY GameStarts
<1>2. GameInv => TrueGames
  BY ReliableIs DEF TrueGames
<1>3. GameInv /\ TrueGames /\ TrueGames' /\ [Next]_vars => [Game!Next]_(Game!vars)
  BY GameMoves
<1>4. QED
  BY <1>1, <1>2, <1>3, GameInvariant, PTL DEF Spec, OneGame, Game!Spec

\* So both users play one game: what is reliable for one peer of struct netplay is a
\* beginning of what is reliable for the other, in every state netplay reaches.
THEOREM ReliableIsShared ==
    ASSUME Frames < Packets
    PROVE  Spec => []Game!SameGame
<1>1. GameInv => Game!SameGame
  <2> SUFFICES ASSUME GameInv PROVE Game!SameGame
    OBVIOUS
  <2>1. ASSUME NEW n \in Node, NEW i \in DOMAIN Reliable(n)
        PROVE  Reliable(n)[i] = Game!JointInput(i - 1)
    <3>1. PICK k \in Nat : k = np[n].other
      BY Numbers DEF GameInv
    <3>2. Reliable(n) = [j \in 1 .. k |-> Game!JointInput(j - 1)]
      <4>1. Reliable(n) = Game!TrueGame(k)
        BY <3>1, ReliableIs
      <4>2. QED
        BY <4>1, Zenon DEF Game!TrueGame
    <3>3. QED
      BY <3>2, Zenon
  <2>2. PICK G : G = [n \in Node |-> Reliable(n)]
    OBVIOUS
  <2>3. ASSUME NEW n \in Node, NEW m \in Node, NEW i \in (DOMAIN G[n]) \intersect (DOMAIN G[m])
        PROVE  G[n][i] = G[m][i]
    <3>1. G[n] = Reliable(n) /\ G[m] = Reliable(m)
      BY <2>2
    <3>2. PICK x : x = Game!JointInput(i - 1)
      OBVIOUS
    <3>3. Reliable(n)[i] = x /\ Reliable(m)[i] = x
      BY <2>1, <3>1, <3>2
    <3>4. QED
      BY <3>1, <3>3
  <2>4. Game!Node = Node
    BY GameHas
  <2>5. QED
    BY <2>2, <2>3, <2>4 DEF Game!SameGame
<1>2. QED
  BY <1>1, GameInvariant, PTL
=============================================================================
