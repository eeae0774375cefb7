------------------------------ MODULE MsgQueue ------------------------------
(***************************************************************************)
(* The on-screen messages: the heap of                                       *)
(* src/libretro-common/queues/message_queue.c behind the lock of             *)
(* src/runloop_msg.c, filled by the main thread and by the thread that runs  *)
(* the data tasks, and pulled once a frame by the main thread.               *)
(*                                                                         *)
(* Abstractions.  A message is known by the number of its push.  An element  *)
(* has the address malloc gave it, any one that no other element has.        *)
(***************************************************************************)
EXTENDS Integers, Sequences

CONSTANTS
    Size,          \* the size msg_queue_new is given
    Addresses,     \* bound: addresses, ordered as numbers
    Priorities,    \* the priorities messages are pushed with
    Durations,     \* the durations they are pushed with
    UnsignedMax,   \* bound: UINT_MAX
    TaskFlushes,   \* the task thread pushes with flush set
    Pushes         \* bound: messages pushed

ASSUME MsgQueueAssumption ==
    /\ Size \in Nat \ {0} /\ Pushes \in Nat /\ UnsignedMax \in Nat \ {0}
    /\ Addresses \subseteq Nat
    /\ Priorities \subseteq Nat /\ Durations \subseteq 0 .. UnsignedMax
    /\ TaskFlushes \in BOOLEAN

VARIABLES
    elems,    \* the heap: elems[1] is pulled next
    tmpMsg,   \* the text of the message that vanished last (0: none)
    held,     \* the message video_frame has pulled and not yet copied (0: none)
    pushed,   \* messages pushed so far
    owed      \* history: how often each message is still to be pulled: its duration,
              \* less its pulls; none if a flush or a full queue dropped it

vars == <<elems, tmpMsg, held, pushed, owed>>

Init ==
    /\ elems = <<>> /\ tmpMsg = 0 /\ held = 0
    /\ pushed = 0 /\ owed = <<>>

Messages(heap) == {heap[i].msg : i \in DOMAIN heap}
Free == Addresses \ {elems[i].addr : i \in DOMAIN elems}

-----------------------------------------------------------------------------
\* The places up to n that step leads through from first.
Way(n, first, step) ==
    {p \in 1 .. n : \A S \in SUBSET (1 .. n) :
                      first \in S /\ (\A i \in S : step[i] \in S) => p \in S}

\* Along the way each element comes one place back, and elem to the end.
Shift(heap, n, first, step, elem) ==
    LET way == Way(n, first, step)
    IN [i \in 1 .. n |-> IF i \notin way THEN heap[i]
                         ELSE IF step[i] = i THEN elem ELSE heap[step[i]]]

Lower(a, b) == a.prio < b.prio

\* msg_queue_push: the new element rises past the parents of lower priority.
Rise(heap, new) ==
    [i \in 1 .. Len(heap) + 1 |->
        IF i > 1 /\ Lower(heap[i \div 2], new) THEN i \div 2 ELSE i]

Raise(heap, new) == Shift(heap, Len(heap) + 1, Len(heap) + 1, Rise(heap, new), new)

Full(heap) == Len(heap) + 1 > Size

Element(prio, duration, addr) ==
    [msg |-> pushed + 1, prio |-> prio, left |-> duration, addr |-> addr]

\* rarch_main_msg_queue_push: msg_queue_clear before the push if flush is set.
Push(prio, duration, flush) ==
    /\ pushed < Pushes /\ pushed' = pushed + 1
    /\ LET kept == IF flush THEN <<>> ELSE elems
       IN \E a \in IF flush THEN Addresses ELSE Free :
            /\ elems' = IF Full(kept) THEN kept ELSE Raise(kept, Element(prio, duration, a))
            /\ owed' = [m \in 1 .. pushed + 1 |->
                           IF m > pushed THEN IF Full(kept) THEN 0 ELSE duration
                           ELSE IF m \in Messages(elems) \ Messages(kept) THEN 0 ELSE owed[m]]
    /\ tmpMsg' = IF flush THEN 0 ELSE tmpMsg
    /\ UNCHANGED held

MainPush(prio, duration, flush) == held = 0 /\ Push(prio, duration, flush)

\* A task that flushes the message the main thread is about to copy.
TaskPushMutant(prio, duration, flush) == Push(prio, duration, flush)

TaskPush(prio, duration, flush) == (flush => TaskFlushes) /\ Push(prio, duration, flush)

\* A child is moved up and the place it leaves is not filled.
SinkMutant(heap) ==
    LET n == Len(heap) - 1
        last == heap[n + 1]
    IN [i \in 1 .. n |-> IF i = 1 /\ n > 1 THEN heap[2] ELSE IF i = 1 THEN last ELSE heap[i]]

\* msg_queue_pull: the last element takes the place of the first and sinks below
\* the elements whose addresses are greater.
Kids(heap, i) ==
    {k \in {2 * i, 2 * i + 1} : k < Len(heap) /\ heap[k].addr > heap[Len(heap)].addr}

Fall(heap) ==
    [i \in 1 .. Len(heap) - 1 |->
        LET kids == Kids(heap, i)
        IN IF kids = {} THEN i
           ELSE CHOOSE k \in kids : \A j \in kids : heap[j].addr <= heap[k].addr]

Sink(heap) == Shift(heap, Len(heap) - 1, 1, Fall(heap), heap[Len(heap)])

\* The count goes down in a copy of the element.
DownMutant(left) == left

Down(left) == IF left = 0 THEN UnsignedMax ELSE left - 1

Vanishes(left) == Down(left) = 0

Pull ==
    /\ held = 0
    /\ elems # <<>>
    /\ LET front == elems[1] IN
         /\ held' = front.msg
         /\ owed' = [owed EXCEPT ![front.msg] = IF @ >= 0 THEN @ - 1 ELSE @]
         /\ IF Vanishes(front.left)
            THEN /\ elems' = Sink(elems)
                 /\ tmpMsg' = front.msg
            ELSE /\ elems' = [elems EXCEPT ![1].left = Down(@)]
                 /\ UNCHANGED tmpMsg
    /\ UNCHANGED pushed

\* The text is copied to current_msg.
CopyText ==
    /\ held # 0 /\ held' = 0
    /\ UNCHANGED <<elems, tmpMsg, pushed, owed>>

Next ==
    \/ \E p \in Priorities, d \in Durations, flush \in BOOLEAN :
         MainPush(p, d, flush) \/ TaskPush(p, d, flush)
    \/ Pull \/ CopyText

Spec == Init /\ [][Next]_vars

\* Frames keep being drawn.
FairSpec == Spec /\ WF_vars(Pull \/ CopyText)

-----------------------------------------------------------------------------
TypeOK ==
    /\ Len(elems) <= Size
    /\ \A i \in DOMAIN elems : elems[i].addr \in Addresses /\ elems[i].left <= UnsignedMax
    /\ tmpMsg \in 0 .. pushed /\ held \in 0 .. pushed

(* A message is in the queue once, until it has been shown for as long as was   *)
(* asked, was flushed, or found the queue full: the heap operations neither lose *)
(* nor double one.                                                             *)
NoneLostOrDoubled ==
    /\ \A i, j \in DOMAIN elems : elems[i].msg = elems[j].msg => i = j
    /\ \A m \in 1 .. pushed : owed[m] # 0 => m \in Messages(elems)

(* "duration: how many times the message can be pulled before it vanishes".     *)
VanishesInTime == \A m \in 1 .. pushed : owed[m] >= 0

(* Once nothing is pushed any more, the screen is cleared.                      *)
ScreenClears == <>[](elems = <<>>)

(* "Pulls highest priority message in queue."                                   *)
HighestFirst == \A i \in DOMAIN elems : elems[i].prio <= elems[1].prio

(* "Returns: ... a string containing the message": the text the main thread has  *)
(* pulled has not been freed before it is copied.                               *)
TextIsThere == held # 0 => held \in Messages(elems) \union {tmpMsg}

(* The queue in one: what is still to be shown is in it as often as that, and     *)
(* no message more often than it was meant to be.                               *)
QueueInv == TypeOK /\ NoneLostOrDoubled /\ VanishesInTime
=============================================================================
