------------------------------ MODULE Rewind ------------------------------
(***************************************************************************)
(* The rewind buffer of src/rewind.c: save states kept as deltas in a ring   *)
(* of memory, linked both ways by sizes written before and after each delta; *)
(* the newest state is kept whole, and going back applies one delta to it.   *)
(*                                                                         *)
(* Abstractions.  Memory is counted in words of sizeof(size_t).  A delta is  *)
(* known by the states it leads from and to, and takes up any number of      *)
(* words up to Delta, what state_manager_raw_compress may need at most       *)
(* (RewindDelta is about its contents).                                      *)
(***************************************************************************)
EXTENDS Integers, Sequences, FiniteSetsExt

CONSTANTS
    States,     \* the save states the core may be in
    Sizes,      \* the sizes of deltas, in words
    Capacity,   \* rewind_buffer_size
    Pushes      \* bound: states pushed

Delta == Max(Sizes)
MaxCompSize == Delta + 2

ASSUME RewindAssumption ==
    /\ Sizes \subseteq Nat \ {0}
    /\ \E greatest \in Sizes : \A len \in Sizes : len <= greatest
    /\ Capacity \in Nat /\ Capacity > 1 + MaxCompSize
    /\ Pushes \in Nat

VARIABLES
    data,       \* the ring: words
    head, tail, \* where the next delta goes, and the oldest one kept
    thisblock,  \* the last state pushed, or handed back, whole
    nextblock,  \* the block the core serializes into
    valid,      \* thisblock_valid
    entries,    \* how many states are kept
    pushing,    \* between push_where and push_do
    pushed,     \* states pushed so far
    given       \* history: the states handed back since the last push

vars == <<data, head, tail, thisblock, nextblock, valid, entries, pushing, pushed, given>>

\* Each delta takes a word at least, and its two links.
MaxDeltas == Capacity \div 3

Words == 0 .. Capacity - 1
Unwritten == [kind |-> "unwritten"]
Link(a) == [kind |-> "link", to |-> a]
DeltaWord(new, old, len) == [kind |-> "delta", new |-> new, old |-> old, len |-> len]
Zero == "zero"          \* a block of zeroes, from calloc
Corrupt == "corrupt"    \* what a wrong delta makes of a block

IsLink(a) == a \in Words /\ data[a].kind = "link"

\* The word a points to, whatever is there.
Linked(a) == IF IsLink(a) THEN {data[a].to} ELSE Words

Init ==
    /\ data = [a \in Words |-> Unwritten]
    /\ head = 1 /\ tail = 1
    /\ thisblock = Zero /\ nextblock = Zero
    /\ valid = FALSE /\ entries = 0
    /\ pushing = FALSE /\ pushed = 0
    /\ given = <<>>

-----------------------------------------------------------------------------
\* state_manager_raw_decompress: the block the delta at start leads back to.
Decompress(start, block) ==
    LET word == data[(start + 1) % Capacity]
    IN IF /\ word.kind = "delta" /\ word.new = block
          /\ \A i \in 1 .. word.len : start + i \in Words /\ data[start + i] = word
       THEN word.old ELSE Corrupt

\* state_manager_pop where the last state is only there as a delta.
PopDelta ==
    /\ head # tail
    /\ \E start \in Linked(head - 1) :
         /\ head' = start
         /\ thisblock' = Decompress(start, thisblock)

PopWhole ==
    /\ ~pushing /\ valid
    /\ valid' = FALSE
    /\ entries' = entries - 1
    /\ given' = Append(given, thisblock)
    /\ UNCHANGED <<data, head, tail, thisblock, nextblock, pushing, pushed>>

Pop ==
    /\ ~pushing /\ ~valid
    /\ PopDelta
    /\ entries' = entries - 1
    /\ given' = Append(given, thisblock')
    /\ UNCHANGED <<data, tail, nextblock, valid, pushing, pushed>>

\* Without the check: thisblock stays whatever was handed back last.
PushWhereMutant(s) ==
    /\ ~pushing /\ pushing' = TRUE
    /\ pushed < Pushes /\ pushed' = pushed + 1
    /\ nextblock' = s
    /\ valid' = (valid \/ head # tail)
    /\ UNCHANGED <<head, thisblock, data, tail, entries, given>>

\* state_manager_push_where, which restores a whole copy of the last state,
\* and pretro_serialize into the block it returns.
PushWhere(s) ==
    /\ ~pushing /\ pushing' = TRUE
    /\ pushed < Pushes /\ pushed' = pushed + 1
    /\ nextblock' = s
    /\ IF valid \/ head = tail
       THEN UNCHANGED <<head, thisblock, valid>>
       ELSE PopDelta /\ valid' = TRUE
    /\ UNCHANGED <<data, tail, entries, given>>

Remaining(t) == ((t + Capacity - 1 - head - 1) % Capacity) + 1

\* A delta of the greatest size may run into the tail.
CloseMutant(t) == Remaining(t) < MaxCompSize - 1

\* Close to the tail: a delta of the greatest size might reach it.
Close(t) == Remaining(t) <= MaxCompSize

\* Where the tail is after n of the oldest deltas are given up.
TailAfter[n \in 0 .. MaxDeltas] ==
    IF n = 0 THEN tail
    ELSE LET t == TailAfter[n - 1] IN IF IsLink(t) THEN data[t].to ELSE -1

\* The loop at recheckcapacity ends, and reads only links on its way.
EnoughFor(n) == TailAfter[n] >= 0 /\ ~Close(TailAfter[n])
RoomCanBeMade == \E n \in 0 .. MaxDeltas : EnoughFor(n)
Discarded == Min({n \in 0 .. MaxDeltas : EnoughFor(n)})

\* The tail stays where the head goes back to.
TailOnWrapMutant(t) == {t}

\* Going back to the start, the tail is moved out of the way of the head.
TailOnWrap(t) == IF t = 1 THEN Linked(t) ELSE {t}

\* After each delta: does one of the greatest size still fit behind it?
Wraps(end) == end + MaxCompSize > Capacity

SwapBlocks == thisblock' = nextblock /\ nextblock' = thisblock

PushFirst ==
    /\ pushing /\ pushing' = FALSE
    /\ ~valid /\ valid' = TRUE
    /\ SwapBlocks
    /\ entries' = entries + 1
    /\ given' = <<>>
    /\ UNCHANGED <<data, head, tail, pushed>>

\* state_manager_push_do: the delta from the new state to the last one.
PushDo(len) ==
    /\ pushing /\ pushing' = FALSE
    /\ valid /\ UNCHANGED valid
    /\ RoomCanBeMade
    /\ LET end == head + 1 + len
           link == IF Wraps(end) THEN 0 ELSE end
       IN /\ head' = link + 1
          /\ tail' \in IF Wraps(end) THEN TailOnWrap(TailAfter[Discarded])
                       ELSE {TailAfter[Discarded]}
          /\ data' = [a \in Words |->
                        IF a = head THEN Link(link + 1)
                        ELSE IF a \in head + 1 .. head + len
                             THEN DeltaWord(nextblock, thisblock, len)
                        ELSE IF a = link THEN Link(head)
                        ELSE data[a]]
    /\ SwapBlocks
    /\ entries' = entries + 1 - Discarded
    /\ given' = <<>>
    /\ UNCHANGED pushed

Next ==
    \/ PopWhole \/ Pop
    \/ \E s \in States : PushWhere(s)
    \/ PushFirst \/ (\E len \in Sizes : PushDo(len))

Spec == Init /\ [][Next]_vars

-----------------------------------------------------------------------------
(* The states the ring holds, read back as state_manager_pop would.            *)

\* The start of the n-th last delta, and the state it leads to.
Start[n \in 0 .. MaxDeltas] ==
    IF n = 0 THEN head
    ELSE LET last == Start[n - 1] - 1 IN IF IsLink(last) THEN data[last].to ELSE -1

State[n \in 0 .. MaxDeltas] ==
    IF n = 0 THEN thisblock ELSE Decompress(Start[n], State[n - 1])

ReachesTail == \E n \in 0 .. MaxDeltas : Start[n] = tail
Deltas == Min({n \in 0 .. MaxDeltas : Start[n] = tail})
Depth == Deltas + (IF valid THEN 1 ELSE 0)

Stack == [i \in 1 .. Depth |-> State[Deltas + 1 - i]]

Promise == INSTANCE RewindStack WITH stack <- Stack

TypeOK ==
    /\ head \in Words /\ tail \in Words
    /\ thisblock \in States \union {Zero} /\ nextblock \in States \union {Zero}
    /\ valid \in BOOLEAN /\ pushing \in BOOLEAN
    /\ entries \in 0 .. Pushes

(* "The start of the buffer contains a size pointing to the end of the buffer;  *)
(* the end points to its start": from head one gets back to tail, and at each    *)
(* delta on the way the size in front leads to where the way came from.          *)
LinkedBothWays ==
    /\ ReachesTail
    /\ \A n \in 1 .. Deltas :
         IsLink(Start[n]) /\ data[Start[n]].to = Start[n - 1]

(* "If head comes close to this, discard a frame": giving up old states makes    *)
(* room for any new one, and the loop that does it ends.                         *)
MakesRoom == pushing /\ valid => RoomCanBeMade

(* state_manager_pop hands back exactly the states that were pushed, the last    *)
(* one first, and forgets only the oldest.                                       *)
IsAStack == Promise!Spec

(* States are given up only where memory is short: what a push leaves free after *)
(* discarding is less than three of the largest deltas, of which one is what   *)
(* going back to the start may cut off.                                        *)
DiscardsOnlyForRoom ==
    [][Len(Stack') < Len(Stack) + (IF pushing /\ ~pushing' THEN 1 ELSE 0) /\ pushing
        => Remaining(tail)' < 2 * MaxCompSize + Delta]_vars

(* The ring in one: its deltas are linked both ways, and discarding the oldest    *)
(* of them makes room for a new one.                                             *)
RingInv == TypeOK /\ LinkedBothWays /\ MakesRoom
=============================================================================
