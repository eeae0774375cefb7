---------------------------- MODULE RewindDelta ----------------------------
(***************************************************************************)
(* state_manager_raw_compress and state_manager_raw_decompress of           *)
(* src/rewind.c, one turn of their loops a step: the delta between two       *)
(* save states of the same size, and its application.                        *)
(*                                                                         *)
(* Both blocks come from state_manager_raw_alloc.  The core fills the first  *)
(* size bytes; behind them the allocation holds zeroes, and one word (uniq)  *)
(* that differs between the two, at which every scan for a change ends.      *)
(* Blocks are functions on 0 .. of 16-bit words, whose values are 0 and 1.   *)
(***************************************************************************)
EXTENDS Integers, Sequences, FiniteSetsExt

CONSTANTS
    StateSizes,   \* pretro_serialize_size: bytes
    Uint16Max,    \* bound: UINT16_MAX
    Alignments    \* which builds: with NO_UNALIGNED_MEM, without, or both

ASSUME DeltaAssumption ==
    /\ StateSizes \subseteq Nat \ {0}
    /\ Uint16Max \in Nat \ {0}
    /\ Alignments \subseteq BOOLEAN

VARIABLES
    aligned,     \* NO_UNALIGNED_MEM: find_same compares words at even places
    size,        \* the size of the state
    older, newer, \* thisblock and nextblock
    at,          \* how far old16 and new16 have come
    patch,       \* the delta, as words
    out,         \* the block that is led back
    out16, patch16,  \* how far decompress has come in it and in the delta
    phase        \* "compress", "decompress" or "done"

deltaVars == <<aligned, size, older, newer, at, patch, out, out16, patch16, phase>>

\* (x + sizeof(uint16_t) - 1) & ~sizeof(uint16_t): the mask clears bit 1.
Round16(x) == (x + 1) - 2 * (((x + 1) \div 2) % 2)

WordsOf(bytes) == (bytes + 1) \div 2

\* state_manager_new passes its blocksize, not the size of the state.
Num16s == WordsOf(Round16(size))

\* state_manager_raw_alloc: the words of a block, and where uniq goes.
AllocWords(bytes) == (Round16(bytes) + 2 * 4 + 16) \div 2

UniqAt(bytes) == (Round16(bytes) \div 2) + 3

Block(bytes, content, uniq) ==
    [i \in 0 .. AllocWords(bytes) - 1 |->
        IF i < WordsOf(bytes) THEN content[i] ELSE IF i = UniqAt(bytes) THEN uniq ELSE 0]

\* state_manager_raw_maxsize, plus the end-of-delta words it counts in bytes.
MaxBlocks(bytes) == (bytes + 2 * Uint16Max - 1) \div (2 * Uint16Max)
MaxSize(bytes) == Round16(bytes) + MaxBlocks(bytes) * 2 * 2 + 2 * 3

Contents(bytes) == [0 .. WordsOf(bytes) - 1 -> {0, 1}]

InitDelta ==
    /\ aligned \in Alignments /\ size \in StateSizes
    /\ \E a, b \in Contents(size) :
         \/ older = Block(size, a, 0) /\ newer = Block(size, b, 1)
         \/ older = Block(size, a, 1) /\ newer = Block(size, b, 0)
    /\ at = 0 /\ patch = <<>>
    /\ out = newer /\ out16 = 0 /\ patch16 = 1
    /\ phase = "compress"

-----------------------------------------------------------------------------
\* Reading past the allocation finds whatever is there: taken for equal here.
Differ(i) == i \in DOMAIN older /\ older[i] # newer[i]

ScanPlaces == 0 .. AllocWords(size) + 2

\* find_change, from place p; with nothing left to find it is past every block.
FindChange(p) ==
    IF \E i \in ScanPlaces : i >= p /\ Differ(i)
    THEN Min({i \in ScanPlaces : i >= p /\ Differ(i)}) ELSE AllocWords(size) + 2

\* find_same from the change at p: two words are compared at a time, and if the
\* last word before an equal pair is equal too it belongs to what is the same.
Pairs(p) == {i \in ScanPlaces : i >= p /\ (i - p) % 2 = 0}
SamePair(i) == ~Differ(i) /\ ~Differ(i + 1)

PairedEnd(p) ==
    LET pair == Min({i \in Pairs(p) : SamePair(i)})
    IN IF pair # p /\ ~Differ(pair - 1) THEN pair - 1 ELSE pair

\* The first equal word ends the changed ones.
FindSameMutant(p) == Min({i \in ScanPlaces : i >= p /\ ~Differ(i)})

\* Where words have to be aligned, an odd one is looked at on its own first.
FindSame(p) ==
    IF aligned /\ p % 2 = 1
    THEN IF Differ(p + 1)
         THEN LET pair == Min({i \in Pairs(p + 1) : SamePair(i)})
              IN IF ~Differ(pair - 1) THEN pair - 1 ELSE pair
         ELSE p + 1
    ELSE PairedEnd(p)

Skip == FindChange(at) - at

\* Nothing differs any more: three zeroes end the delta.  (Once at is past the
\* end num16s has wrapped around and the loop runs through foreign memory; the
\* model stops there.)
EndCompress ==
    /\ phase = "compress"
    /\ at = Num16s \/ (at < Num16s /\ FindChange(at) >= Num16s)
    /\ patch' = patch \o <<0, 0, 0>>
    /\ phase' = "decompress"
    /\ UNCHANGED <<aligned, size, older, newer, at, out, out16, patch16>>

Compressing == phase = "compress" /\ at < Num16s /\ FindChange(at) < Num16s

\* skip > UINT16_MAX: a skip of its own, low half and high half.
CompressSkip ==
    /\ Compressing /\ Skip > Uint16Max
    /\ at' = FindChange(at)
    /\ patch' = patch \o <<0, Skip % (Uint16Max + 1), Skip \div (Uint16Max + 1)>>
    /\ UNCHANGED <<aligned, size, older, newer, out, out16, patch16, phase>>

Changed == Min({FindSame(FindChange(at)) - FindChange(at), Uint16Max})

\* A count of changed words, how many to skip before them, and the old words.
CompressBlock ==
    /\ Compressing /\ Skip <= Uint16Max
    /\ at' = FindChange(at) + Changed
    /\ patch' = patch \o <<Changed, Skip>>
                      \o [i \in 1 .. Changed |-> older[FindChange(at) + i - 1]]
    /\ UNCHANGED <<aligned, size, older, newer, out, out16, patch16, phase>>

\* One turn of state_manager_raw_decompress.
DecompressBlock ==
    /\ phase = "decompress"
    /\ patch[patch16] # 0
    /\ LET changed == patch[patch16]
           first == out16 + patch[patch16 + 1]
       IN /\ out' = [i \in DOMAIN out |->
                       IF i \in first .. first + changed - 1
                       THEN patch[patch16 + 2 + i - first] ELSE out[i]]
          /\ out16' = first + changed
          /\ patch16' = patch16 + 2 + changed
    /\ UNCHANGED <<aligned, size, older, newer, at, patch, phase>>

\* The high half of a long skip is left out.
UnchangedMutant == patch[patch16 + 1]

Unchanged == patch[patch16 + 1] + (Uint16Max + 1) * patch[patch16 + 2]

DecompressSkip ==
    /\ phase = "decompress"
    /\ patch[patch16] = 0 /\ Unchanged # 0
    /\ out16' = out16 + Unchanged
    /\ patch16' = patch16 + 3
    /\ UNCHANGED <<aligned, size, older, newer, at, patch, out, phase>>

EndDecompress ==
    /\ phase = "decompress"
    /\ patch[patch16] = 0 /\ Unchanged = 0
    /\ phase' = "done"
    /\ UNCHANGED <<aligned, size, older, newer, at, patch, out, out16, patch16>>

NextDelta ==
    \/ EndCompress \/ CompressSkip \/ CompressBlock
    \/ DecompressBlock \/ DecompressSkip \/ EndDecompress

SpecDelta == InitDelta /\ [][NextDelta]_deltaVars

-----------------------------------------------------------------------------
TypeOKDelta ==
    /\ size \in StateSizes
    /\ \A i \in DOMAIN patch : patch[i] \in 0 .. Uint16Max
    /\ DOMAIN out = DOMAIN older

StateWords == 0 .. WordsOf(size) - 1

(* Applied to the newer state the delta leads back to the older one, for every   *)
(* word of the state: nothing of a save state is lost by going through the ring. *)
LeadsBack == phase = "done" => \A i \in StateWords : out[i] = older[i]

(* "'patch' must be size 'state_manager_raw_maxsize(len)' or more": the space     *)
(* the ring keeps free for a delta is enough for every one.  Not so where words   *)
(* have to be aligned: there one equal word ends a block that began at an odd     *)
(* place, so a block may cost more than it and what is skipped after it save.      *)
FitsMaxSize == 2 * Len(patch) <= MaxSize(size)

(* The scans stop inside the blocks ("so we don't need to check bounds in the     *)
(* innermost loop"): what is written as changed belongs to the state.            *)
StaysInState == at <= Num16s

(* The compression in one: it keeps to the state it reads and, on builds that may *)
(* read words at any place (x86), to the room there is for the delta.             *)
DeltaInv == TypeOKDelta /\ (~aligned => FitsMaxSize) /\ StaysInState
=============================================================================
