---------------------------- MODULE NetplayGame ----------------------------
(***************************************************************************)
(* What netplay promises its two users: one game.  Each user offers one     *)
(* input per frame; what a peer calls its last reliable state (the state at *)
(* other_ptr in src/netplay.c) is always the game that follows from the     *)
(* inputs both have offered, and it only ever moves forward.  How far the   *)
(* two sides have got, and what they show beyond that, is left open.        *)
(*                                                                         *)
(* The game core is deterministic, so its state is the sequence of joint    *)
(* inputs it has run on.                                                    *)
(***************************************************************************)
EXTENDS Naturals, Sequences, FiniteSets

CONSTANTS
    Input,       \* pad states
    FrameLimit,  \* bound: inputs offered by one user
    FlipLimit    \* bound: latest frame of a flip

VARIABLES
    offered,   \* inputs of each user, one per frame
    flips,     \* frames at which the users swap places
    game       \* the reliable state of each peer

vars == <<offered, flips, game>>

Node == {"host", "client"}

Init ==
    /\ offered \in [Node -> [1 .. 1 -> Input]]
    /\ flips = {}
    /\ game = [n \in Node |-> <<>>]

\* Frames count from 0; the input of frame f is element f + 1.
Swapped(f) == Cardinality({x \in flips : x <= f}) % 2 = 1

JointInput(f) ==
    IF Swapped(f)
    THEN <<offered["client"][f + 1], offered["host"][f + 1]>>
    ELSE <<offered["host"][f + 1], offered["client"][f + 1]>>

\* The game after k frames.
TrueGame(k) == [i \in 1 .. k |-> JointInput(i - 1)]

Offer(n, i) ==
    /\ Len(offered[n]) < FrameLimit
    /\ offered' = [offered EXCEPT ![n] = Append(@, i)]
    /\ UNCHANGED <<flips, game>>

\* The users agree to swap places from frame f on, which nobody has settled.
AgreeFlip(f) ==
    /\ \A n \in Node : Len(game[n]) <= f
    /\ \A x \in flips : x < f
    /\ flips' = flips \union {f}
    /\ UNCHANGED <<offered, game>>

\* A peer settles frames for which it knows the inputs of both users.
Settle(n, k) ==
    /\ \A m \in Node : k <= Len(offered[m])
    /\ k > Len(game[n])
    /\ game' = [game EXCEPT ![n] = TrueGame(k)]
    /\ UNCHANGED <<offered, flips>>

Next ==
    \/ \E n \in Node, i \in Input : Offer(n, i)
    \/ \E f \in 0 .. FlipLimit : AgreeFlip(f)
    \/ \E n \in Node : \E k \in 1 .. Len(offered[n]) : Settle(n, k)

Spec == Init /\ [][Next]_vars

-----------------------------------------------------------------------------
TypeOK ==
    /\ offered \in [Node -> Seq(Input)]
    /\ flips \subseteq 0 .. FlipLimit
    /\ game \in [Node -> Seq(Input \X Input)]

(* Both users play one game: whatever the order in which the peers settle     *)
(* frames and agree on flips, the reliable state of one (buffer[other_ptr]) is *)
(* a beginning of the other's, never a different game.                        *)
SameGame ==
    \A n, m \in Node : \A i \in (DOMAIN game[n]) \intersect (DOMAIN game[m]) :
        game[n][i] = game[m][i]
=============================================================================
