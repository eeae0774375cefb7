----------------------------- MODULE MCNetplay -----------------------------
(***************************************************************************)
(* Model values for Netplay: which pad states users may hold in which       *)
(* frames.  Few live frames keep the number of different games small.       *)
(***************************************************************************)
EXTENDS Netplay

\* A button may be pressed in these frames only.
PadsIn(live) == [f \in 0 .. FrameLimit |-> IF f \in live THEN {0, 1} ELSE {0}]

\* A button pressed and let go, in frames that may run before the input arrives.
OnePad == PadsIn({2})

\* Frames on both sides of the first flip.
FlipPads == PadsIn({7, 8})

\* Nobody presses anything: only the timing differs.
NoPads == PadsIn({})
=============================================================================
