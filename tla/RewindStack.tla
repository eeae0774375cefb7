---------------------------- MODULE RewindStack ----------------------------
(***************************************************************************)
(* What the rewind buffer of src/rewind.c promises: a stack of save states  *)
(* that may forget its oldest ones.                                         *)
(***************************************************************************)
EXTENDS Naturals, Sequences, SequencesExt

CONSTANT States

VARIABLES
    stack,  \* the states that can be rewound to, the oldest first
    given   \* the states handed back since the last push, the newest last

vars == <<stack, given>>

Init == stack = <<>> /\ given = <<>>

Push(s) ==
    /\ \E n \in 0 .. Len(stack) : stack' = Append(SubSeq(stack, n + 1, Len(stack)), s)
    /\ given' = <<>>

Pop ==
    /\ stack # <<>>
    /\ given' = Append(given, Last(stack))
    /\ stack' = Front(stack)

Next == (\E s \in States : Push(s)) \/ Pop

Spec == Init /\ [][Next]_vars

=============================================================================
