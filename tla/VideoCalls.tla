----------------------------- MODULE VideoCalls -----------------------------
(***************************************************************************)
(* What the threaded video driver promises the main loop: a command is       *)
(* carried out once before its call returns, and the call returns the        *)
(* driver's own answer; a frame is drawn whole and once, or not at all, and  *)
(* never after a later one from the same buffer.                             *)
(***************************************************************************)
EXTENDS Naturals, Sequences

CONSTANTS
    Frames,           \* what frames look like
    Command, NoCmd,   \* the commands, and none
    Data, NoData,     \* their answers
    Dupe, Grey        \* the last frame again; no frame yet

VARIABLES
    asked,    \* the command being waited for
    did,      \* the answers of the driver to it
    got,      \* what the last call returned
    giving,   \* a frame is being handed over
    given,    \* that frame, the last one of the core
    held,     \* the frame that is drawn next, or was drawn last
    pending,  \* it is still to be drawn
    shown     \* what the screen shows

vars == <<asked, did, got, giving, given, held, pending, shown>>

Init ==
    /\ asked = NoCmd /\ did = <<>> /\ got = NoData
    /\ giving = FALSE /\ given = Dupe
    /\ held = Grey /\ pending = FALSE /\ shown = Grey

Ask(c) ==
    /\ asked = NoCmd /\ asked' = c
    /\ did' = <<>>
    /\ UNCHANGED <<got, giving, given, held, pending, shown>>

\* Reading the screen back may draw the last frame of the core.
Do(d) ==
    /\ asked # NoCmd /\ did = <<>> /\ did' = <<d>>
    /\ \/ UNCHANGED shown
       \/ asked = "read_viewport" /\ given # Dupe /\ shown' = given
    /\ UNCHANGED <<asked, got, giving, given, held, pending>>

Return ==
    /\ asked # NoCmd /\ asked' = NoCmd
    /\ did # <<>> /\ got' = did[1]
    /\ UNCHANGED <<did, giving, given, held, pending, shown>>

Give(f) ==
    /\ asked = NoCmd
    /\ giving' = TRUE /\ given' = f
    /\ UNCHANGED <<asked, did, got, held, pending, shown>>

\* A frame is only taken when the one before has been drawn.
Accept ==
    /\ giving /\ giving' = FALSE
    /\ ~pending /\ pending' = TRUE
    /\ held' = IF given = Dupe THEN held ELSE given
    /\ UNCHANGED <<asked, did, got, given, shown>>

Drop ==
    /\ giving /\ giving' = FALSE
    /\ UNCHANGED <<asked, did, got, given, held, pending, shown>>

Show ==
    /\ pending /\ pending' = FALSE
    /\ shown' = held
    /\ UNCHANGED <<asked, did, got, giving, given, held>>

Next ==
    \/ \E c \in Command : Ask(c)
    \/ (\E d \in Data : Do(d)) \/ Return
    \/ (\E f \in Frames \union {Dupe} : Give(f)) \/ Accept \/ Drop \/ Show

Spec == Init /\ [][Next]_vars
=============================================================================
