----------------------------- MODULE MCAutosave -----------------------------
(***************************************************************************)
(* The sessions TLC looks at.                                               *)
(***************************************************************************)
EXTENDS Autosave

Plain ==
    [reinits |-> 0, loads |-> 0, overwrite |-> FALSE, netplay |-> FALSE,
     sram |-> TRUE, interval |-> TRUE, diskFull |-> FALSE]

\* Sessions in which every promise of autosave holds: autosave as it comes, with a
\* disk that refuses and the interval changed in the menu; no save RAM to keep;
\* and no autosave, but savestates and a netplay game with replays.
Sound ==
    {Plain,
     [Plain EXCEPT !.reinits = 1, !.diskFull = TRUE],
     [Plain EXCEPT !.sram = FALSE],
     [Plain EXCEPT !.interval = FALSE, !.netplay = TRUE, !.loads = 2, !.overwrite = TRUE]}

\* A netplay host with autosave.
AutosavingHost == {[Plain EXCEPT !.netplay = TRUE]}
=============================================================================
