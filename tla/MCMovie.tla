------------------------------ MODULE MCMovie ------------------------------
(* The movies there are to be played, each with inputs that differ from what   *)
(* the next frame has.                                                        *)
EXTENDS Movie

SomeTapes == {<<0, 1>>}

=============================================================================
