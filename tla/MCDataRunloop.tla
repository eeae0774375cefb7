--------------------------- MODULE MCDataRunloop ---------------------------
(* The sessions the data runloop is checked in.                              *)
EXTENDS DataRunloop

\* The tasks run in the main thread, and the menu asks at any time.
InMainThread == [threaded |-> FALSE, patient |-> FALSE, toggles |-> FALSE]

\* The tasks have their thread.
InDataThread == [threaded |-> TRUE, patient |-> FALSE, toggles |-> FALSE]

\* They may get one at any time.
OneAtATime == [threaded |-> FALSE, patient |-> TRUE, toggles |-> FALSE]

BothWays == {InMainThread, InDataThread, OneAtATime}
MainThreadOnly == {InMainThread}

=============================================================================
