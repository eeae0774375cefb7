------------------------------ MODULE MainLoop ------------------------------
(***************************************************************************)
(* The main loop with its threaded video driver, from its start to its end:  *)
(* rarch_main_iterate of src/runloop.c, init_drivers and uninit_drivers of   *)
(* src/driver.c, over VideoThread.                                           *)
(*                                                                         *)
(* Abstractions.  An iteration takes one thing the user does: nothing, a      *)
(* pause or its end (by key or focus), the menu on or off, a setting of the  *)
(* video driver, a screenshot, or the end.  The menu's own keys are left     *)
(* out.                                                                      *)
(***************************************************************************)
EXTENDS VideoThread

VARIABLES
    ph,      \* the main thread's place in the program
    runloop  \* is_paused; menu (menu_driver_alive)

loopVars == <<ph, runloop>>
allVars == <<vars, loopVars>>

InitLoop ==
    /\ Init
    /\ ph = "start" /\ runloop = [is_paused |-> FALSE, menu |-> FALSE]

-----------------------------------------------------------------------------
\* The main thread goes on when it is in no call of the wrapper.
Goes(from, to) == UserOut /\ ph = from /\ ph' = to

\* init_drivers.
Start == Goes("start", "ask") /\ Send("init") /\ UNCHANGED runloop

\* A program that is not paused goes by what the thread said last.
AskMutant ==
    \/ Goes("ask", IF screen.alive THEN "keys" ELSE "quit") /\ UNCHANGED <<vars, runloop>>
    \/ Goes("ask", "quit") /\ UNCHANGED <<vars, runloop>>

\* time_to_exit; a paused program asks the thread.
Ask ==
    /\ \/ runloop.is_paused /\ Goes("ask", "told") /\ Send("alive")
       \/ /\ ~runloop.is_paused
          /\ Goes("ask", IF screen.alive THEN "keys" ELSE "quit") /\ UNCHANGED vars
       \/ Goes("told", IF user.got = "yes" THEN "keys" ELSE "quit") /\ UNCHANGED vars
       \/ Goes("ask", "quit") /\ UNCHANGED vars
    /\ UNCHANGED runloop

\* do_state_checks and the events they lead to.
Press ==
    /\ ~runloop.menu /\ Goes("keys", "run")
    /\ \/ /\ \E p \in BOOLEAN : runloop' = [runloop EXCEPT !.is_paused = p]
          /\ UNCHANGED vars
       \/ (\E c \in {"set", "read_viewport"} : Send(c)) /\ UNCHANGED runloop

\* EVENT_CMD_MENU_TOGGLE.
ToggleMenu ==
    /\ Goes("keys", IF runloop.menu THEN "ask" ELSE "run")
    /\ runloop' = [runloop EXCEPT !.menu = ~@]
    /\ SetTexture(~runloop.menu)

\* menu_display_fb, then a frame of the core or the cached one.
Menu ==
    /\ runloop.menu
    /\ \/ Goes("keys", "run") /\ SetTexture(TRUE)
       \/ \E f \in Frames \union {user.given} : Goes("run", "ask") /\ GiveFrame(f)
    /\ UNCHANGED runloop

\* pretro_run, unless the program is paused.
Run ==
    /\ ~runloop.menu /\ Goes("run", "ask")
    /\ IF runloop.is_paused THEN UNCHANGED vars
       ELSE \E f \in Frames \union {Dupe} : GiveFrame(f)
    /\ UNCHANGED runloop

\* uninit_drivers.
Quit == Goes("quit", "over") /\ Send("free") /\ UNCHANGED runloop

Loop == Start \/ Ask \/ Press \/ ToggleMenu \/ Menu \/ Run \/ Quit

NextLoop ==
    \/ Loop
    \/ (Calling \/ Driving \/ CloseWindow) /\ UNCHANGED loopVars

\* Every thread is scheduled; a user may leave the program running for ever.
SpecLoop ==
    /\ InitLoop /\ [][NextLoop]_allVars
    /\ WF_allVars(Loop)
    /\ WF_allVars(Calling /\ UNCHANGED loopVars)
    /\ WF_allVars(Driving /\ UNCHANGED loopVars)

-----------------------------------------------------------------------------
TypeOKLoop ==
    /\ TypeOK
    /\ ph \in {"start", "ask", "told", "keys", "run", "quit", "over"}
    /\ runloop \in [is_paused : BOOLEAN, menu : BOOLEAN]

\* The driver is told to draw or to read back only between its init and its
\* free, which run in the same thread.
DriverThere == thread.at \in {"reading", "drawing"} => screen.there

\* While the driver draws, it has the texture the menu set last, and the menu
\* sets no other: frame.lock keeps the two apart.
TextureKeepsStill ==
    thread.at = "drawing" => screen.menu = texture.enable /\ ~texture.fresh

\* thr->frame.within_thread is read without a lock: it must be set only while
\* the main thread waits for a reply, or the main thread would draw itself.
WithinAlone == frame.within => user.at = "reply" /\ user.asked = "read_viewport"

\* No call of the main thread waits for ever: not for a reply, not for a frame,
\* not for the menu's texture, not for the thread's end.
CallsReturn == user.at # "out" ~> user.at \in {"out", "gone"}

\* A frame in the buffer is drawn, unless the thread ends first.
FrameDrawn == frame.updated ~> ~frame.updated \/ thread.at = "end"

\* A closed window ends the program: through the reply to CMD_ALIVE while it is
\* paused, through the frames drawn while it is not.
CloseEnds == ~screen.open ~> user.at = "gone"

\* The two threads together: the driver is used while it is there and by one of
\* them, and neither sees what the other has half done.
LoopInv == TypeOKLoop /\ DriverThere /\ TextureKeepsStill /\ WithinAlone
=============================================================================
