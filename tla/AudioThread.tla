---------------------------- MODULE AudioThread ----------------------------
(***************************************************************************)
(* The threaded audio driver of src/audio/audio_thread_wrapper.c, used for   *)
(* cores that make their sound in a callback.  The real driver lives in a    *)
(* thread of its own, which calls the core back for as long as audio is      *)
(* neither stopped nor over; the main thread stops it, starts it and asks    *)
(* whether it is alive.                                                      *)
(*                                                                         *)
(* Abstractions.  What runs under thr->lock is one step.  Both threads wait   *)
(* on the one condition, where a signal wakes one of them.  Of the core's    *)
(* callback there is its beginning, and its end with an error of the         *)
(* driver's write or without.                                                *)
(***************************************************************************)
EXTENDS Naturals

VARIABLES
    op,      \* the main thread: at (its place in the wrapper), want, for an event
    audio,   \* muted (mute_enable), active (audio_active), on (the core's set_state),
             \* held: whether by a pause (is_paused), by the menu (menu_driver_alive)
    thr,     \* thr->alive, stopped, is_paused, inited
    loop,    \* the place of the audio thread
    waiting, \* the threads asleep on thr->cond
    sound,   \* the real driver: off, running or stopped
    late     \* history: callbacks begun since thr->stopped was set, up to 2

audioVars == <<op, audio, thr, loop, waiting, sound, late>>

InitAudio ==
    /\ op = [at |-> "none", want |-> "none"]
    /\ audio \in [muted : BOOLEAN, active : {TRUE}, on : {FALSE}, held : {{}}]
    /\ thr = [alive |-> TRUE, stopped |-> TRUE, is_paused |-> FALSE, inited |-> FALSE]
    /\ loop = "none" /\ waiting = {}
    /\ sound = "off"
    /\ late = 0

\* The main thread is in no call of the wrapper.
MainOut == op.at \in {"none", "out", "gone"}

\* scond_signal(thr->cond) wakes one thread, or nobody.
Signal ==
    IF waiting = {} THEN UNCHANGED waiting
                    ELSE \E t \in waiting : waiting' = waiting \ {t}

-----------------------------------------------------------------------------
(* The main thread                                                           *)

MainGoes(from, to) == op.at = from /\ op' = [op EXCEPT !.at = to]

\* The calloc of rarch_threaded_audio_init, and its sthread_create.
Create ==
    /\ MainGoes("none", "init")
    /\ loop' = "init"
    /\ UNCHANGED <<audio, thr, waiting, sound, late>>

\* The wait for the driver; init_audio then starts audio that is not muted.
WaitInited ==
    /\ op.at = "init" /\ "main" \notin waiting
    /\ \/ ~thr.inited /\ waiting' = waiting \union {"main"} /\ UNCHANGED op
       \/ /\ thr.inited /\ UNCHANGED waiting
          /\ MainGoes("init", IF sound = "off" THEN "free"
                              ELSE IF audio.muted THEN "out" ELSE "start")
    /\ UNCHANGED <<audio, thr, loop, sound, late>>

\* The thread is not woken.
UnblockMutant == thr' = [thr EXCEPT !.stopped = FALSE, !.is_paused = FALSE] /\ UNCHANGED waiting

\* audio_thread_start: the core is told, and the thread may go on.
Unblock == thr' = [thr EXCEPT !.stopped = FALSE, !.is_paused = FALSE] /\ Signal

StartAudio ==
    /\ MainGoes("start", "out")
    /\ audio' = [audio EXCEPT !.on = TRUE]
    /\ Unblock
    /\ UNCHANGED <<loop, sound, late>>

\* audio_thread_block.
Block ==
    /\ thr' = [thr EXCEPT !.stopped = TRUE]
    /\ late' = 0
    /\ Signal

\* audio_thread_stop tells the core after it has blocked the thread.
Stop == MainGoes("stop", "stopped") /\ Block /\ UNCHANGED <<audio, loop, sound>>

Stopped ==
    /\ MainGoes("stopped", "out")
    /\ thr' = [thr EXCEPT !.is_paused = TRUE]
    /\ audio' = [audio EXCEPT !.on = FALSE]
    /\ UNCHANGED <<loop, waiting, sound, late>>

\* The main loop holds audio up for a pause or for the menu, a pause perhaps
\* twice over (by its key, then for the lost focus), and lets it go.
Hold(by) ==
    /\ "menu" \notin audio.held
    /\ audio' = [audio EXCEPT !.held = @ \union {by}]

LetGo(by) ==
    /\ by \in audio.held
    /\ by = "pause" => "menu" \notin audio.held
    /\ audio' = [audio EXCEPT !.held = @ \ {by}]

\* EVENT_CMD_AUDIO_STOP and EVENT_CMD_AUDIO_START ask first whether audio is
\* alive: audio_thread_alive blocks the thread, ...
Event(by) ==
    /\ op.at = "out"
    /\ \/ Hold(by) /\ op' = [at |-> "ask", want |-> "stop"]
       \/ LetGo(by) /\ op' = [at |-> "ask", want |-> "start"]
    /\ Block
    /\ UNCHANGED <<loop, sound>>

\* ... and lets it go on.  A start that finds audio alive fails, and a mute
\* toggle whose start fails gives audio up.
Asked ==
    /\ LET alive == ~thr.is_paused IN
       /\ MainGoes("ask", IF op.want = "stop" /\ alive THEN "stop"
                          ELSE IF op.want # "stop" /\ ~alive /\ ~audio.muted THEN "start"
                          ELSE "out")
       /\ audio' = [audio EXCEPT !.active = @ /\ ~(op.want = "unmute" /\ alive)]
    /\ thr' = [thr EXCEPT !.stopped = FALSE]
    /\ Signal
    /\ UNCHANGED <<loop, sound, late>>

\* audio_driver_mute_toggle.
ToggleMute ==
    /\ op.at = "out" /\ audio.active
    /\ audio' = [audio EXCEPT !.muted = ~@]
    /\ op' = [at |-> "ask", want |-> IF audio.muted THEN "unmute" ELSE "stop"]
    /\ Block
    /\ UNCHANGED <<loop, sound>>

\* A thread that had been stopped stays stopped.
FreeMutant ==
    /\ \/ MainGoes("out", "join")
       \/ MainGoes("free", "join")
    /\ thr' = [thr EXCEPT !.alive = FALSE]
    /\ Signal
    /\ UNCHANGED <<audio, loop, sound, late>>

\* audio_thread_free, up to where it joins; also of a driver that failed.
Free ==
    /\ \/ MainGoes("out", "join")
       \/ MainGoes("free", "join")
    /\ thr' = [thr EXCEPT !.alive = FALSE, !.stopped = FALSE]
    /\ Signal
    /\ UNCHANGED <<audio, loop, sound, late>>

JoinAudio ==
    /\ loop = "end" /\ MainGoes("join", "gone")
    /\ UNCHANGED <<audio, thr, loop, waiting, sound, late>>

-----------------------------------------------------------------------------
(* The audio thread                                                          *)

LoopGoes(from, to) == loop = from /\ loop' = to

\* The driver is initialised, or fails to be.
InitDriver ==
    /\ \/ LoopGoes("init", "first") /\ sound' = "running"
       \/ LoopGoes("init", "end") /\ UNCHANGED sound
    /\ thr' = [thr EXCEPT !.inited = TRUE]
    /\ Signal
    /\ UNCHANGED <<op, audio, late>>

Sleep == waiting' = waiting \union {"thread"}

\* Started or not, before the loop.
First ==
    /\ "thread" \notin waiting
    /\ \/ loop = "first" /\ thr.stopped /\ Sleep /\ UNCHANGED loop
       \/ LoopGoes("first", "top") /\ ~thr.stopped /\ UNCHANGED waiting
    /\ UNCHANGED <<op, audio, thr, sound, late>>

\* A stop is overlooked.
TopMutant ==
    /\ \/ LoopGoes("top", "freeing") /\ ~thr.alive /\ Signal
       \/ LoopGoes("top", "call") /\ thr.alive /\ UNCHANGED waiting
    /\ UNCHANGED <<op, audio, thr, sound, late>>

\* The top of the loop: the end, a stop of the driver, or a callback.
Top ==
    /\ \/ LoopGoes("top", "freeing") /\ ~thr.alive /\ Signal /\ UNCHANGED sound
       \/ /\ LoopGoes("top", "held") /\ thr.alive /\ thr.stopped
          /\ sound' = "stopped" /\ Sleep
       \/ /\ LoopGoes("top", "call") /\ thr.alive /\ ~thr.stopped
          /\ UNCHANGED <<waiting, sound>>
    /\ UNCHANGED <<op, audio, thr, late>>

\* The driver is left stopped.
HeldMutant ==
    /\ "thread" \notin waiting
    /\ \/ loop = "held" /\ thr.stopped /\ Sleep /\ UNCHANGED loop
       \/ LoopGoes("held", "call") /\ ~thr.stopped /\ UNCHANGED waiting
    /\ UNCHANGED <<op, audio, thr, sound, late>>

\* Once started again there is a callback, whatever became of alive.
Held ==
    /\ "thread" \notin waiting
    /\ \/ loop = "held" /\ thr.stopped /\ Sleep /\ UNCHANGED <<loop, sound>>
       \/ LoopGoes("held", "call") /\ ~thr.stopped /\ sound' = "running" /\ UNCHANGED waiting
    /\ UNCHANGED <<op, audio, thr, late>>

\* audio_driver_callback, outside the lock.
Callback ==
    /\ LoopGoes("call", "calling")
    /\ late' = IF thr.stopped THEN (IF late = 2 THEN 2 ELSE late + 1) ELSE 0
    /\ UNCHANGED <<op, audio, thr, waiting, sound>>

\* It returns; audio_thread_write ends audio when the driver's write fails.
CallbackDone ==
    /\ LoopGoes("calling", "top")
    /\ \/ UNCHANGED <<thr, waiting>>
       \/ thr' = [thr EXCEPT !.alive = FALSE] /\ Signal
    /\ UNCHANGED <<op, audio, sound, late>>

FreeDriver ==
    /\ LoopGoes("freeing", "end") /\ sound' = "off"
    /\ UNCHANGED <<op, audio, thr, waiting, late>>

-----------------------------------------------------------------------------
\* The steps of a call that is under way; after a failed init comes the free.
CallingAudio ==
    \/ WaitInited \/ StartAudio \/ Stop \/ Stopped \/ Asked \/ JoinAudio
    \/ op.at = "free" /\ Free

Playing ==
    \/ InitDriver \/ First \/ Top \/ Held \/ Callback \/ CallbackDone \/ FreeDriver

NextAudio ==
    \/ Create \/ ToggleMute \/ Free
    \/ \E by \in {"pause", "menu"} : Event(by)
    \/ CallingAudio \/ Playing

\* Threads are scheduled, and the driver and the core return.
FairnessAudio == WF_audioVars(CallingAudio) /\ WF_audioVars(Playing)

SpecAudio == InitAudio /\ [][NextAudio]_audioVars /\ FairnessAudio

-----------------------------------------------------------------------------
TypeOKAudio ==
    /\ op \in [at : {"none", "init", "start", "out", "ask", "stop", "stopped", "free",
                     "join", "gone"},
               want : {"none", "stop", "start", "unmute"}]
    /\ audio \in [muted : BOOLEAN, active : BOOLEAN, on : BOOLEAN,
                held : SUBSET {"pause", "menu"}]
    /\ thr \in [alive : BOOLEAN, stopped : BOOLEAN, is_paused : BOOLEAN, inited : BOOLEAN]
    /\ loop \in {"none", "init", "first", "top", "held", "call", "calling", "freeing", "end"}
    /\ waiting \subseteq {"main", "thread"}
    /\ sound \in {"off", "running", "stopped"}
    /\ late \in 0 .. 2
    /\ thr.inited <=> loop \notin {"none", "init"}

\* Once the thread has been stopped the core is called back at most once more:
\* the thread may have looked at thr->stopped just before.
OneLate == late <= 1

\* The core is called back, and so writes, only while the driver runs.
WritesToRunning == loop \in {"call", "calling"} => sound = "running"

\* When the wrapper has been freed its thread has ended, and has freed the driver.
FreedOnce == op.at = "gone" => loop = "end" /\ sound = "off"

\* No call of the main thread waits for ever: not for the driver's init, not
\* for the end of a thread that sleeps or plays.
AudioCallsReturn == ~MainOut ~> MainOut

\* Audio that was started goes on: the core is called back again and again
\* until audio is stopped, fails or ends.
Plays == []<>(loop = "calling" \/ thr.stopped \/ ~thr.alive \/ op.at # "out")

\* What libretro.h promises the core: its callback is not called until
\* set_state has been called with true.  A call that was on its way when the
\* thread was stopped is left aside.
SilentUntilOn == [][loop = "call" /\ loop' = "calling" => audio.on \/ thr.stopped]_audioVars

\* The thread and its driver: the core's callback writes to a driver that runs,
\* and a wrapper that was freed leaves neither behind.
AudioInv == TypeOKAudio /\ WritesToRunning /\ FreedOnce
=============================================================================
