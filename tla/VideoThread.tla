---------------------------- MODULE VideoThread ----------------------------
(***************************************************************************)
(* The threaded video driver of src/gfx/video_thread_wrapper.c.  The real   *)
(* driver lives in a thread of its own; the main thread sends it commands   *)
(* and waits for the reply, and leaves frames in a buffer that the thread   *)
(* draws when it gets to it, or drops them.                                 *)
(*                                                                         *)
(* Abstractions.  What runs under thr->lock is one step.  Of the commands,   *)
(* CMD_INIT, CMD_FREE, CMD_ALIVE and CMD_READ_VIEWPORT stand for             *)
(* themselves, "set" for every other one: they call the driver and reply.    *)
(* The driver's init succeeds (rarch_fail ends the program if it does not),  *)
(* and so does each of its frames.                                           *)
(* Overlays' alpha and deferred state changes follow the menu's texture.     *)
(***************************************************************************)
EXTENDS Naturals, Sequences

CONSTANT Frames   \* what frames look like

VARIABLES
    user,    \* the main thread: at, asleep on cond_cmd, asked, got, given
    cmd,     \* cmd_data.type and .data, send_cmd, reply_cmd
    frame,   \* thr->frame: updated, buffer, within (within_thread)
    texture, \* thr->texture: enable, fresh (frame_updated)
    thread,  \* the driver thread: at, asleep on cond_thread, pkt, updated, alive
    screen,  \* the driver: there (driver_data), open (its window), menu; thr->alive
    shown,   \* history: the frame drawn last
    did      \* history: the driver's answers to the last command

vars == <<user, cmd, frame, texture, thread, screen, shown, did>>

NoCmd == "none"
Grey == "grey"    \* what the buffer is filled with first
Dupe == "dupe"    \* NULL: the core repeats its last frame
NoData == "no data"
Command == {"init", "alive", "read_viewport", "set", "free"}
Data == {"yes", "no", NoData}

YesNo(b) == IF b THEN "yes" ELSE "no"

Init ==
    /\ user = [at |-> "out", asleep |-> FALSE, asked |-> NoCmd, got |-> NoData,
               given |-> Dupe]
    /\ cmd = [type |-> NoCmd, data |-> NoData, send |-> NoCmd, reply |-> NoCmd]
    /\ frame = [updated |-> FALSE, buffer |-> Grey, within |-> FALSE]
    /\ texture = [enable |-> FALSE, fresh |-> FALSE]
    /\ thread = [at |-> "top", asleep |-> FALSE, pkt |-> NoCmd, updated |-> FALSE,
                 alive |-> TRUE]
    /\ screen = [there |-> FALSE, open |-> TRUE, menu |-> FALSE, alive |-> TRUE]
    /\ shown = Grey /\ did = <<>>

\* The main thread is in no call of the wrapper.
UserOut == user.at = "out"

WakeThread == thread' = [thread EXCEPT !.asleep = FALSE]

-----------------------------------------------------------------------------
(* The main thread: commands                                                 *)

\* The reply of the last command is taken for this one's.
SendMutant(c) ==
    /\ UserOut
    /\ user' = [user EXCEPT !.at = IF c = "free" THEN "freeing" ELSE "reply", !.asked = c]
    /\ cmd' = [cmd EXCEPT !.type = c, !.data = NoData, !.send = c]
    /\ did' = <<>>
    /\ WakeThread
    /\ UNCHANGED <<frame, texture, screen, shown>>

\* thread_send_packet.
Send(c) ==
    /\ UserOut
    /\ user' = [user EXCEPT !.at = IF c = "free" THEN "freeing" ELSE "reply", !.asked = c]
    /\ cmd' = [type |-> c, data |-> NoData, send |-> c, reply |-> NoCmd]
    /\ did' = <<>>
    /\ WakeThread
    /\ UNCHANGED <<frame, texture, screen, shown>>

TakeReply == user.asked = cmd.reply /\ cmd' = [cmd EXCEPT !.type = NoCmd]

\* thread_wait_reply.
WaitReply ==
    /\ user.at \in {"reply", "freeing"} /\ ~user.asleep
    /\ \/ /\ TakeReply
          /\ user' = [user EXCEPT !.got = cmd.data,
                                  !.at = IF @ = "freeing" THEN "join" ELSE "out"]
       \/ /\ user.asked # cmd.reply
          /\ user' = [user EXCEPT !.asleep = TRUE]
          /\ UNCHANGED cmd
    /\ UNCHANGED <<frame, texture, thread, screen, shown, did>>

\* sthread_join, after which everything is freed.
Join ==
    /\ user.at = "join" /\ thread.at = "end"
    /\ user' = [user EXCEPT !.at = "gone"]
    /\ UNCHANGED <<cmd, frame, texture, thread, screen, shown, did>>

-----------------------------------------------------------------------------
(* The main thread: frames                                                   *)

Copy(f) == IF f = Dupe THEN frame.buffer ELSE f

\* The thread is not told.
PlaceMutant(f) ==
    /\ ~frame.updated
    /\ frame' = [frame EXCEPT !.updated = TRUE, !.buffer = Copy(f)]
    /\ user' = [user EXCEPT !.at = IF texture.enable THEN "texture" ELSE "out"]
    /\ UNCHANGED thread

\* With a texture from the menu, the frame is waited for.
Place(f) ==
    /\ ~frame.updated
    /\ frame' = [frame EXCEPT !.updated = TRUE, !.buffer = Copy(f)]
    /\ user' = [user EXCEPT !.at = IF texture.enable THEN "texture" ELSE "out"]
    /\ WakeThread

Drop(f) ==
    /\ frame.updated
    /\ user' = [user EXCEPT !.at = "out"]
    /\ UNCHANGED <<frame, thread>>

\* The core hands over a frame; it is remembered as the cached one.
GiveFrame(f) ==
    /\ UserOut
    /\ user' = [user EXCEPT !.at = "push", !.given = f]
    /\ UNCHANGED <<cmd, frame, texture, thread, screen, shown, did>>

\* thread_frame: nonblock, or a deadline in the past, leaves no time to wait.
PushFrame ==
    /\ user.at = "push"
    /\ \/ Place(user.given)
       \/ Drop(user.given)
       \/ /\ frame.updated
          /\ user' = [user EXCEPT !.at = "frame"]
          /\ UNCHANGED <<frame, thread>>
    /\ UNCHANGED <<cmd, texture, screen, shown, did>>

\* The wait ends, woken up or by its timeout.
FrameWaited ==
    /\ user.at = "frame"
    /\ Place(user.given) \/ Drop(user.given)
    /\ UNCHANGED <<cmd, texture, screen, shown, did>>

WaitTexture ==
    /\ user.at = "texture" /\ ~user.asleep
    /\ user' = IF frame.updated THEN [user EXCEPT !.asleep = TRUE]
                                ELSE [user EXCEPT !.at = "out"]
    /\ UNCHANGED <<cmd, frame, texture, thread, screen, shown, did>>

\* thread_set_texture_frame and thread_set_texture_enable, under frame.lock.
SetTexture(enable) ==
    /\ UserOut /\ thread.at # "drawing"
    /\ texture' = [enable |-> enable, fresh |-> TRUE]
    /\ UNCHANGED <<user, cmd, frame, thread, screen, shown, did>>

-----------------------------------------------------------------------------
(* The driver thread                                                         *)

ThreadGoes(from, to) == thread.at = from /\ thread' = [thread EXCEPT !.at = to]

\* The top of thread_loop.
Wait ==
    /\ thread.at = "top" /\ ~thread.asleep
    /\ thread' = IF cmd.send = NoCmd /\ ~frame.updated
                 THEN [thread EXCEPT !.asleep = TRUE]
                 ELSE [thread EXCEPT !.at = "handle", !.pkt = cmd.type,
                                     !.updated = frame.updated]
    /\ UNCHANGED <<user, cmd, frame, texture, screen, shown, did>>

AfterPacket == IF thread.updated THEN "lock" ELSE "top"

HandleNothing ==
    /\ thread.pkt = NoCmd
    /\ ThreadGoes("handle", AfterPacket)
    /\ UNCHANGED <<user, cmd, frame, texture, screen, shown, did>>

\* The driver has carried out a command and answers d.
Executed(d) ==
    /\ thread' = [thread EXCEPT !.at = "answer"]
    /\ did' = Append(did, d)

\* thread_handle_packet.
HandlePacket ==
    /\ thread.at = "handle"
    /\ \/ /\ thread.pkt = "init"
          /\ Executed("yes")
          /\ screen' = [screen EXCEPT !.there = TRUE]
       \/ /\ thread.pkt = "free"
          /\ Executed(NoData)
          /\ screen' = [screen EXCEPT !.there = FALSE]
       \/ /\ thread.pkt = "alive"
          /\ Executed(YesNo(screen.open))
          /\ UNCHANGED screen
       \/ /\ thread.pkt \in {"set", "read_viewport"}
          /\ \E d \in {"yes", "no"} : Executed(d)
          /\ UNCHANGED screen
    /\ UNCHANGED <<user, cmd, frame, texture, shown>>

\* CMD_READ_VIEWPORT with an unchanged viewport: the driver reads it back.
ReadViewport ==
    /\ thread.pkt = "read_viewport" /\ ThreadGoes("handle", "reading")
    /\ frame' = [frame EXCEPT !.within = TRUE]
    /\ UNCHANGED <<user, cmd, texture, screen, shown, did>>

\* thread_update_driver_state.
UpdateDriverState ==
    /\ screen' = [screen EXCEPT !.menu = texture.enable]
    /\ texture' = [texture EXCEPT !.fresh = FALSE]

\* The flag is left set.
DrawWithinMutant ==
    /\ thread.at = "reading"
    /\ \/ UpdateDriverState /\ shown' = IF user.given = Dupe THEN shown ELSE user.given
       \/ UNCHANGED <<screen, texture, shown>>
    /\ \E d \in {"yes", "no"} : Executed(d)
    /\ UNCHANGED <<user, cmd, frame>>

\* Its read_viewport may draw the cached frame, by way of thread_frame.
DrawWithin ==
    /\ thread.at = "reading"
    /\ \/ UpdateDriverState /\ shown' = IF user.given = Dupe THEN shown ELSE user.given
       \/ UNCHANGED <<screen, texture, shown>>
    /\ \E d \in {"yes", "no"} : Executed(d)
    /\ frame' = [frame EXCEPT !.within = FALSE]
    /\ UNCHANGED <<user, cmd>>

Answer == did[Len(did)]

ReplyCmd ==
    cmd' = [type |-> thread.pkt, data |-> Answer, send |-> NoCmd, reply |-> thread.pkt]

\* thread_reply.
Reply ==
    /\ ThreadGoes("answer", IF thread.pkt = "free" THEN "end" ELSE AfterPacket)
    /\ ReplyCmd
    /\ user' = [user EXCEPT !.asleep = FALSE]
    /\ UNCHANGED <<frame, texture, screen, shown, did>>

\* Under frame.lock, from here ...
StartDraw ==
    /\ ThreadGoes("lock", "drawing")
    /\ UpdateDriverState
    /\ UNCHANGED <<user, cmd, frame, shown, did>>

\* ... to here; driver->frame, then driver->alive of the window.
EndDraw ==
    /\ thread.at = "drawing"
    /\ thread' = [thread EXCEPT !.at = "drawn", !.alive = screen.open]
    /\ shown' = frame.buffer
    /\ UNCHANGED <<user, cmd, frame, texture, screen, did>>

\* The main thread is not told that the frame has been drawn.
WakeUserMutant == UNCHANGED user

\* scond_signal(cond_cmd): whatever the main thread waits for.
WakeUser == user' = [user EXCEPT !.asleep = FALSE]

FrameDone ==
    /\ ThreadGoes("drawn", "top")
    /\ screen' = [screen EXCEPT !.alive = thread.alive]
    /\ frame' = [frame EXCEPT !.updated = FALSE]
    /\ WakeUser
    /\ UNCHANGED <<cmd, texture, shown, did>>

\* The window is closed.
CloseWindow ==
    /\ screen.there /\ screen.open
    /\ screen' = [screen EXCEPT !.open = FALSE]
    /\ UNCHANGED <<user, cmd, frame, texture, thread, shown, did>>

-----------------------------------------------------------------------------
\* The steps of a call that is under way.
Calling == WaitReply \/ Join \/ PushFrame \/ FrameWaited \/ WaitTexture

Driving ==
    \/ Wait \/ HandleNothing \/ HandlePacket \/ ReadViewport \/ DrawWithin \/ Reply
    \/ StartDraw \/ EndDraw \/ FrameDone

-----------------------------------------------------------------------------
Promise == INSTANCE VideoCalls WITH
    asked <- IF user.at \in {"reply", "freeing"} THEN user.asked ELSE NoCmd,
    got <- user.got,
    giving <- user.at \in {"push", "frame"},
    given <- user.given,
    held <- frame.buffer,
    \* The thread may have drawn the frame and not said so yet.
    pending <- frame.updated /\ thread.at # "drawn"

\* The wrapper keeps the promise of VideoCalls: each command is carried out
\* once, before its call returns that command's own answer, and each frame
\* taken is drawn whole and once.
Promised == Promise!Spec

TypeOK ==
    /\ user \in [at : {"out", "push", "reply", "freeing", "join", "frame", "texture", "gone"},
                 asleep : BOOLEAN, asked : Command \union {NoCmd}, got : Data,
                 given : Frames \union {Dupe}]
    /\ cmd \in [type : Command \union {NoCmd}, data : Data,
                send : Command \union {NoCmd}, reply : Command \union {NoCmd}]
    /\ frame \in [updated : BOOLEAN, buffer : Frames \union {Grey}, within : BOOLEAN]
    /\ texture \in [enable : BOOLEAN, fresh : BOOLEAN]
    /\ thread \in [at : {"top", "handle", "reading", "answer", "lock", "drawing", "drawn",
                         "end"},
                   asleep : BOOLEAN, pkt : Command \union {NoCmd}, updated : BOOLEAN,
                   alive : BOOLEAN]
    /\ screen \in [there : BOOLEAN, open : BOOLEAN, menu : BOOLEAN, alive : BOOLEAN]
    /\ shown \in Frames \union {Grey}
=============================================================================
