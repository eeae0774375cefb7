--------------------------- MODULE Drivers_proofs ---------------------------
(***************************************************************************)
(* Proofs about the drivers that live in threads of their own.              *)
(*                                                                         *)
(* About the main loop and its threaded video driver (MainLoop), for         *)
(* whatever frames look like: the wrapper keeps the promise of VideoCalls,   *)
(* the driver is used only while it is there, and neither thread sees what   *)
(* the other has half done.  About the threaded audio driver (AudioThread):  *)
(* the core's callback writes to a driver that runs, a wrapper that was freed*)
(* leaves neither thread nor driver behind, and a stop lets one callback     *)
(* through at most.                                                        *)
(***************************************************************************)
EXTENDS MainLoop, AudioThread, TLAPS

\* What the main loop does to the wrapper, without why.
VideoNext ==
    \/ \E c \in Command : Send(c)
    \/ \E f \in Frames \union {Dupe} : GiveFrame(f)
    \/ \E b \in BOOLEAN : SetTexture(b)
    \/ Calling \/ Driving \/ CloseWindow

-----------------------------------------------------------------------------
(* The protocol of a command.  Until it is replied to, cmd is what was sent;  *)
(* from then on it holds the answer, and the thread finds nothing to do twice *)
(* although the type of the command stays until the main thread has taken it. *)

Waiting == user.at \in {"reply", "freeing"}

\* The thread has a command in its hands.
Busy == thread.at \in {"handle", "reading", "answer"} /\ thread.pkt # NoCmd

Idle == cmd.send = NoCmd /\ cmd.type = NoCmd /\ ~Busy

Sent ==
    /\ cmd.send = user.asked /\ cmd.type = user.asked /\ cmd.reply = NoCmd
    /\ Busy => thread.pkt = user.asked
    /\ thread.at # "answer" => did = <<>>

Replied ==
    /\ cmd.send = NoCmd /\ cmd.reply = user.asked
    /\ \E d \in Data : did = <<d>> /\ cmd.data = d
    /\ ~Busy
    /\ thread.at = "top" => ~frame.updated

Protocol ==
    /\ IF Waiting THEN Sent \/ Replied ELSE Idle
    /\ Waiting => user.asked \in Command
    /\ user.at = "reply" => user.asked # "free"
    /\ user.at = "freeing" => user.asked = "free"
    /\ thread.at \in {"reading", "answer"} => thread.pkt # NoCmd
    /\ thread.at = "answer" => \E d \in Data : did = <<d>>
    /\ thread.at = "reading" => thread.pkt = "read_viewport"
    /\ frame.within <=> thread.at = "reading"

\* What the thread knows of the frame in the buffer stays true.
FrameFlow ==
    /\ thread.at \in {"handle", "reading", "answer"} => thread.updated = frame.updated
    /\ thread.at = "handle" /\ thread.pkt = NoCmd => frame.updated
    /\ thread.at \in {"lock", "drawing", "drawn"} => frame.updated

-----------------------------------------------------------------------------
(* The life of the driver: from the init that the first command asks for to   *)
(* the free that the last one does.                                           *)

Started == ph # "start" /\ (Waiting /\ user.asked = "init" => did # <<>>)

Freed == user.at \in {"freeing", "join", "gone"} /\ did # <<>>

Life ==
    /\ screen.there <=> Started /\ ~Freed
    /\ ph = "start" => user.at = "out"
    /\ ph = "over" <=> user.at \in {"freeing", "join", "gone"}
    /\ user.at \in {"join", "gone"} => did # <<>>
    /\ ~Started => /\ ~frame.updated
                   /\ thread.at \in {"top", "handle"}
                   /\ thread.at = "handle" => thread.pkt = "init"
    /\ Freed => \/ thread.at = "answer" /\ thread.pkt = "free"
                \/ thread.at = "end"

MainInv == TypeOKLoop /\ Protocol /\ FrameFlow /\ Life /\ TextureKeepsStill

\* Every step of the main loop is one of the video threads, or leaves them alone.
LEMMA LoopIsVideo ==
    ASSUME TypeOKLoop, [NextLoop]_allVars
    PROVE  [VideoNext]_vars
<1>2. CASE Start \/ Quit
  BY <1>2 DEF Start, Quit, VideoNext, Command
<1>3. CASE Ask
  BY <1>3 DEF Ask, VideoNext, Command
<1>4. CASE Press
  BY <1>4 DEF Press, VideoNext, Command
<1>5. CASE ToggleMenu
  BY <1>5 DEF ToggleMenu, VideoNext, TypeOKLoop
<1>6. CASE Menu
  BY <1>6 DEF Menu, VideoNext, TypeOKLoop, TypeOK
<1>7. CASE Run
  BY <1>7 DEF Run, VideoNext
<1>8. QED
  BY <1>2, <1>3, <1>4, <1>5, <1>6, <1>7 DEF NextLoop, Loop, VideoNext,
     allVars

\* The answers of the driver, one at a time.
LEMMA OneAnswer ==
    ASSUME did = <<>>, NEW d \in Data, Executed(d)
    PROVE  did' = <<d>> /\ did' # <<>>
  BY DEF Executed

\* The answers are replies.
LEMMA AnswerIs ==
    ASSUME NEW d \in Data, did = <<d>>
    PROVE  Answer = d
  BY DEF Answer

(* The types, one variable at a time.                                        *)

UserType ==
    [at : {"out", "push", "reply", "freeing", "join", "frame", "texture", "gone"},
     asleep : BOOLEAN, asked : Command \union {NoCmd}, got : Data,
     given : Frames \union {Dupe}]
CmdType ==
    [type : Command \union {NoCmd}, data : Data,
     send : Command \union {NoCmd}, reply : Command \union {NoCmd}]
FrameType == [updated : BOOLEAN, buffer : Frames \union {Grey}, within : BOOLEAN]
TextureType == [enable : BOOLEAN, fresh : BOOLEAN]
ThreadType ==
    [at : {"top", "handle", "reading", "answer", "lock", "drawing", "drawn", "end"},
     asleep : BOOLEAN, pkt : Command \union {NoCmd}, updated : BOOLEAN, alive : BOOLEAN]
ScreenType == [there : BOOLEAN, open : BOOLEAN, menu : BOOLEAN, alive : BOOLEAN]

Types ==
    /\ user \in UserType /\ cmd \in CmdType /\ frame \in FrameType
    /\ texture \in TextureType /\ thread \in ThreadType /\ screen \in ScreenType
    /\ shown \in Frames \union {Grey}

\* TypeOK, a record at a time.
LEMMA TypesAre == TypeOK <=> Types
  BY DEF TypeOK, Types, UserType, CmdType, FrameType, TextureType,
     ThreadType, ScreenType

\* Each record keeps its type: one step per action.
LEMMA TypeStep ==
    ASSUME Types, Protocol, [VideoNext]_vars
    PROVE  Types'
<1> USE DEF Types
<1>1. ASSUME NEW c \in Command, Send(c) PROVE Types'
  <2>1. user' \in UserType
    BY <1>1 DEF Send, UserOut, WakeThread, UserType, Command
  <2>2. cmd' \in CmdType
    BY <1>1 DEF Send, UserOut, WakeThread, CmdType, UserType, ThreadType,
       Command, Data
  <2>3. thread' \in ThreadType
    BY <1>1 DEF Send, UserOut, WakeThread, ThreadType, CmdType, FrameType,
       ScreenType, Command
  <2>4. QED
    BY <1>1, <2>1, <2>2, <2>3 DEF Send, UserOut, WakeThread
<1>2. ASSUME NEW f \in Frames \union {Dupe}, GiveFrame(f) PROVE Types'
  <2>1. user' \in UserType
    BY <1>2 DEF GiveFrame, UserOut, UserType, Command
  <2>2. QED
    BY <1>2, <2>1 DEF GiveFrame, UserOut
<1>3. ASSUME NEW b \in BOOLEAN, SetTexture(b) PROVE Types'
  <2>1. texture' \in TextureType
    BY <1>3 DEF SetTexture, TextureType
  <2>2. QED
    BY <1>3, <2>1 DEF SetTexture
<1>4. CASE WaitReply
  <2>1. user' \in UserType
    BY <1>4 DEF WaitReply, TakeReply, UserType, CmdType
  <2>2. cmd' \in CmdType
    BY <1>4 DEF WaitReply, TakeReply, CmdType, Command
  <2>3. QED
    BY <1>4, <2>1, <2>2 DEF WaitReply, TakeReply
<1>5. CASE Join
  <2>1. user' \in UserType
    BY <1>5 DEF Join, UserType, Command
  <2>2. QED
    BY <1>5, <2>1 DEF Join
<1>6. CASE PushFrame
  <2>1. user' \in UserType
    BY <1>6 DEF PushFrame, Place, Drop, WakeThread, UserType, Command
  <2>2. frame' \in FrameType
    BY <1>6 DEF PushFrame, Place, Drop, WakeThread, FrameType, UserType,
       Copy
  <2>3. thread' \in ThreadType
    BY <1>6 DEF PushFrame, Place, Drop, WakeThread, ThreadType, CmdType,
       FrameType, ScreenType, Command
  <2>4. QED
    BY <1>6, <2>1, <2>2, <2>3 DEF PushFrame, Place, Drop, WakeThread
<1>7. CASE FrameWaited
  <2>1. user' \in UserType
    BY <1>7 DEF FrameWaited, Place, Drop, WakeThread, UserType, Command
  <2>2. frame' \in FrameType
    BY <1>7 DEF FrameWaited, Place, Drop, WakeThread, FrameType, UserType,
       Copy
  <2>3. thread' \in ThreadType
    BY <1>7 DEF FrameWaited, Place, Drop, WakeThread, ThreadType, CmdType,
       FrameType, ScreenType, Command
  <2>4. QED
    BY <1>7, <2>1, <2>2, <2>3 DEF FrameWaited, Place, Drop, WakeThread
<1>8. CASE WaitTexture
  <2>1. user' \in UserType
    BY <1>8 DEF WaitTexture, UserType, Command
  <2>2. QED
    BY <1>8, <2>1 DEF WaitTexture
<1>9. CASE Wait
  <2>1. thread' \in ThreadType
    BY <1>9 DEF Wait, ThreadType, CmdType, FrameType, ScreenType, Command
  <2>2. QED
    BY <1>9, <2>1 DEF Wait
<1>10. CASE HandleNothing
  <2>1. thread' \in ThreadType
    BY <1>10 DEF HandleNothing, ThreadGoes, AfterPacket, ThreadType,
       CmdType, FrameType, ScreenType, Command
  <2>2. QED
    BY <1>10, <2>1 DEF HandleNothing, ThreadGoes, AfterPacket
<1>11. CASE HandlePacket
  <2>1. thread' \in ThreadType
    BY <1>11 DEF HandlePacket, Executed, ThreadType, CmdType, FrameType,
       ScreenType, Command
  <2>2. screen' \in ScreenType
    BY <1>11 DEF HandlePacket, Executed, ScreenType, TextureType, ThreadType
  <2>3. QED
    BY <1>11, <2>1, <2>2 DEF HandlePacket, Executed
<1>12. CASE ReadViewport
  <2>1. thread' \in ThreadType
    BY <1>12 DEF ReadViewport, ThreadGoes, ThreadType, CmdType, FrameType,
       ScreenType, Command
  <2>2. frame' \in FrameType
    BY <1>12 DEF ReadViewport, ThreadGoes, FrameType, UserType, Copy
  <2>3. QED
    BY <1>12, <2>1, <2>2 DEF ReadViewport, ThreadGoes
<1>13. CASE DrawWithin
  <2>1. thread' \in ThreadType
    BY <1>13 DEF DrawWithin, Executed, UpdateDriverState, ThreadType,
       CmdType, FrameType, ScreenType, Command
  <2>2. frame' \in FrameType
    BY <1>13 DEF DrawWithin, Executed, UpdateDriverState, FrameType,
       UserType, Copy
  <2>3. screen' \in ScreenType
    BY <1>13 DEF DrawWithin, Executed, UpdateDriverState, ScreenType,
       TextureType, ThreadType
  <2>4. texture' \in TextureType
    BY <1>13 DEF DrawWithin, Executed, UpdateDriverState, TextureType
  <2>5. shown' \in Frames \union {Grey}
    BY <1>13 DEF DrawWithin, Executed, UpdateDriverState, UserType,
       FrameType
  <2>6. QED
    BY <1>13, <2>1, <2>2, <2>3, <2>4, <2>5 DEF DrawWithin, Executed,
       UpdateDriverState
<1>14. CASE Reply
  <2>1. thread' \in ThreadType
    BY <1>14 DEF Reply, ReplyCmd, ThreadGoes, AfterPacket, ThreadType,
       CmdType, FrameType, ScreenType, Command
  <2>2. cmd' \in CmdType
    BY <1>14, AnswerIs DEF Reply, ReplyCmd, ThreadGoes, CmdType,
       ThreadType, Protocol
  <2>3. user' \in UserType
    BY <1>14 DEF Reply, ReplyCmd, ThreadGoes, AfterPacket, UserType, Command
  <2>4. QED
    BY <1>14, <2>1, <2>2, <2>3 DEF Reply, ReplyCmd, ThreadGoes, AfterPacket
<1>15. CASE StartDraw
  <2>1. thread' \in ThreadType
    BY <1>15 DEF StartDraw, ThreadGoes, UpdateDriverState, ThreadType,
       CmdType, FrameType, ScreenType, Command
  <2>2. screen' \in ScreenType
    BY <1>15 DEF StartDraw, ThreadGoes, UpdateDriverState, ScreenType,
       TextureType, ThreadType
  <2>3. texture' \in TextureType
    BY <1>15 DEF StartDraw, ThreadGoes, UpdateDriverState, TextureType
  <2>4. QED
    BY <1>15, <2>1, <2>2, <2>3 DEF StartDraw, ThreadGoes, UpdateDriverState
<1>16. CASE EndDraw
  <2>1. thread' \in ThreadType
    BY <1>16 DEF EndDraw, ThreadType, CmdType, FrameType, ScreenType,
       Command
  <2>2. shown' \in Frames \union {Grey}
    BY <1>16 DEF EndDraw, UserType, FrameType
  <2>3. QED
    BY <1>16, <2>1, <2>2 DEF EndDraw
<1>17. CASE FrameDone
  <2>1. thread' \in ThreadType
    BY <1>17 DEF FrameDone, ThreadGoes, WakeUser, ThreadType, CmdType,
       FrameType, ScreenType, Command
  <2>2. screen' \in ScreenType
    BY <1>17 DEF FrameDone, ThreadGoes, WakeUser, ScreenType, TextureType,
       ThreadType
  <2>3. frame' \in FrameType
    BY <1>17 DEF FrameDone, ThreadGoes, WakeUser, FrameType, UserType, Copy
  <2>4. user' \in UserType
    BY <1>17 DEF FrameDone, ThreadGoes, WakeUser, UserType, Command
  <2>5. QED
    BY <1>17, <2>1, <2>2, <2>3, <2>4 DEF FrameDone, ThreadGoes, WakeUser
<1>18. CASE CloseWindow
  <2>1. screen' \in ScreenType
    BY <1>18 DEF CloseWindow, ScreenType, TextureType, ThreadType
  <2>2. QED
    BY <1>18, <2>1 DEF CloseWindow
<1>19. CASE UNCHANGED vars
  BY <1>19 DEF vars
<1>20. QED
  BY <1>1, <1>2, <1>3, <1>4, <1>5, <1>6, <1>7, <1>8, <1>9, <1>10, <1>11,
     <1>12, <1>13, <1>14, <1>15, <1>16, <1>17, <1>18, <1>19
     DEF VideoNext, Calling, Driving

\* Command and reply stay in turn.
LEMMA ProtocolStep ==
    ASSUME TypeOK, Protocol, FrameFlow, [VideoNext]_vars
    PROVE  Protocol'
<1> USE DEF TypeOK, Protocol, FrameFlow, Waiting, Busy, Idle, Sent, Replied
<1>1. ASSUME NEW c \in Command, Send(c) PROVE Protocol'
  BY <1>1 DEF Send, UserOut, WakeThread
<1>2. ASSUME NEW f \in Frames \union {Dupe}, GiveFrame(f) PROVE Protocol'
  BY <1>2 DEF GiveFrame, UserOut
<1>3. ASSUME NEW b \in BOOLEAN, SetTexture(b) PROVE Protocol'
  BY <1>3 DEF SetTexture
<1>4. CASE WaitReply
  <2>1. CASE user.asked = cmd.reply
    <3>1. Replied /\ user.at' \in {"out", "join"}
      BY <1>4, <2>1 DEF WaitReply, TakeReply, Command, NoCmd
    <3>2. Idle'
      BY <1>4, <2>1, <3>1 DEF WaitReply, TakeReply
    <3>3. QED
      BY <1>4, <3>1, <3>2 DEF WaitReply
  <2>2. CASE user.asked # cmd.reply
    BY <1>4, <2>2 DEF WaitReply, TakeReply
  <2>3. QED
    BY <2>1, <2>2
<1>5. CASE Join
  BY <1>5 DEF Join
<1>6. CASE PushFrame
  <2>1. UNCHANGED <<cmd, did>> /\ ~Waiting /\ ~Waiting' /\ user'.asked = user.asked
    BY <1>6 DEF PushFrame, Place, Drop
  <2>2. /\ thread'.at = thread.at /\ thread'.pkt = thread.pkt
        /\ frame'.within = frame.within
    BY <1>6 DEF PushFrame, Place, Drop, WakeThread
  <2>3. QED
    BY <2>1, <2>2
<1>7. CASE FrameWaited
  <2>1. UNCHANGED <<cmd, did>> /\ ~Waiting /\ ~Waiting' /\ user'.asked = user.asked
    BY <1>7 DEF FrameWaited, Place, Drop
  <2>2. /\ thread'.at = thread.at /\ thread'.pkt = thread.pkt
        /\ frame'.within = frame.within
    BY <1>7 DEF FrameWaited, Place, Drop, WakeThread
  <2>3. QED
    BY <2>1, <2>2
<1>8. CASE WaitTexture
  BY <1>8 DEF WaitTexture
<1>9. CASE Wait
  BY <1>9 DEF Wait
<1>10. CASE HandleNothing
  BY <1>10 DEF HandleNothing, ThreadGoes, AfterPacket
<1>11. CASE HandlePacket
  <2>1. Sent /\ Waiting /\ did = <<>> /\ thread.pkt # NoCmd
    BY <1>11 DEF HandlePacket, NoCmd
  <2>2. PICK d \in Data : Executed(d)
    BY <1>11 DEF HandlePacket, Data, YesNo
  <2>3. did' = <<d>>
    BY <2>1, <2>2, OneAnswer
  <2>4. UNCHANGED <<user, cmd, frame>> /\ thread' = [thread EXCEPT !.at = "answer"]
    BY <1>11, <2>2 DEF HandlePacket, Executed
  <2>5. QED
    BY <1>11, <2>1, <2>3, <2>4 DEF HandlePacket
<1>12. CASE ReadViewport
  BY <1>12 DEF ReadViewport, ThreadGoes, NoCmd
<1>13. CASE DrawWithin
  <2>1. Sent /\ Waiting /\ did = <<>> /\ thread.pkt # NoCmd
    BY <1>13 DEF DrawWithin, NoCmd
  <2>2. PICK d \in Data : Executed(d)
    BY <1>13 DEF DrawWithin, Data
  <2>3. did' = <<d>>
    BY <2>1, <2>2, OneAnswer
  <2>4. /\ UNCHANGED <<user, cmd>> /\ thread' = [thread EXCEPT !.at = "answer"]
        /\ frame' = [frame EXCEPT !.within = FALSE]
    BY <1>13, <2>2 DEF DrawWithin, Executed
  <2>5. /\ thread'.at = "answer" /\ thread'.pkt = thread.pkt /\ thread.pkt = user.asked
        /\ ~frame'.within
    BY <2>1, <2>4, <1>13 DEF DrawWithin
  <2>6. Sent'
    BY <2>1, <2>4, <2>5
  <2>7. QED
    BY <2>1, <2>3, <2>4, <2>5, <2>6
<1>14. CASE Reply
  <2>1. Sent /\ Waiting /\ thread.at = "answer" /\ thread.pkt = user.asked
    BY <1>14 DEF Reply, ThreadGoes
  <2>2. PICK d \in Data : did = <<d>>
    BY <2>1
  <2>3. Replied'
    BY <1>14, <2>1, <2>2, AnswerIs DEF Reply, ReplyCmd, ThreadGoes,
       AfterPacket
  <2>4. QED
    BY <1>14, <2>1, <2>3 DEF Reply, ThreadGoes, AfterPacket
<1>15. CASE StartDraw
  BY <1>15 DEF StartDraw, ThreadGoes, UpdateDriverState
<1>16. CASE EndDraw
  BY <1>16 DEF EndDraw
<1>17. CASE FrameDone
  BY <1>17 DEF FrameDone, ThreadGoes, WakeUser
<1>18. CASE CloseWindow
  BY <1>18 DEF CloseWindow
<1>19. CASE UNCHANGED vars
  BY <1>19 DEF vars
<1>20. QED
  BY <1>1, <1>2, <1>3, <1>4, <1>5, <1>6, <1>7, <1>8, <1>9, <1>10, <1>11,
     <1>12, <1>13, <1>14, <1>15, <1>16, <1>17, <1>18, <1>19
     DEF VideoNext, Calling, Driving

\* The frame handed over stays the frame that was given, until it is drawn.
LEMMA FrameFlowStep ==
    ASSUME TypeOK, Protocol, FrameFlow, [VideoNext]_vars
    PROVE  FrameFlow'
<1> USE DEF TypeOK, Protocol, FrameFlow, Waiting, Busy, Idle, Sent, Replied
<1>1. ASSUME NEW c \in Command, Send(c) PROVE FrameFlow'
  BY <1>1 DEF Send, UserOut, WakeThread
<1>2. ASSUME NEW f \in Frames \union {Dupe}, GiveFrame(f) PROVE FrameFlow'
  BY <1>2 DEF GiveFrame, UserOut
<1>3. ASSUME NEW b \in BOOLEAN, SetTexture(b) PROVE FrameFlow'
  BY <1>3 DEF SetTexture
<1>4. CASE WaitReply
  BY <1>4 DEF WaitReply, TakeReply
<1>5. CASE Join
  BY <1>5 DEF Join
<1>6. CASE PushFrame
  BY <1>6 DEF PushFrame, Place, Drop, WakeThread
<1>7. CASE FrameWaited
  BY <1>7 DEF FrameWaited, Place, Drop, WakeThread
<1>8. CASE WaitTexture
  BY <1>8 DEF WaitTexture
<1>9. CASE Wait
  BY <1>9 DEF Wait
<1>10. CASE HandleNothing
  BY <1>10 DEF HandleNothing, ThreadGoes, AfterPacket
<1>11. CASE HandlePacket
  BY <1>11 DEF HandlePacket, Executed
<1>12. CASE ReadViewport
  BY <1>12 DEF ReadViewport, ThreadGoes
<1>13. CASE DrawWithin
  BY <1>13 DEF DrawWithin, Executed, UpdateDriverState
<1>14. CASE Reply
  BY <1>14 DEF Reply, ReplyCmd, ThreadGoes, AfterPacket
<1>15. CASE StartDraw
  BY <1>15 DEF StartDraw, ThreadGoes, UpdateDriverState
<1>16. CASE EndDraw
  BY <1>16 DEF EndDraw
<1>17. CASE FrameDone
  BY <1>17 DEF FrameDone, ThreadGoes, WakeUser
<1>18. CASE CloseWindow
  BY <1>18 DEF CloseWindow
<1>19. CASE UNCHANGED vars
  BY <1>19 DEF vars
<1>20. QED
  BY <1>1, <1>2, <1>3, <1>4, <1>5, <1>6, <1>7, <1>8, <1>9, <1>10, <1>11,
     <1>12, <1>13, <1>14, <1>15, <1>16, <1>17, <1>18, <1>19
     DEF VideoNext, Calling, Driving

\* The texture keeps still while the driver reads it.
LEMMA TextureStep ==
    ASSUME TypeOK, TextureKeepsStill, [VideoNext]_vars
    PROVE  TextureKeepsStill'
<1> USE DEF TypeOK, TextureKeepsStill
<1>1. ASSUME NEW c \in Command, Send(c) PROVE TextureKeepsStill'
  BY <1>1 DEF Send, UserOut, WakeThread
<1>2. ASSUME NEW f \in Frames \union {Dupe}, GiveFrame(f)
       PROVE TextureKeepsStill'
  BY <1>2 DEF GiveFrame, UserOut
<1>3. ASSUME NEW b \in BOOLEAN, SetTexture(b) PROVE TextureKeepsStill'
  BY <1>3 DEF SetTexture
<1>4. CASE WaitReply
  BY <1>4 DEF WaitReply, TakeReply
<1>5. CASE Join
  BY <1>5 DEF Join
<1>6. CASE PushFrame
  BY <1>6 DEF PushFrame, Place, Drop, WakeThread
<1>7. CASE FrameWaited
  BY <1>7 DEF FrameWaited, Place, Drop, WakeThread
<1>8. CASE WaitTexture
  BY <1>8 DEF WaitTexture
<1>9. CASE Wait
  BY <1>9 DEF Wait
<1>10. CASE HandleNothing
  BY <1>10 DEF HandleNothing, ThreadGoes, AfterPacket
<1>11. CASE HandlePacket
  BY <1>11 DEF HandlePacket, Executed
<1>12. CASE ReadViewport
  BY <1>12 DEF ReadViewport, ThreadGoes
<1>13. CASE DrawWithin
  BY <1>13 DEF DrawWithin, Executed, UpdateDriverState
<1>14. CASE Reply
  BY <1>14 DEF Reply, ReplyCmd, ThreadGoes, AfterPacket
<1>15. CASE StartDraw
  BY <1>15 DEF StartDraw, ThreadGoes, UpdateDriverState
<1>16. CASE EndDraw
  BY <1>16 DEF EndDraw
<1>17. CASE FrameDone
  BY <1>17 DEF FrameDone, ThreadGoes, WakeUser
<1>18. CASE CloseWindow
  BY <1>18 DEF CloseWindow
<1>19. CASE UNCHANGED vars
  BY <1>19 DEF vars
<1>20. QED
  BY <1>1, <1>2, <1>3, <1>4, <1>5, <1>6, <1>7, <1>8, <1>9, <1>10, <1>11,
     <1>12, <1>13, <1>14, <1>15, <1>16, <1>17, <1>18, <1>19
     DEF VideoNext, Calling, Driving

-----------------------------------------------------------------------------
(* The driver's life, step by step of the main loop and of both threads.      *)

\* The driver comes and goes with two commands.
LEMMA PacketScreen ==
    ASSUME TypeOK, HandlePacket
    PROVE  screen'.there = IF thread.pkt = "init" THEN TRUE
                           ELSE IF thread.pkt = "free" THEN FALSE ELSE screen.there
  BY DEF TypeOK, HandlePacket

\* The thread lives from its start to the answer to "free".
LEMMA LifeStep ==
    ASSUME TypeOKLoop, Protocol, FrameFlow, Life, [NextLoop]_allVars
    PROVE  Life'
<1> USE DEF TypeOKLoop, TypeOK, Protocol, FrameFlow, Life, Started,
     Freed, Waiting, Busy, Idle,
        Sent, Replied
<1>1. CASE Start
  BY <1>1 DEF Start, Goes, Send, UserOut, WakeThread, NoCmd
<1>2. CASE Ask
  BY <1>2 DEF Ask, Goes, Send, UserOut, WakeThread, vars
<1>3. CASE Press
  BY <1>3 DEF Press, Goes, Send, UserOut, WakeThread, vars
<1>4. CASE ToggleMenu
  BY <1>4 DEF ToggleMenu, Goes, SetTexture, UserOut
<1>5. CASE Menu
  BY <1>5 DEF Menu, Goes, SetTexture, GiveFrame, UserOut
<1>6. CASE Run
  <2>1. ph = "run" /\ ph' = "ask"
    BY <1>6 DEF Run, Goes
  <2>2. CASE UNCHANGED vars
    BY <2>1, <2>2 DEF vars
  <2>3. ASSUME NEW f \in Frames \union {Dupe}, GiveFrame(f) PROVE Life'
    BY <2>1, <2>3 DEF GiveFrame, UserOut
  <2>4. QED
    BY <1>6, <2>2, <2>3 DEF Run
<1>7. CASE Quit
  BY <1>7 DEF Quit, Goes, Send, UserOut, WakeThread
<1>8. CASE WaitReply /\ UNCHANGED loopVars
  <2>1. CASE user.asked = cmd.reply
    <3>1. Replied
      BY <1>8, <2>1 DEF WaitReply, Command, NoCmd
    <3>2. did # <<>>
      BY <3>1
    <3>3. /\ user'.at = IF user.at = "freeing" THEN "join" ELSE "out"
          /\ UNCHANGED <<frame, thread, screen, did, loopVars>>
      BY <1>8, <2>1 DEF WaitReply
    <3>4. QED
      BY <1>8, <3>2, <3>3 DEF WaitReply, loopVars
  <2>2. CASE user.asked # cmd.reply
    BY <1>8, <2>2 DEF loopVars, WaitReply, TakeReply
  <2>3. QED
    BY <2>1, <2>2
<1>9. CASE Join /\ UNCHANGED loopVars
  BY <1>9 DEF loopVars, Join
<1>10. CASE PushFrame /\ UNCHANGED loopVars
  BY <1>10 DEF loopVars, PushFrame, Place, Drop, WakeThread
<1>11. CASE FrameWaited /\ UNCHANGED loopVars
  BY <1>11 DEF loopVars, FrameWaited, Place, Drop, WakeThread
<1>12. CASE WaitTexture /\ UNCHANGED loopVars
  BY <1>12 DEF loopVars, WaitTexture
<1>13. CASE Wait /\ UNCHANGED loopVars
  BY <1>13 DEF loopVars, Wait
<1>14. CASE HandleNothing /\ UNCHANGED loopVars
  BY <1>14 DEF loopVars, HandleNothing, ThreadGoes, AfterPacket
<1>15. CASE HandlePacket /\ UNCHANGED loopVars
  <2>1. Sent /\ Waiting /\ did = <<>> /\ thread.at = "handle" /\ thread.pkt = user.asked
    BY <1>15 DEF HandlePacket, NoCmd
  <2>2. PICK d \in Data : Executed(d)
    BY <1>15 DEF HandlePacket, Data, YesNo
  <2>3. did' # <<>>
    BY <2>1, <2>2, OneAnswer
  <2>4. UNCHANGED <<user, frame, loopVars>> /\ thread' = [thread EXCEPT !.at = "answer"]
    BY <1>15, <2>2 DEF HandlePacket, Executed
  <2>5. screen'.there = IF thread.pkt = "init" THEN TRUE
                        ELSE IF thread.pkt = "free" THEN FALSE ELSE screen.there
    BY <1>15, PacketScreen
  <2>6. QED
    BY <2>1, <2>3, <2>4, <2>5 DEF loopVars
<1>16. CASE ReadViewport /\ UNCHANGED loopVars
  BY <1>16 DEF loopVars, ReadViewport, ThreadGoes
<1>17. CASE DrawWithin /\ UNCHANGED loopVars
  BY <1>17 DEF loopVars, DrawWithin, Executed, UpdateDriverState
<1>18. CASE Reply /\ UNCHANGED loopVars
  BY <1>18 DEF loopVars, Reply, ReplyCmd, ThreadGoes, AfterPacket
<1>19. CASE StartDraw /\ UNCHANGED loopVars
  BY <1>19 DEF loopVars, StartDraw, ThreadGoes, UpdateDriverState
<1>20. CASE EndDraw /\ UNCHANGED loopVars
  BY <1>20 DEF loopVars, EndDraw
<1>21. CASE FrameDone /\ UNCHANGED loopVars
  BY <1>21 DEF loopVars, FrameDone, ThreadGoes, WakeUser
<1>22. CASE CloseWindow /\ UNCHANGED loopVars
  BY <1>22 DEF loopVars, CloseWindow
<1>23. CASE UNCHANGED allVars
  BY <1>23 DEF allVars, vars, loopVars
<1>24. QED
  BY <1>1, <1>2, <1>3, <1>4, <1>5, <1>6, <1>7, <1>8, <1>9, <1>10, <1>11,
     <1>12, <1>13, <1>14, <1>15, <1>16, <1>17, <1>18, <1>19, <1>20, <1>21,
     <1>22, <1>23
     DEF NextLoop, Loop, Calling, Driving

\* The main loop's own variables keep their types.
LEMMA LoopTypeStep ==
    ASSUME TypeOKLoop, Protocol, [NextLoop]_allVars
    PROVE  TypeOKLoop'
<1>1. TypeOK'
  <2>1. Types'
    BY TypeStep, TypesAre, LoopIsVideo DEF TypeOKLoop
  <2>2. QED
    BY <2>1 DEF TypeOK, Types, UserType, CmdType, FrameType, TextureType,
       ThreadType, ScreenType
<1>2. ph' \in {"start", "ask", "told", "keys", "run", "quit", "over"}
  BY DEF TypeOKLoop, NextLoop, Loop, Start, Ask, Press, ToggleMenu, Menu,
     Run, Quit, Goes,
         loopVars, allVars
<1>3. runloop' \in [is_paused : BOOLEAN, menu : BOOLEAN]
  BY DEF TypeOKLoop, NextLoop, Loop, Start, Ask, Press, ToggleMenu, Menu,
     Run, Quit,
         loopVars, allVars
<1>4. QED
  BY <1>1, <1>2, <1>3 DEF TypeOKLoop

(* How the two threads stand to one another, whatever the user does.            *)
THEOREM MainInvariant == SpecLoop => []MainInv
<1>1. InitLoop => MainInv
  <2> SUFFICES ASSUME InitLoop PROVE MainInv
    OBVIOUS
  <2> USE DEF InitLoop, Init
  <2>1. Types
    BY DEF Types, UserType, CmdType, FrameType, TextureType, ThreadType,
       ScreenType, Data
  <2>2. TypeOKLoop
    BY <2>1, TypesAre DEF TypeOKLoop
  <2>3. Protocol /\ FrameFlow /\ Life /\ TextureKeepsStill
    BY DEF Protocol, FrameFlow, Life, Started, Freed, Waiting, Busy,
       Idle, TextureKeepsStill
  <2>4. QED
    BY <2>2, <2>3 DEF MainInv
<1>2. MainInv /\ [NextLoop]_allVars => MainInv'
  <2> SUFFICES ASSUME MainInv, [NextLoop]_allVars PROVE MainInv'
    OBVIOUS
  <2> USE DEF MainInv
  <2>1. [VideoNext]_vars /\ TypeOK
    BY LoopIsVideo DEF TypeOKLoop
  <2>2. Protocol' /\ FrameFlow' /\ TextureKeepsStill'
    BY <2>1, ProtocolStep, FrameFlowStep, TextureStep
  <2>3. QED
    BY <2>2, LoopTypeStep, LifeStep
<1>3. QED
  BY <1>1, <1>2, PTL DEF SpecLoop

(* video_thread_wrapper.c, driver.c: the driver draws and reads back only while  *)
(* it is there, the texture keeps still while it is drawn, and within_thread is  *)
(* set only while the main thread waits.                                        *)
THEOREM LoopIsSound == SpecLoop => []LoopInv
<1>1. MainInv => LoopInv
  BY DEF MainInv, LoopInv, TypeOKLoop, TypeOK, Protocol, FrameFlow, Life,
     Started, Freed, Waiting,
         Busy, Idle, Sent, Replied, DriverThere, WithinAlone
<1>2. QED
  BY <1>1, MainInvariant, PTL

-----------------------------------------------------------------------------
(* The refinement: each step of the threads is one of the promise, or none.     *)

\* What VideoCalls sees of handing over a frame.
LEMMA Placed ==
    ASSUME TypeOK, FrameFlow, user.at \in {"push", "frame"}, Place(user.given),
           UNCHANGED <<shown, did>>
    PROVE  Promise!Accept
<1>1. ~frame.updated /\ thread.at # "drawn" /\ thread'.at = thread.at
  BY DEF Place, FrameFlow, WakeThread, TypeOK
<1>2. frame'.updated /\ frame'.buffer = IF user.given = Dupe THEN frame.buffer ELSE user.given
  BY DEF Place, Copy, TypeOK
<1>3. /\ user'.at \in {"texture", "out"} /\ user'.asked = user.asked
      /\ user'.got = user.got /\ user'.given = user.given
  BY DEF Place, TypeOK
<1>4. QED
  BY <1>1, <1>2, <1>3 DEF Promise!Accept

\* Every step is one of VideoCalls, or none it sees.
LEMMA PromiseStep ==
    ASSUME TypeOK, Protocol, FrameFlow, [VideoNext]_vars
    PROVE  [Promise!Next]_(Promise!vars)
<1> USE DEF TypeOK, Protocol, FrameFlow, Waiting, Busy, Idle, Sent, Replied,
        Promise!Next, Promise!vars
<1>1. ASSUME NEW c \in Command, Send(c) PROVE [Promise!Next]_(Promise!vars)
  BY <1>1 DEF Send, UserOut, WakeThread, Promise!Ask, Command, NoCmd
<1>2. ASSUME NEW f \in Frames \union {Dupe}, GiveFrame(f)
       PROVE [Promise!Next]_(Promise!vars)
  BY <1>2 DEF GiveFrame, UserOut, Promise!Give
<1>3. ASSUME NEW b \in BOOLEAN, SetTexture(b)
       PROVE [Promise!Next]_(Promise!vars)
  BY <1>3 DEF SetTexture
<1>4. CASE WaitReply
  <2>1. CASE user.asked = cmd.reply
    <3>1. Replied /\ user.asked # NoCmd
      BY <1>4, <2>1 DEF WaitReply, Command, NoCmd
    <3>2. PICK d \in Data : did = <<d>> /\ cmd.data = d
      BY <3>1
    <3>3. did # <<>> /\ did[1] = d
      BY <3>2
    <3>4. /\ user'.got = d
          /\ user'.at \in {"out", "join"} /\ user'.given = user.given
          /\ UNCHANGED <<did, frame, thread, shown>>
      BY <1>4, <2>1, <3>1, <3>2 DEF WaitReply, TakeReply
    <3>5. Promise!Return
      BY <1>4, <3>1, <3>3, <3>4 DEF Promise!Return, WaitReply
    <3>6. QED
      BY <3>5
  <2>2. CASE user.asked # cmd.reply
    BY <1>4, <2>2 DEF WaitReply, TakeReply
  <2>3. QED
    BY <2>1, <2>2
<1>5. CASE Join
  BY <1>5 DEF Join
<1>6. CASE PushFrame
  <2>1. CASE Place(user.given)
    BY <1>6, <2>1, Placed DEF PushFrame
  <2>2. CASE Drop(user.given)
    BY <1>6, <2>2 DEF PushFrame, Drop, Promise!Drop
  <2>3. CASE frame.updated /\ user' = [user EXCEPT !.at = "frame"] /\ UNCHANGED <<frame, thread>>
    BY <1>6, <2>3 DEF PushFrame
  <2>4. QED
    BY <1>6, <2>1, <2>2, <2>3 DEF PushFrame
<1>7. CASE FrameWaited
  <2>1. CASE Place(user.given)
    BY <1>7, <2>1, Placed DEF FrameWaited
  <2>2. CASE Drop(user.given)
    BY <1>7, <2>2 DEF FrameWaited, Drop, Promise!Drop
  <2>3. QED
    BY <1>7, <2>1, <2>2 DEF FrameWaited
<1>8. CASE WaitTexture
  BY <1>8 DEF WaitTexture
<1>9. CASE Wait
  BY <1>9 DEF Wait
<1>10. CASE HandleNothing
  BY <1>10 DEF HandleNothing, ThreadGoes, AfterPacket
<1>11. CASE HandlePacket
  <2>1. Sent /\ Waiting /\ did = <<>> /\ user.asked # NoCmd
    BY <1>11 DEF HandlePacket, NoCmd
  <2>2. PICK d \in Data : Executed(d)
    BY <1>11 DEF HandlePacket, Data, YesNo
  <2>3. did' = <<d>> /\ UNCHANGED <<user, frame, shown>> /\ thread'.at = "answer"
    BY <1>11, <2>1, <2>2, OneAnswer DEF HandlePacket, Executed
  <2>4. Promise!Do(d)
    BY <1>11, <2>1, <2>3 DEF Promise!Do, HandlePacket
  <2>5. QED
    BY <2>4
<1>12. CASE ReadViewport
  BY <1>12 DEF ReadViewport, ThreadGoes
<1>13. CASE DrawWithin
  <2>1. Sent /\ Waiting /\ did = <<>> /\ user.asked = "read_viewport"
    BY <1>13 DEF DrawWithin, NoCmd
  <2>2. PICK d \in Data : Executed(d)
    BY <1>13 DEF DrawWithin, Data
  <2>3. did' = <<d>> /\ thread'.at = "answer"
    BY <2>1, <2>2, OneAnswer DEF Executed
  <2>4. /\ UNCHANGED user
        /\ frame'.updated = frame.updated /\ frame'.buffer = frame.buffer
    BY <1>13 DEF DrawWithin
  <2>5. shown' = shown \/ (user.given # Dupe /\ shown' = user.given)
    BY <1>13 DEF DrawWithin
  <2>6. Promise!Do(d)
    BY <1>13, <2>1, <2>3, <2>4, <2>5 DEF Promise!Do, DrawWithin, NoCmd
  <2>7. QED
    BY <2>6
<1>14. CASE Reply
  BY <1>14 DEF Reply, ReplyCmd, ThreadGoes, AfterPacket
<1>15. CASE StartDraw
  BY <1>15 DEF StartDraw, ThreadGoes, UpdateDriverState
<1>16. CASE EndDraw
  BY <1>16 DEF EndDraw, Promise!Show
<1>17. CASE FrameDone
  BY <1>17 DEF FrameDone, ThreadGoes, WakeUser
<1>18. CASE CloseWindow
  BY <1>18 DEF CloseWindow
<1>19. CASE UNCHANGED vars
  BY <1>19 DEF vars
<1>20. QED
  BY <1>1, <1>2, <1>3, <1>4, <1>5, <1>6, <1>7, <1>8, <1>9, <1>10, <1>11,
     <1>12, <1>13, <1>14, <1>15, <1>16, <1>17, <1>18, <1>19
     DEF VideoNext, Calling, Driving

(* The threaded wrapper implements the promise of VideoCalls: each command is    *)
(* carried out once, before its call returns that command's own answer, and each *)
(* frame taken is drawn whole and once.                                         *)
THEOREM PromiseKept == SpecLoop => Promised
<1>1. InitLoop => Promise!Init
  BY DEF InitLoop, Init, Promise!Init
<1>2. MainInv /\ [NextLoop]_allVars => [Promise!Next]_(Promise!vars)
  BY LoopIsVideo, PromiseStep DEF MainInv, TypeOKLoop
<1>3. QED
  BY <1>1, <1>2, MainInvariant, PTL DEF SpecLoop, Promised, Promise!Spec

-----------------------------------------------------------------------------
(* The threaded audio driver.                                               *)

(* The place of the audio thread says what state the real driver is in and   *)
(* the main thread's place whether there is a thread; a callback that is on  *)
(* its way when the thread is stopped is the first one since.                *)

SoundFollows ==
    /\ loop \in {"first", "top", "call", "calling", "freeing"} => sound = "running"
    /\ loop = "held" => sound = "stopped"
    /\ loop \in {"none", "init", "end"} => sound = "off"

ThreadFollows ==
    /\ op.at = "none" => loop = "none"
    /\ op.at = "gone" => loop = "end"

FirstSinceStop ==
    /\ late <= 1
    /\ loop = "call" /\ thr.stopped => late = 0

ThreadInv == TypeOKAudio /\ SoundFollows /\ ThreadFollows /\ FirstSinceStop

\* A signal and a block disturb little.
LEMMA AudioBlockStep ==
    ASSUME TypeOKAudio, Block
    PROVE  /\ waiting' \subseteq {"main", "thread"}
           /\ thr' \in [alive : BOOLEAN, stopped : BOOLEAN, is_paused : BOOLEAN, inited : BOOLEAN]
           /\ thr'.inited = thr.inited
           /\ late' = 0
<1>1. waiting' \subseteq {"main", "thread"}
  BY DEF Block, Signal, TypeOKAudio
<1>2. QED
  BY <1>1 DEF Block, TypeOKAudio

\* Each variable keeps its type: one step per action.
LEMMA AudioTypeStep ==
    ASSUME TypeOKAudio, ThreadFollows, [NextAudio]_audioVars
    PROVE  TypeOKAudio'
<1> USE DEF TypeOKAudio
<1>1. CASE Create
  BY <1>1 DEF Create, MainGoes, ThreadFollows
<1>2. CASE WaitInited
  BY <1>2 DEF WaitInited, MainGoes
<1>3. CASE StartAudio
  BY <1>3 DEF StartAudio, MainGoes, Unblock, Signal
<1>4. CASE Stop
  <2>1. op' \in [at : {"stopped"}, want : {"none", "stop", "start", "unmute"}]
    BY <1>4 DEF Stop, MainGoes
  <2>2. QED
    BY <1>4, <2>1, AudioBlockStep DEF Stop
<1>5. CASE Stopped
  BY <1>5 DEF Stopped, MainGoes
<1>6. CASE Asked
  BY <1>6 DEF Asked, MainGoes, Signal
<1>7. CASE Free
  BY <1>7 DEF Free, MainGoes, Signal
<1>8. CASE JoinAudio
  BY <1>8 DEF JoinAudio, MainGoes
<1>9. CASE ToggleMute
  <2>1. op' \in [at : {"ask"}, want : {"unmute", "stop"}] /\ UNCHANGED <<loop, sound>>
    BY <1>9 DEF ToggleMute
  <2>2. audio' \in [muted : BOOLEAN, active : BOOLEAN, on : BOOLEAN,
                   held : SUBSET {"pause", "menu"}]
    BY <1>9 DEF ToggleMute
  <2>3. QED
    BY <1>9, <2>1, <2>2, AudioBlockStep DEF ToggleMute
<1>10. CASE InitDriver
  BY <1>10 DEF InitDriver, LoopGoes, Signal
<1>11. CASE First
  <2>1. loop' \in {"first", "top"} /\ loop = "first" /\ UNCHANGED <<op, audio, thr, sound, late>>
    BY <1>11 DEF First, LoopGoes
  <2>2. waiting' \subseteq {"main", "thread"}
    BY <1>11 DEF First, Sleep
  <2>3. QED
    BY <2>1, <2>2
<1>12. CASE Top
  <2>1. loop' \in {"freeing", "held", "call"} /\ sound' \in {sound, "stopped"} /\ loop = "top"
    BY <1>12 DEF Top, LoopGoes
  <2>2. waiting' \subseteq {"main", "thread"}
    BY <1>12 DEF Top, Sleep, Signal
  <2>3. QED
    BY <1>12, <2>1, <2>2 DEF Top
<1>13. CASE Held
  <2>1. loop' \in {"held", "call"} /\ loop = "held" /\ UNCHANGED <<op, audio, thr, late>>
    BY <1>13 DEF Held, LoopGoes
  <2>2. waiting' \subseteq {"main", "thread"} /\ sound' \in {sound, "running"}
    BY <1>13 DEF Held, Sleep
  <2>3. QED
    BY <2>1, <2>2
<1>14. CASE Callback
  BY <1>14 DEF Callback, LoopGoes
<1>15. CASE CallbackDone
  <2>1. loop = "calling" /\ loop' = "top" /\ UNCHANGED <<op, audio, sound, late>>
    BY <1>15 DEF CallbackDone, LoopGoes
  <2>2. waiting' \subseteq {"main", "thread"}
    BY <1>15 DEF CallbackDone, Signal
  <2>3. /\ thr' \in [alive : BOOLEAN, stopped : BOOLEAN, is_paused : BOOLEAN, inited : BOOLEAN]
        /\ thr'.inited = thr.inited
    BY <1>15 DEF CallbackDone
  <2>4. QED
    BY <2>1, <2>2, <2>3
<1>16. CASE FreeDriver
  BY <1>16 DEF FreeDriver, LoopGoes
<1>17. ASSUME NEW by \in {"pause", "menu"}, Event(by) PROVE TypeOKAudio'
  <2>1. op' \in [at : {"ask"}, want : {"start", "stop"}] /\ UNCHANGED <<loop, sound>>
    BY <1>17 DEF Event
  <2>2. audio' \in [muted : BOOLEAN, active : BOOLEAN, on : BOOLEAN,
                   held : SUBSET {"pause", "menu"}]
    BY <1>17 DEF Event, Hold, LetGo
  <2>3. QED
    BY <1>17, <2>1, <2>2, AudioBlockStep DEF Event
<1>18. CASE UNCHANGED audioVars
  BY <1>18 DEF audioVars
<1>19. QED
  BY <1>1, <1>2, <1>3, <1>4, <1>5, <1>6, <1>7, <1>8, <1>9, <1>10, <1>11,
     <1>12, <1>13, <1>14, <1>15, <1>16, <1>17, <1>18
     DEF NextAudio, CallingAudio, Playing

\* The main thread never touches the driver, and the audio thread, which does,
\* leaves its place in the same step.
LEMMA AudioPlacesStep ==
    ASSUME TypeOKAudio, SoundFollows, ThreadFollows, [NextAudio]_audioVars
    PROVE  (SoundFollows /\ ThreadFollows)'
<1> USE DEF TypeOKAudio, SoundFollows, ThreadFollows
<1>1. CASE Create
  BY <1>1 DEF Create, MainGoes
<1>2. CASE WaitInited
  BY <1>2 DEF WaitInited, MainGoes
<1>3. CASE StartAudio
  BY <1>3 DEF StartAudio, MainGoes, Unblock, Signal
<1>4. CASE Stop
  BY <1>4 DEF Stop, MainGoes, Block, Signal
<1>5. CASE Stopped
  BY <1>5 DEF Stopped, MainGoes
<1>6. CASE Asked
  BY <1>6 DEF Asked, MainGoes, Signal
<1>7. CASE Free
  BY <1>7 DEF Free, MainGoes, Signal
<1>8. CASE JoinAudio
  BY <1>8 DEF JoinAudio, MainGoes
<1>9. CASE ToggleMute
  BY <1>9 DEF ToggleMute, Block, Signal
<1>10. CASE InitDriver
  BY <1>10 DEF InitDriver, LoopGoes, Signal
<1>11. CASE First
  BY <1>11 DEF First, LoopGoes, Sleep
<1>12. CASE Top
  BY <1>12 DEF Top, LoopGoes, Sleep, Signal
<1>13. CASE Held
  BY <1>13 DEF Held, LoopGoes, Sleep
<1>14. CASE Callback
  BY <1>14 DEF Callback, LoopGoes
<1>15. CASE CallbackDone
  BY <1>15 DEF CallbackDone, LoopGoes, Signal
<1>16. CASE FreeDriver
  BY <1>16 DEF FreeDriver, LoopGoes
<1>17. ASSUME NEW by \in {"pause", "menu"}, Event(by)
       PROVE (SoundFollows /\ ThreadFollows)'
  BY <1>17 DEF Event, Hold, LetGo, Block, Signal
<1>18. CASE UNCHANGED audioVars
  BY <1>18 DEF audioVars
<1>19. QED
  BY <1>1, <1>2, <1>3, <1>4, <1>5, <1>6, <1>7, <1>8, <1>9, <1>10, <1>11,
     <1>12, <1>13, <1>14, <1>15, <1>16, <1>17, <1>18
     DEF NextAudio, CallingAudio, Playing

\* thr->stopped is set with no callback counted, and read before each.
LEMMA AudioLateStep ==
    ASSUME TypeOKAudio, FirstSinceStop, [NextAudio]_audioVars
    PROVE  FirstSinceStop'
<1> USE DEF TypeOKAudio, FirstSinceStop
<1>1. CASE Create
  BY <1>1 DEF Create, MainGoes
<1>2. CASE WaitInited
  BY <1>2 DEF WaitInited, MainGoes
<1>3. CASE StartAudio
  BY <1>3 DEF StartAudio, MainGoes, Unblock, Signal
<1>4. CASE Stop
  BY <1>4 DEF Stop, MainGoes, Block, Signal
<1>5. CASE Stopped
  BY <1>5 DEF Stopped, MainGoes
<1>6. CASE Asked
  BY <1>6 DEF Asked, MainGoes, Signal
<1>7. CASE Free
  BY <1>7 DEF Free, MainGoes, Signal
<1>8. CASE JoinAudio
  BY <1>8 DEF JoinAudio, MainGoes
<1>9. CASE ToggleMute
  BY <1>9 DEF ToggleMute, Block, Signal
<1>10. CASE InitDriver
  BY <1>10 DEF InitDriver, LoopGoes, Signal
<1>11. CASE First
  BY <1>11 DEF First, LoopGoes, Sleep
<1>12. CASE Top
  BY <1>12 DEF Top, LoopGoes, Sleep, Signal
<1>13. CASE Held
  BY <1>13 DEF Held, LoopGoes, Sleep
<1>14. CASE Callback
  BY <1>14 DEF Callback, LoopGoes
<1>15. CASE CallbackDone
  BY <1>15 DEF CallbackDone, LoopGoes, Signal
<1>16. CASE FreeDriver
  BY <1>16 DEF FreeDriver, LoopGoes
<1>17. ASSUME NEW by \in {"pause", "menu"}, Event(by) PROVE FirstSinceStop'
  BY <1>17 DEF Event, Hold, LetGo, Block, Signal
<1>18. CASE UNCHANGED audioVars
  BY <1>18 DEF audioVars
<1>19. QED
  BY <1>1, <1>2, <1>3, <1>4, <1>5, <1>6, <1>7, <1>8, <1>9, <1>10, <1>11,
     <1>12, <1>13, <1>14, <1>15, <1>16, <1>17, <1>18
     DEF NextAudio, CallingAudio, Playing

(* What the thread, its driver and the main thread know of one another.        *)
THEOREM ThreadInvariant == SpecAudio => []ThreadInv
<1>1. InitAudio => ThreadInv
  <2> SUFFICES ASSUME InitAudio PROVE ThreadInv
    OBVIOUS
  <2>1. audio \in [muted : BOOLEAN, active : BOOLEAN, on : BOOLEAN,
                  held : SUBSET {"pause", "menu"}]
    <3>1. /\ {TRUE} \subseteq BOOLEAN /\ {FALSE} \subseteq BOOLEAN
          /\ {{}} \subseteq SUBSET {"pause", "menu"}
      OBVIOUS
    <3>2. QED
      BY <3>1 DEF InitAudio
  <2>2. SoundFollows /\ ThreadFollows /\ FirstSinceStop
    BY DEF InitAudio, SoundFollows, ThreadFollows, FirstSinceStop
  <2>3. QED
    BY <2>1, <2>2 DEF InitAudio, ThreadInv, TypeOKAudio
<1>2. ThreadInv /\ [NextAudio]_audioVars => ThreadInv'
  BY AudioTypeStep, AudioPlacesStep, AudioLateStep DEF ThreadInv
<1>3. QED
  BY <1>1, <1>2, PTL DEF SpecAudio

(* rarch_threaded_audio: the core's callback is called, and so writes, only     *)
(* while the real driver runs; when audio_thread_free returns the thread has    *)
(* ended and its driver has been freed.                                        *)
THEOREM AudioIsSound == SpecAudio => []AudioInv
<1>1. ThreadInv => AudioInv
  BY DEF ThreadInv, AudioInv, WritesToRunning, FreedOnce, SoundFollows,
     ThreadFollows
<1>2. QED
  BY <1>1, ThreadInvariant, PTL

(* audio_thread_block: however the threads interleave, the core is called back *)
(* at most once more after the thread has been stopped.                        *)
THEOREM AtMostOneLate == SpecAudio => []OneLate
<1>1. ThreadInv => OneLate
  BY DEF ThreadInv, FirstSinceStop, OneLate
<1>2. QED
  BY <1>1, ThreadInvariant, PTL
=============================================================================
