--------------------------- MODULE NetplayWindow ---------------------------
(***************************************************************************)
(* The sliding window of src/netplay.c: two peers run the same game, each   *)
(* at most Frames frames ahead of the input it has heard from the other.   *)
(* The module keeps the frame counters of struct netplay and leaves out    *)
(* the ring buffer, the input states and the game itself, which are in     *)
(* module Netplay; Netplay is checked to implement this one.               *)
(*                                                                         *)
(* A UDP packet carries the inputs of the last Packets frames, so it is    *)
(* known by the newest frame in it, and a network that loses, duplicates   *)
(* and reorders datagrams may hand over any packet sent so far at any      *)
(* time: the packets sent are a function of the sender's counters and no   *)
(* channel variable is needed.                                             *)
(***************************************************************************)
EXTENDS Integers

CONSTANTS
    Frames,      \* lag frames asked for with -F (netplay_sync_frames)
    Packets,     \* UDP_FRAME_PACKETS: frames of input carried by one packet
    FrameLimit   \* bound: no peer starts a frame after this one

\* netplay_new clamps the lag frames to UDP_FRAME_PACKETS.
ASSUME FramesAssumption ==
    /\ Frames \in Nat
    /\ Packets \in Nat \ {0}
    /\ Frames <= Packets
    /\ FrameLimit \in Nat

VARIABLES
    online,      \* has_connection
    polling,     \* own input of this frame is sent, the frame has not run yet
    frame,       \* frame_count: frames this peer has run
    read,        \* read_frame_count: frames of input heard from the other peer
    other,       \* other_frame_count: frames run on inputs known to be real
    flipFrame,   \* flip_frame: where the last flip of users takes effect
    request,     \* the flip command: "none", "asked", "acked" or "naked"
    asked        \* the flip_frame that command carries

vars == <<online, polling, frame, read, other, flipFrame, request, asked>>

Node == {"host", "client"}
Peer(n) == IF n = "host" THEN "client" ELSE "host"

\* Frames whose input n has put in its packet buffer; its newest packet is
\* the one of frame Sent(n) - 1.
Sent(n) == frame[n] + (IF polling[n] THEN 1 ELSE 0)

\* A slip for the ring: one slot too many is taken to be free.
HasRoomMutant(n) == frame[n] + 1 - other[n] <= Frames + 1

\* The ring has a free slot for the next frame (other_ptr # self_ptr).
HasRoom(n) == frame[n] + 1 - other[n] <= Frames

Init ==
    /\ online = [n \in Node |-> TRUE]
    /\ polling = [n \in Node |-> FALSE]
    /\ frame = [n \in Node |-> 0]
    /\ read = [n \in Node |-> 0]
    /\ other = [n \in Node |-> 0]
    /\ flipFrame = [n \in Node |-> 0]
    /\ request = "none"
    /\ asked = 0

-----------------------------------------------------------------------------
(* One frame of one peer                                                     *)

\* netplay_pre_frame up to the first poll: own input goes out.  The other
\* peer's input of frame 0 is never waited for, it is zero by convention.
PreFrame(n) ==
    /\ online[n] /\ ~polling[n]
    /\ frame[n] < FrameLimit
    /\ n = "host" => request = "none"
    /\ polling' = [polling EXCEPT ![n] = TRUE]
    /\ read' = [read EXCEPT ![n] = IF frame[n] = 0 THEN 1 ELSE @]
    /\ UNCHANGED <<online, frame, other, flipFrame, request, asked>>

\* A packet carries its newest input only.
CarriesMutant(p, f) == f = p

\* The packet of frame p carries the input n waits for.
Carries(p, f) == p - Packets < f /\ f <= p

\* Without the test of read_frame_count against frame_count.
ReceiveMutant(n, p) ==
    /\ online[n] /\ polling[n]
    /\ p \in 0 .. Sent(Peer(n)) - 1
    /\ Carries(p, read[n])
    /\ read' = [read EXCEPT ![n] = p + 1]
    /\ UNCHANGED <<online, polling, frame, other, flipFrame, request, asked>>

\* One datagram is received and parsed: the inputs up to frame p are taken in,
\* but none of a frame this peer has not reached.
Receive(n, p) ==
    /\ online[n] /\ polling[n]
    /\ p \in 0 .. Sent(Peer(n)) - 1
    /\ Carries(p, read[n])
    /\ read[n] <= frame[n]
    /\ read' = [read EXCEPT ![n] = IF p < frame[n] THEN p + 1 ELSE frame[n] + 1]
    /\ UNCHANGED <<online, polling, frame, other, flipFrame, request, asked>>

\* The poll is over, the frame runs and netplay_post_frame replays what was
\* mispredicted.  With a full buffer the poll goes on until input arrives.
FinishFrame(n) ==
    /\ online[n] /\ polling[n]
    /\ HasRoom(n) \/ read[n] > other[n]
    /\ polling' = [polling EXCEPT ![n] = FALSE]
    /\ frame' = [frame EXCEPT ![n] = @ + 1]
    /\ other' = [other EXCEPT ![n] = read[n]]
    /\ UNCHANGED <<online, read, flipFrame, request, asked>>

\* The connection is given up (timeout, send or receive error, peer gone):
\* the peer plays on alone and takes no further part.
HangUp(n) ==
    /\ online[n]
    /\ online' = [online EXCEPT ![n] = FALSE]
    /\ UNCHANGED <<polling, frame, read, other, flipFrame, request, asked>>

-----------------------------------------------------------------------------
(* Flipping users: a command of the host over TCP, answered by the client    *)

\* Without the wait for the last flip to be well behind both peers.
AskFlipMutant ==
    /\ online["host"] /\ ~polling["host"]
    /\ request = "none"
    /\ request' = "asked"
    /\ asked' = frame["host"] + 2 * Packets
    /\ UNCHANGED <<online, polling, frame, read, other, flipFrame>>

\* netplay_flip_users up to the blocking wait for the answer.
AskFlip ==
    /\ online["host"] /\ ~polling["host"]
    /\ request = "none"
    /\ frame["host"] >= flipFrame["host"] + 2 * Packets
    /\ request' = "asked"
    /\ asked' = frame["host"] + 2 * Packets
    /\ UNCHANGED <<online, polling, frame, read, other, flipFrame>>

\* The client leaves the command lying until it has reached the flip frame.
AnswerFlipMutant ==
    /\ online["client"] /\ polling["client"] /\ frame["client"] >= asked
    /\ request = "asked"
    /\ request' = "acked"
    /\ flipFrame' = [flipFrame EXCEPT !["client"] = asked]
    /\ UNCHANGED <<online, polling, frame, read, other, asked>>

\* An answer with an unknown code.
AnswerFlipBadCode ==
    /\ online["client"] /\ polling["client"] /\ frame["client"] > 0
    /\ request = "asked"
    /\ request' = "unknown"
    /\ UNCHANGED <<online, polling, frame, read, other, flipFrame, asked>>

\* The client reads commands only in the middle of a poll; it refuses a flip
\* that lies before the one it already has.
AnswerFlip ==
    /\ online["client"] /\ polling["client"] /\ frame["client"] > 0
    /\ request = "asked"
    /\ IF asked < flipFrame["client"]
       THEN /\ request' = "naked"
            /\ UNCHANGED flipFrame
       ELSE /\ request' = "acked"
            /\ flipFrame' = [flipFrame EXCEPT !["client"] = asked]
    /\ UNCHANGED <<online, polling, frame, read, other, asked>>

\* The host forgets to apply the flip the client has agreed to.
EndFlipMutant ==
    /\ online["host"]
    /\ request \in {"acked", "naked"}
    /\ request' = "none"
    /\ UNCHANGED <<online, polling, frame, read, other, flipFrame, asked>>

\* The host hears the answer, or that the client is gone.
EndFlip ==
    /\ online["host"]
    /\ request \in {"acked", "naked"} \/ (request = "asked" /\ ~online["client"])
    /\ request' = "none"
    /\ flipFrame' = IF request = "acked"
                    THEN [flipFrame EXCEPT !["host"] = asked] ELSE flipFrame
    /\ UNCHANGED <<online, polling, frame, read, other, asked>>

-----------------------------------------------------------------------------
NodeStep(n) ==
    \/ PreFrame(n)
    \/ \E p \in 0 .. FrameLimit : Receive(n, p)
    \/ FinishFrame(n)
    \/ HangUp(n)

Next ==
    \/ \E n \in Node : NodeStep(n)
    \/ AskFlip
    \/ AnswerFlip
    \/ EndFlip

Spec == Init /\ [][Next]_vars

(* The main loop calls pre_frame, run and post_frame for ever; a stalled     *)
(* sender keeps resending its newest packet, so that a network that is not   *)
(* dead delivers that one some time; TCP delivers and the host listens.      *)
Fairness ==
    /\ \A n \in Node :
         /\ WF_vars(PreFrame(n))
         /\ WF_vars(FinishFrame(n))
         /\ WF_vars(Receive(n, Sent(Peer(n)) - 1))
    /\ WF_vars(AnswerFlip)
    /\ WF_vars(EndFlip)

FairSpec == Spec /\ Fairness

-----------------------------------------------------------------------------
TypeOK ==
    /\ online \in [Node -> BOOLEAN]
    /\ polling \in [Node -> BOOLEAN]
    /\ frame \in [Node -> Nat]
    /\ read \in [Node -> Nat]
    /\ other \in [Node -> Nat]
    /\ flipFrame \in [Node -> Nat]
    /\ request \in {"none", "asked", "acked", "naked"}
    /\ asked \in Nat

(* "Generally, other_ptr <= read_ptr <= self_ptr" (struct netplay), and the   *)
(* frames that may still be replayed fit in the Frames + 1 slots of the ring: *)
(* the slot of the next frame is never one a replay still needs.              *)
WindowInOrder ==
    \A n \in Node :
        /\ other[n] <= read[n]
        /\ read[n] <= Sent(n)
        /\ Sent(n) - other[n] <= Frames + 1

(* The newest packet of a peer, the only one it resends while it is stalled,  *)
(* still carries the input the other peer waits for: a burst of lost packets  *)
(* can never strand the pair.  Needs 2 * Frames + 2 <= Packets.               *)
NeededFrameInWindow ==
    \A n \in Node : Sent(Peer(n)) - Packets <= read[n]

NewFlipIsAhead ==
    \A n \in Node :
        flipFrame'[n] # flipFrame[n] =>
            /\ flipFrame[n] <= other[n]
            /\ frame[n] <= flipFrame'[n]

(* A flip never changes a frame that is already settled: when a peer takes a  *)
(* new flip frame, everything it may still run or replay lies between the old *)
(* flip frame and the new one.  Needs Frames < Packets.                       *)
FlipsOnlyTheFuture == [][NewFlipIsAhead]_vars

(* The client never has a reason to refuse, so both sides hold the same flip  *)
(* frame whenever no command is under way: no flip is applied by one only.    *)
FlipAgreed ==
    /\ request # "naked"
    /\ request = "none" => flipFrame["host"] = flipFrame["client"]
    /\ request = "acked" => flipFrame["client"] = asked

(* A frame of which the input was heard, or that needs none, is never kept    *)
(* waiting: as long as both peers stay connected each one runs every frame.   *)
EveryFrameRuns ==
    \A n \in Node : \A k \in 0 .. FrameLimit - 1 :
        frame[n] = k ~> \/ frame[n] > k
                        \/ \E m \in Node : ~online[m]
                        \/ frame["client"] = FrameLimit

(* The host waits for the answer to a flip inside a blocking read: it gets    *)
(* one as long as the client is connected and still runs frames.              *)
FlipAnswered ==
    request = "asked" ~> \/ request = "none"
                         \/ \E m \in Node : ~online[m]
                         \/ frame["client"] = FrameLimit
=============================================================================
