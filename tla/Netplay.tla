------------------------------ MODULE Netplay ------------------------------
(***************************************************************************)
(* Netplay of src/netplay.c (the non-spectating mode): host and client run  *)
(* the same deterministic core in lockstep with rollback.  A peer runs      *)
(* ahead on predicted input, keeps the states it may have to return to in a *)
(* ring of Frames + 1 slots, and replays from the first misprediction when  *)
(* the real input arrives.  Inputs travel in UDP packets, each with the     *)
(* last Packets frames; the command that flips the users travels over TCP.  *)
(*                                                                         *)
(* Abstractions.  The state of the core is the sequence of joint inputs it  *)
(* has run on.  A packet is known by the newest frame in it and is never    *)
(* taken off the wire: UDP may lose it, repeat it or hand it over late.     *)
(* A peer that gave up the connection plays on alone; it is left where it   *)
(* gave up.  Time is not modelled: a poll that waits may time out whenever  *)
(* it has nothing to read.                                                  *)
(***************************************************************************)
EXTENDS Integers, Sequences, FiniteSets

CONSTANTS
    Frames,      \* lag frames asked for with -F (netplay_sync_frames)
    Packets,     \* UDP_FRAME_PACKETS
    Retries,     \* MAX_RETRIES
    Pads,        \* Pads[f]: the pad states a user may hold in frame f
    Faults,      \* whether sockets may fail and processes may leave
    FrameLimit   \* bound: no peer starts a frame after this one

ASSUME NetplayAssumption ==
    /\ Frames \in Nat
    /\ Packets \in Nat \ {0}
    /\ Frames <= Packets
    /\ Retries \in Nat \ {0}
    /\ Faults \in BOOLEAN
    /\ FrameLimit \in Nat
    /\ DOMAIN Pads = 0 .. FrameLimit

VARIABLES
    np,        \* struct netplay of each peer, its core and its place in a frame
    packed,    \* the inputs each peer has put into its packet buffer so far
    wire,      \* the packets each peer has put on the wire
    request,   \* TCP: "none", a flip that is "asked", its answer "acked" or "naked"
    asked,     \* the flip frame of that request
    flips      \* the flips agreed so far (history variable)

vars == <<np, packed, wire, request, asked, flips>>

Node == {"host", "client"}
Peer(n) == IF n = "host" THEN "client" ELSE "host"

NoInput == 0
Input == {NoInput} \union UNION {Pads[f] : f \in DOMAIN Pads}

-----------------------------------------------------------------------------
(* struct netplay, its ring of struct delta_frame                            *)

BufferSize == Frames + 1
NextPtr(x) == (x + 1) % BufferSize
PrevPtr(x) == IF x = 0 THEN BufferSize - 1 ELSE x - 1

EmptySlot ==
    [state |-> <<>>, self |-> NoInput, real |-> NoInput, simulated |-> NoInput,
     isSimulated |-> TRUE, usedReal |-> FALSE]

\* The user of the port that netplay governs is the other peer.
Port(n) == IF n = "host" THEN 1 ELSE 0

NewNetplay(n) ==
    [pc |-> "idle", core |-> <<>>,
     buffer |-> [i \in 0 .. BufferSize - 1 |-> EmptySlot],
     selfPtr |-> 0, otherPtr |-> 0, readPtr |-> 0,
     frame |-> 0, read |-> 0, other |-> 0,
     hasAddr |-> n = "client",
     timeouts |-> 0, firstRead |-> 0,
     flip |-> 0, flipFrame |-> 0]

Init ==
    /\ np = [n \in Node |-> NewNetplay(n)]
    /\ packed = [n \in Node |-> <<>>]
    /\ wire = [n \in Node |-> {}]
    /\ request = "none"
    /\ asked = 0
    /\ flips = {}

\* has_connection; "lost" is a peer that ran on although its buffer was full.
Connected(n) == np[n].pc \notin {"offline", "lost", "gone"}
InPoll(n) == np[n].pc \in {"first", "again"}

\* Full one frame late: the frame under way is not counted.
FullMutant(r) == r.frame - r.other > Frames
Full(r) == r.otherPtr = r.selfPtr

\* The block argument of the first and of the later calls of poll_input.
Blocks(r) == Full(r) /\ (r.pc = "again" => r.firstRead = r.read)

-----------------------------------------------------------------------------
(* Input of the core                                                         *)

\* The flip takes effect one frame late.
FlipPortMutant(r, f, port) ==
    IF r.flipFrame = 0 THEN port
    ELSE (port + r.flip + (IF f <= r.flipFrame THEN 1 ELSE 0)) % 2

FlipPort(r, f, port) ==
    IF r.flipFrame = 0 THEN port
    ELSE (port + r.flip + (IF f < r.flipFrame THEN 1 ELSE 0)) % 2

InputState(n, r, ptr, f, port) ==
    LET slot == r.buffer[ptr] IN
    IF Port(n) # FlipPort(r, f, port) THEN slot.self
    ELSE IF slot.isSimulated THEN slot.simulated ELSE slot.real

JointInput(n, r, ptr, f) ==
    <<InputState(n, r, ptr, f, 0), InputState(n, r, ptr, f, 1)>>

-----------------------------------------------------------------------------
(* Before the frame: save the state, send own input                          *)

\* A host has nobody to send to until it has heard from the client.
Send(n) ==
    wire' = IF np[n].hasAddr
            THEN [wire EXCEPT ![n] = @ \union {np[n].frame}] ELSE wire

\* netplay_pre_frame_net with get_self_input_state and, in frame 0, the end of
\* netplay_poll: the first frame is always run on zero input and never polls.
PreFrame(n, i) ==
    LET r == np[n]
        slot == [r.buffer[r.selfPtr] EXCEPT !.state = r.core, !.self = i]
    IN
    /\ r.pc = "idle" /\ r.frame < FrameLimit
    /\ IF r.frame = 0
       THEN /\ i = NoInput
            /\ np' = [np EXCEPT ![n] =
                 [r EXCEPT !.buffer[0] = [slot EXCEPT !.usedReal = TRUE,
                                            !.isSimulated = FALSE, !.real = NoInput],
                           !.selfPtr = NextPtr(@), !.readPtr = NextPtr(@),
                           !.read = @ + 1, !.pc = "run"]]
       ELSE /\ i \in Pads[r.frame]
            /\ np' = [np EXCEPT ![n] =
                 [r EXCEPT !.buffer[r.selfPtr] = slot,
                           !.selfPtr = NextPtr(@), !.pc = "first"]]
    /\ packed' = [packed EXCEPT ![n] = Append(@, i)]
    /\ Send(n)
    /\ UNCHANGED <<request, asked, flips>>

-----------------------------------------------------------------------------
(* netplay_poll                                                              *)

\* timeout_cnt++, capped where only "at least Retries" matters.
Counted(t) == IF t < Retries THEN t + 1 ELSE t

\* simulate_input: the other user is taken to hold what was last heard.
Predict(slot, guess) ==
    [slot EXCEPT !.simulated = guess, !.isSimulated = TRUE, !.usedReal = FALSE]

\* The end of netplay_poll: predict the input that has not arrived, or note
\* that the frame ran on real input.  A poll that gives up in the loop comes
\* here too, with the buffer still full and nothing read: that peer is lost.
EndPoll(r) ==
    LET last == PrevPtr(r.selfPtr)
        guess == r.buffer[PrevPtr(r.readPtr)].real
    IN
    IF Full(r) /\ r.read = r.other
    THEN [r EXCEPT !.pc = "lost"]
    ELSE IF r.readPtr # r.selfPtr
    THEN [r EXCEPT !.pc = "run", !.buffer[last] = Predict(@, guess)]
    ELSE [r EXCEPT !.pc = "run", !.buffer[last].usedReal = TRUE]

\* parse_packet: take in the inputs that come next, none of a later frame.
ParsePacket(n, r, p) ==
    LET upTo == IF ~(p - Packets < r.read /\ r.read <= p) THEN r.read - 1
                ELSE IF p < r.frame THEN p ELSE r.frame
        got == r.read .. upTo
        At(f) == (r.readPtr + f - r.read) % BufferSize
    IN
    [r EXCEPT
        !.buffer = [i \in DOMAIN @ |->
            IF \E f \in got : At(f) = i
            THEN [@[i] EXCEPT !.isSimulated = FALSE,
                              !.real = packed[Peer(n)][(CHOOSE f \in got : At(f) = i) + 1]]
            ELSE @[i]],
        !.readPtr = At(upTo + 1),
        !.read = upTo + 1,
        !.timeouts = IF got = {} THEN Counted(@) ELSE 0]

\* poll_input returns 1: a packet is received and parsed, and as long as input
\* is missing the loop polls again.
PollPacket(n, p) ==
    LET r == np[n]
        s == [ParsePacket(n, r, p) EXCEPT !.hasAddr = TRUE,
                !.firstRead = IF r.pc = "first" THEN r.read ELSE @]
    IN
    /\ InPoll(n)
    /\ p \in wire[Peer(n)]
    /\ np' = [np EXCEPT ![n] =
                IF s.read <= s.frame THEN [s EXCEPT !.pc = "again"] ELSE EndPoll(s)]
    /\ UNCHANGED <<packed, wire, request, asked, flips>>

\* poll_input returns 0: nothing to read and no need to wait.
PollNothing(n) ==
    LET r == np[n] IN
    /\ InPoll(n) /\ ~Blocks(r)
    /\ np' = [np EXCEPT ![n] = EndPoll([r EXCEPT !.timeouts = Counted(@)])]
    /\ UNCHANGED <<packed, wire, request, asked, flips>>

\* poll_input returns -1.  The first call hangs up; a later one only ends the loop.
GiveUp(r) == IF r.pc = "first" THEN [r EXCEPT !.pc = "offline"] ELSE EndPoll(r)

\* A poll that must wait times out: the packet is sent again, and after Retries
\* calls without progress, waiting or not, the poll gives up.
PollTimeout(n) ==
    LET r == [np[n] EXCEPT !.timeouts = Counted(@)] IN
    /\ InPoll(n) /\ Blocks(r)
    /\ Send(n)
    /\ np' = [np EXCEPT ![n] = IF r.timeouts < Retries THEN r ELSE GiveUp(r)]
    /\ UNCHANGED <<packed, request, asked, flips>>

\* The other process has ended: its end of the TCP connection reads as an error.
PollEof(n) ==
    LET r == [np[n] EXCEPT !.timeouts = Counted(@)] IN
    /\ InPoll(n)
    /\ np[Peer(n)].pc = "gone"
    /\ n = "client" => request # "asked"
    /\ np' = [np EXCEPT ![n] = GiveUp(r)]
    /\ UNCHANGED <<packed, wire, request, asked, flips>>

\* netplay_get_cmd, called in any poll_input of the client that finds the
\* command there; the call then goes on with the datagrams.
PollCommand ==
    LET r == np["client"] IN
    /\ InPoll("client")
    /\ request = "asked"
    /\ IF asked < r.flipFrame
       THEN /\ request' = "naked"
            /\ UNCHANGED <<np, flips>>
       ELSE /\ request' = "acked"
            /\ np' = [np EXCEPT !["client"].flip = 1 - @, !["client"].flipFrame = asked]
            /\ flips' = flips \union {asked}
    /\ UNCHANGED <<packed, wire, asked>>

-----------------------------------------------------------------------------
(* The frame runs, then netplay_post_frame_net                               *)

\* Asks the wrong flag: every slot whose real input came has is_simulated reset.
MispredictedMutant(slot) == slot.simulated # slot.real /\ slot.isSimulated

\* The prediction of the frame in this slot was wrong.
Mispredicted(slot) == slot.simulated # slot.real /\ ~slot.usedReal

\* The counter catches up without the pointer.
SettledMutant(r) == [r EXCEPT !.other = r.read]

\* Everything heard is settled now.
Settled(r) == [r EXCEPT !.other = r.read, !.otherPtr = r.readPtr]

\* Go on to the first misprediction among the frames whose input is now known;
\* replay from its saved state up to the present, saving the states again.
PostFrame(n, r) ==
    LET At(f) == (r.otherPtr + f - r.other) % BufferSize
        bad == {f \in r.other .. r.read - 1 : Mispredicted(r.buffer[At(f)])}
        start == CHOOSE f \in bad : \A g \in bad : f <= g
        size == IF At(start) = r.selfPtr THEN BufferSize
                ELSE (r.selfPtr - At(start)) % BufferSize
        base == r.buffer[At(start)].state
        replayed == base \o [k \in 1 .. size |-> JointInput(n, r, At(start + k - 1), start + k - 1)]
        SavedAt(k) == SubSeq(replayed, 1, Len(base) + k)
    IN
    IF bad = {} THEN Settled(r)
    ELSE [Settled(r) EXCEPT
            !.core = replayed,
            !.buffer = [i \in DOMAIN @ |->
                IF \E k \in 0 .. size - 1 : At(start + k) = i
                THEN [@[i] EXCEPT !.state =
                        SavedAt(CHOOSE k \in 0 .. size - 1 : At(start + k) = i)]
                ELSE @[i]]]

RunFrame(n) ==
    LET r == np[n]
        ran == [r EXCEPT !.core = Append(@, JointInput(n, r, PrevPtr(r.selfPtr), r.frame)),
                         !.frame = @ + 1, !.pc = "idle"]
    IN
    /\ r.pc = "run"
    /\ np' = [np EXCEPT ![n] = PostFrame(n, ran)]
    /\ UNCHANGED <<packed, wire, request, asked, flips>>

-----------------------------------------------------------------------------
(* netplay_flip_users, on the host between two frames                        *)

\* Without the wait for the last flip to be well behind both peers.
FlipUsersMutant ==
    LET r == np["host"] IN
    /\ r.pc = "idle"
    /\ request' = "asked"
    /\ asked' = r.frame + 2 * Packets
    /\ np' = [np EXCEPT !["host"].pc = "response"]
    /\ UNCHANGED <<packed, wire, flips>>

FlipUsers ==
    LET r == np["host"] IN
    /\ r.pc = "idle"
    /\ r.frame >= r.flipFrame + 2 * Packets
    /\ np[Peer("host")].pc # "gone"
    /\ request' = "asked"
    /\ asked' = r.frame + 2 * Packets
    /\ np' = [np EXCEPT !["host"].pc = "response"]
    /\ UNCHANGED <<packed, wire, flips>>

GetResponse ==
    LET r == [np["host"] EXCEPT !.pc = "idle"] IN
    /\ np["host"].pc = "response"
    /\ \/ request \in {"acked", "naked"}
       \/ np["client"].pc = "gone"
    /\ np' = [np EXCEPT !["host"] =
                IF request = "acked"
                THEN [r EXCEPT !.flip = 1 - r.flip, !.flipFrame = asked] ELSE r]
    /\ request' = "none"
    /\ UNCHANGED <<packed, wire, asked, flips>>

-----------------------------------------------------------------------------
(* Failures                                                                  *)

\* A datagram cannot be sent or received: the connection is given up.
SocketError(n) ==
    /\ Faults
    /\ np[n].pc \in {"idle", "first", "again"}
    /\ np' = [np EXCEPT ![n].pc = "offline"]
    /\ UNCHANGED <<packed, wire, request, asked, flips>>

\* deinit_netplay: the process ends, or starts another game, between two frames.
Quit(n) ==
    /\ Faults
    /\ np[n].pc \in {"idle", "offline", "lost"}
    /\ np' = [np EXCEPT ![n].pc = "gone"]
    /\ UNCHANGED <<packed, wire, request, asked, flips>>

NodeStep(n) ==
    \/ \E i \in Input : PreFrame(n, i)
    \/ \E p \in 0 .. FrameLimit : PollPacket(n, p)
    \/ PollNothing(n)
    \/ PollTimeout(n)
    \/ PollEof(n)
    \/ RunFrame(n)
    \/ SocketError(n)
    \/ Quit(n)

Next ==
    \/ \E n \in Node : NodeStep(n)
    \/ PollCommand
    \/ FlipUsers
    \/ GetResponse

Spec == Init /\ [][Next]_vars

-----------------------------------------------------------------------------
(* Properties                                                                *)

\* Frames whose input is in the packet buffer and whose state is in the ring.
Sent(n) == Len(packed[n])

TypeOK ==
    /\ \A n \in Node :
         /\ np[n].pc \in {"idle", "first", "again", "run", "response", "offline", "lost", "gone"}
         /\ np[n].core \in Seq(Input \X Input)
         /\ np[n].buffer \in [0 .. Frames ->
                [state : Seq(Input \X Input), self : Input, real : Input, simulated : Input,
                 isSimulated : BOOLEAN, usedReal : BOOLEAN]]
         /\ {np[n].selfPtr, np[n].otherPtr, np[n].readPtr} \subseteq 0 .. Frames
         /\ {np[n].frame, np[n].read, np[n].other, np[n].firstRead} \subseteq 0 .. FrameLimit
         /\ np[n].flip \in {0, 1}
         /\ np[n].flipFrame \in Nat
         /\ np[n].timeouts \in 0 .. Retries
         /\ np[n].hasAddr \in BOOLEAN
    /\ packed \in [Node -> Seq(Input)]
    /\ wire \in [Node -> SUBSET (0 .. FrameLimit)]
    /\ request \in {"none", "asked", "acked", "naked"}

(* The ring pointers of netplay.c move apart from the frame counters, in five  *)
(* functions; they stay the counters modulo the ring all the same, so that a   *)
(* pointer comparison (buffer full, all input read, replay done) means what    *)
(* the code takes it to mean.                                                  *)
PointersFollowCounters ==
    \A n \in Node :
        /\ np[n].selfPtr = Sent(n) % BufferSize
        /\ np[n].readPtr = np[n].read % BufferSize
        /\ np[n].otherPtr = np[n].other % BufferSize

Slot(n, f) == np[n].buffer[f % BufferSize]

\* The joint input frame f really ran on, as far as its slot still tells.
RanOn(n, f) ==
    LET slot == Slot(n, f)
        theirs == IF slot.usedReal THEN slot.real ELSE slot.simulated
        At(port) == IF Port(n) = FlipPort(np[n], f, port) THEN theirs ELSE slot.self
    IN <<At(0), At(1)>>

(* Every state a peer may roll back to is the state before it plus the input   *)
(* that frame ran on, and the present is the last of them plus its input.  So  *)
(* comparing prediction and real input (netplay_post_frame_net) finds every    *)
(* frame that ran on a wrong guess, across replays and reuse of the slots.     *)
SavedStatesChain ==
    \A n \in Node :
        LET r == np[n] IN
        /\ \A f \in r.other .. Sent(n) - 2 :
             Slot(n, f + 1).state = Append(Slot(n, f).state, RanOn(n, f))
        /\ (r.other < r.frame /\ r.frame = Sent(n)) =>
             r.core = Append(Slot(n, r.frame - 1).state, RanOn(n, r.frame - 1))

(* "If our network buffer is full, we simply have to block for new input data" *)
(* (netplay_poll).                                                             *)
BlocksWhenFull == \A n \in Node : np[n].pc # "lost"

(* The packet a stalled peer resends still carries what the other one needs:   *)
(* "To compat UDP packet loss we also send old data along with the packets".   *)
NeededFrameInWindow == \A n \in Node : Sent(Peer(n)) - Packets <= np[n].read

(* Netplay implements the one game both users were promised: the last reliable *)
(* state of each peer is the game of the inputs both have sent.                *)
Reliable(n) ==
    IF np[n].other = np[n].frame THEN np[n].core ELSE np[n].buffer[np[n].otherPtr].state

Game == INSTANCE NetplayGame WITH
    offered <- [n \in Node |-> IF packed[n] = <<>> THEN <<NoInput>> ELSE packed[n]],
    game <- [n \in Node |-> Reliable(n)],
    FlipLimit <- FrameLimit + 2 * Packets

OneGame == Game!Spec

(* Netplay implements the sliding window: a peer that hung up, overran its     *)
(* buffer or left is one that hung up there.                                   *)
Window == INSTANCE NetplayWindow WITH
    online <- [n \in Node |-> Connected(n)],
    polling <- [n \in Node |-> Sent(n) > np[n].frame],
    frame <- [n \in Node |-> np[n].frame],
    read <- [n \in Node |-> np[n].read],
    other <- [n \in Node |-> np[n].other],
    flipFrame <- [n \in Node |-> np[n].flipFrame]

SlidingWindow == Window!Spec

(* "To avoid collition we need to make sure our client/host is synced up well  *)
(* after flip_frame before allowing another flip" (struct netplay).            *)
SyncedBeforeFlip == Window!FlipsOnlyTheFuture

(* The ring and what it holds, in one: types, pointers, and the chain of saved   *)
(* states that a replay starts from.                                           *)
RingInv == TypeOK /\ PointersFollowCounters /\ SavedStatesChain
=============================================================================
