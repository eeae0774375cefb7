----------------------- MODULE NetplayPromises_proofs -----------------------
(***************************************************************************)
(* Proofs about what netplay promises, for every number of lag frames,      *)
(* every packet size and every set of pad states.  About the sliding window *)
(* (NetplayWindow): type correctness, the order of the counters, agreement  *)
(* on flips, and the two properties that need a margin between Frames and   *)
(* Packets.  About the game (NetplayGame): both users play the same one,    *)
(* because what a peer has settled is a function of the inputs and the      *)
(* flips agreed, which later steps never change.                            *)
(***************************************************************************)
EXTENDS NetplayWindow, SequenceTheorems, TLAPS

CONSTANTS Input, FlipLimit

VARIABLES offered, flips, game

Game == INSTANCE NetplayGame

THEOREM TypeCorrect == Spec => []TypeOK
<1>1. Init => TypeOK
  BY FramesAssumption DEF Init, TypeOK, Node
<1>2. TypeOK /\ [Next]_vars => TypeOK'
  <2> SUFFICES ASSUME TypeOK, [Next]_vars PROVE TypeOK'
    OBVIOUS
  <2> USE FramesAssumption DEF TypeOK
  <2>1. ASSUME NEW n \in Node, PreFrame(n) PROVE TypeOK'
    BY <2>1 DEF PreFrame
  <2>2. ASSUME NEW n \in Node, NEW p \in 0 .. FrameLimit, Receive(n, p) PROVE TypeOK'
    BY <2>2 DEF Receive
  <2>3. ASSUME NEW n \in Node, FinishFrame(n) PROVE TypeOK'
    BY <2>3 DEF FinishFrame
  <2>4. ASSUME NEW n \in Node, HangUp(n) PROVE TypeOK'
    BY <2>4 DEF HangUp
  <2>5. CASE AskFlip
    BY <2>5 DEF AskFlip, Node
  <2>6. CASE AnswerFlip
    BY <2>6 DEF AnswerFlip
  <2>7. CASE EndFlip
    BY <2>7 DEF EndFlip
  <2>8. CASE UNCHANGED vars
    BY <2>8 DEF vars
  <2>9. QED
    BY <2>1, <2>2, <2>3, <2>4, <2>5, <2>6, <2>7, <2>8 DEF Next, NodeStep
<1>3. QED
  BY <1>1, <1>2, PTL DEF Spec

-----------------------------------------------------------------------------
(* The counters.  WindowInOrder alone is not inductive: that a frame ends     *)
(* with other = read, and that only frames with room or with new input end,   *)
(* bounds how far frame may run ahead of other.                               *)

Counters(n) ==
    /\ other[n] <= read[n]
    /\ read[n] <= Sent(n)
    /\ frame[n] <= other[n] + Frames
    /\ ~polling[n] => other[n] = read[n]
    /\ Sent(n) > 0 => read[n] >= 1

\* Input is heard only after it was sent; that of frame 0 is taken for granted.
HeardWasSent(n) == read[n] <= 1 \/ read[n] <= Sent(Peer(n))

WindowInv ==
    /\ TypeOK
    /\ \A n \in Node : Counters(n) /\ HeardWasSent(n)

\* The other side is a side, and not this one.
LEMMA PeerIsNode ==
    ASSUME NEW n \in Node
    PROVE  Peer(n) \in Node /\ Peer(n) # n /\ Peer(Peer(n)) = n
  BY DEF Node, Peer

\* What was sent is numbered.
LEMMA SentType ==
    ASSUME TypeOK, NEW n \in Node
    PROVE  /\ Sent(n) \in Nat
           /\ polling[n] => Sent(n) = frame[n] + 1
           /\ ~polling[n] => Sent(n) = frame[n]
  BY DEF TypeOK, Sent

\* A step that leaves the counters of the peer alone, adds to what it sent or
\* finishes its frame keeps what was heard from it below what was sent.
LEMMA WindowInductive ==
    ASSUME WindowInv, TypeOK', [Next]_vars
    PROVE  WindowInv'
<1> SUFFICES ASSUME NEW m \in Node PROVE Counters(m)' /\ HeardWasSent(m)'
  BY DEF WindowInv
<1> USE FramesAssumption
<1>0. /\ TypeOK /\ Counters(m) /\ HeardWasSent(m)
      /\ Peer(m) \in Node /\ Peer(m) # m
  BY PeerIsNode DEF WindowInv
<1>1. ASSUME NEW n \in Node, PreFrame(n) PROVE Counters(m)' /\ HeardWasSent(m)'
  <2>1. CASE n = m
    BY <1>0, <1>1, <2>1 DEF PreFrame, TypeOK, Counters, HeardWasSent, Sent
  <2>2. CASE n # m
    BY <1>0, <1>1, <2>2 DEF PreFrame, TypeOK, Counters, HeardWasSent, Sent
  <2>3. QED
    BY <2>1, <2>2
<1>2. ASSUME NEW n \in Node, NEW p \in 0 .. FrameLimit, Receive(n, p)
      PROVE  Counters(m)' /\ HeardWasSent(m)'
  <2>1. CASE n = m
    BY <1>0, <1>2, <2>1 DEF Receive, Carries, TypeOK, Counters,
       HeardWasSent, Sent
  <2>2. CASE n # m
    BY <1>0, <1>2, <2>2 DEF Receive, TypeOK, Counters, HeardWasSent, Sent
  <2>3. QED
    BY <2>1, <2>2
<1>3. ASSUME NEW n \in Node, FinishFrame(n)
       PROVE Counters(m)' /\ HeardWasSent(m)'
  <2>1. CASE n = m
    BY <1>0, <1>3, <2>1 DEF FinishFrame, HasRoom, TypeOK, Counters,
       HeardWasSent, Sent
  <2>2. CASE n # m
    BY <1>0, <1>3, <2>2 DEF FinishFrame, TypeOK, Counters, HeardWasSent,
       Sent
  <2>3. QED
    BY <2>1, <2>2
<1>4. CASE UNCHANGED <<polling, frame, read, other>>
  BY <1>0, <1>4 DEF Counters, HeardWasSent, Sent
<1>5. QED
  BY <1>1, <1>2, <1>3, <1>4
     DEF Next, NodeStep, HangUp, AskFlip, AnswerFlip, EndFlip, vars

THEOREM WindowInvariant == Spec => []WindowInv
<1>1. Init => WindowInv
  BY FramesAssumption DEF Init, WindowInv, TypeOK, Counters,
     HeardWasSent, Sent, Node, Peer
<1>2. TypeOK /\ TypeOK' /\ WindowInv /\ [Next]_vars => WindowInv'
  BY WindowInductive
<1>3. QED
  BY <1>1, <1>2, TypeCorrect, PTL DEF Spec

(* For every number of lag frames the counters keep their order and the frames *)
(* that may be replayed fit in the ring: netplay_pre_frame_net never saves a    *)
(* state into a slot that netplay_post_frame_net still needs.                   *)
THEOREM WindowStaysInOrder == Spec => []WindowInOrder
<1>1. WindowInv => WindowInOrder
  <2> SUFFICES ASSUME WindowInv, NEW n \in Node
               PROVE  /\ other[n] <= read[n]
                      /\ read[n] <= Sent(n)
                      /\ Sent(n) - other[n] <= Frames + 1
    BY DEF WindowInOrder
  <2>1. TypeOK /\ Counters(n)
    BY DEF WindowInv
  <2>2. QED
    BY <2>1, FramesAssumption DEF TypeOK, Counters, Sent
<1>2. QED
  BY <1>1, WindowInvariant, PTL

\* How far a peer may be ahead of what the other one knows of it, and ahead of
\* the oldest frame the other one may still replay.
LEMMA Lead ==
    ASSUME WindowInv, NEW n \in Node
    PROVE  /\ Sent(Peer(n)) <= read[n] + 2 * Frames + 2
           /\ polling[n] /\ ~polling[Peer(n)] =>
                frame[Peer(n)] <= other[n] + 2 * Frames + 1
<1> DEFINE m == Peer(n)
<1>1. m \in Node /\ Peer(m) = n
  BY PeerIsNode
<1>2. TypeOK /\ Counters(n) /\ Counters(m) /\ HeardWasSent(m)
  BY <1>1 DEF WindowInv
<1>3. read[m] <= 1 \/ read[m] <= Sent(n)
  BY <1>1, <1>2 DEF HeardWasSent
<1>4. /\ frame[m] \in Nat /\ read[m] \in Nat /\ other[m] \in Nat
      /\ frame[n] \in Nat /\ read[n] \in Nat /\ other[n] \in Nat
  BY <1>1, <1>2 DEF TypeOK
<1>5. /\ Sent(m) <= read[m] + Frames + 1
      /\ ~polling[m] => frame[m] <= read[m] + Frames
  BY <1>1, <1>2, <1>4, FramesAssumption DEF Counters, Sent, TypeOK
<1>6. Sent(n) <= read[n] + Frames + 1 /\ Sent(n) <= other[n] + Frames + 1
  BY <1>2, <1>4, FramesAssumption DEF Counters, Sent, TypeOK
<1>7. Sent(m) \in Nat /\ Sent(n) \in Nat /\ Frames \in Nat
  BY <1>1, <1>2, SentType, FramesAssumption
<1>8. polling[n] => Sent(n) >= 1
  BY <1>2, <1>4 DEF Sent
<1> HIDE DEF m
<1>9. Sent(m) <= read[n] + 2 * Frames + 2
  BY <1>3, <1>4, <1>5, <1>6, <1>7
<1>10. polling[n] /\ ~polling[m] => frame[m] <= other[n] + 2 * Frames + 1
  BY <1>3, <1>4, <1>5, <1>6, <1>7, <1>8
<1>11. QED
  BY <1>9, <1>10 DEF m

(* With at least two frames of input per lag frame and two more in a packet,   *)
(* the packet a stalled peer resends always carries the frame the other one    *)
(* needs (send_chunk and parse_packet): lost packets never strand the pair.    *)
THEOREM NeededFrameStays ==
    ASSUME 2 * Frames + 2 <= Packets
    PROVE  Spec => []NeededFrameInWindow
<1>1. WindowInv => NeededFrameInWindow
  <2> SUFFICES ASSUME WindowInv, NEW n \in Node
               PROVE  Sent(Peer(n)) - Packets <= read[n]
    BY DEF NeededFrameInWindow
  <2>1. Sent(Peer(n)) <= read[n] + 2 * Frames + 2
    BY Lead
  <2>2. Sent(Peer(n)) \in Nat /\ read[n] \in Nat
    BY PeerIsNode, SentType DEF WindowInv, TypeOK
  <2>3. QED
    BY <2>1, <2>2, FramesAssumption
<1>2. QED
  BY <1>1, WindowInvariant, PTL

-----------------------------------------------------------------------------
(* Flips.  While a request is under way the host stands still between two      *)
(* frames, so what it asked for stays a fixed distance ahead of it.            *)

FlipInv ==
    /\ request \in {"none", "asked", "acked"}
    /\ request = "none" => flipFrame["client"] = flipFrame["host"]
    /\ request = "asked" => flipFrame["client"] = flipFrame["host"]
    /\ request = "acked" => flipFrame["client"] = asked
    /\ request # "none" =>
         /\ ~polling["host"]
         /\ asked = frame["host"] + 2 * Packets
         /\ flipFrame["host"] + 2 * Packets <= frame["host"]

\* Every step keeps the flips agreed.
LEMMA FlipInductive ==
    ASSUME TypeOK, FlipInv, [Next]_vars
    PROVE  FlipInv'
<1> USE FramesAssumption DEF TypeOK, FlipInv
<1>0. "host" \in Node /\ "client" \in Node /\ "host" # "client"
  BY DEF Node
<1>1. ASSUME NEW n \in Node, PreFrame(n) PROVE FlipInv'
  BY <1>0, <1>1 DEF PreFrame
<1>2. ASSUME NEW n \in Node, NEW p \in 0 .. FrameLimit, Receive(n, p)
       PROVE FlipInv'
  BY <1>2 DEF Receive
<1>3. ASSUME NEW n \in Node, FinishFrame(n) PROVE FlipInv'
  BY <1>0, <1>3 DEF FinishFrame
<1>4. ASSUME NEW n \in Node, HangUp(n) PROVE FlipInv'
  BY <1>4 DEF HangUp
<1>5. CASE AskFlip
  BY <1>0, <1>5 DEF AskFlip
<1>6. CASE AnswerFlip
  <2>1. ~(asked < flipFrame["client"])
    BY <1>0, <1>6 DEF AnswerFlip
  <2>2. QED
    BY <1>0, <1>6, <2>1 DEF AnswerFlip
<1>7. CASE EndFlip
  BY <1>0, <1>7 DEF EndFlip
<1>8. CASE UNCHANGED vars
  BY <1>8 DEF vars
<1>9. QED
  BY <1>1, <1>2, <1>3, <1>4, <1>5, <1>6, <1>7, <1>8 DEF Next, NodeStep

THEOREM FlipInvariant == Spec => []FlipInv
<1>1. Init => FlipInv
  BY DEF Init, FlipInv, Node
<1>2. TypeOK /\ FlipInv /\ [Next]_vars => FlipInv'
  BY FlipInductive
<1>3. QED
  BY <1>1, <1>2, TypeCorrect, PTL DEF Spec

(* Host and client hold the same flip frame whenever no flip is under way: the *)
(* client never refuses a request of netplay_flip_users, and none is applied   *)
(* by one side only, whatever hangs up in between.                             *)
THEOREM FlipsAgree == Spec => []FlipAgreed
<1>1. FlipInv => FlipAgreed
  BY DEF FlipInv, FlipAgreed
<1>2. QED
  BY <1>1, FlipInvariant, PTL

(* With fewer lag frames than frames in a packet, a flip never reaches back    *)
(* over a frame that may still be replayed (netplay_flip_port would give such  *)
(* a frame to the wrong user) and never comes too late for the frame it is     *)
(* for: the wait of 2 * UDP_FRAME_PACKETS frames suffices.                     *)
THEOREM FlipsOnlyTheFutureHolds ==
    ASSUME Frames < Packets
    PROVE  Spec => FlipsOnlyTheFuture
<1>1. ASSUME WindowInv, FlipInv, [Next]_vars
      PROVE  NewFlipIsAhead
  <2> USE FramesAssumption
  <2>0. /\ TypeOK
        /\ "host" \in Node /\ "client" \in Node
        /\ Peer("host") = "client" /\ Peer("client") = "host"
    BY <1>1 DEF WindowInv, Node, Peer
  <2>1. CASE AnswerFlip
    <3>1. request = "asked" /\ polling["client"]
      BY <2>1 DEF AnswerFlip
    <3>2. /\ ~polling["host"]
          /\ asked = frame["host"] + 2 * Packets
          /\ flipFrame["host"] + 2 * Packets <= frame["host"]
          /\ flipFrame["client"] = flipFrame["host"]
      BY <1>1, <3>1 DEF FlipInv
    <3>3. frame["host"] <= other["client"] + 2 * Frames + 1
      BY <1>1, <2>0, <3>1, <3>2, Lead
    <3>4. flipFrame["client"] <= other["client"]
      BY <2>0, <3>2, <3>3 DEF TypeOK
    <3>5. read["client"] <= 1 \/ read["client"] <= frame["host"]
      BY <1>1, <2>0, <3>2, SentType DEF WindowInv, HeardWasSent
    <3>6. frame["client"] <= read["client"] + Frames
      BY <1>1, <2>0 DEF WindowInv, Counters, TypeOK
    <3>7. frame["client"] <= asked
      BY <2>0, <3>2, <3>5, <3>6 DEF TypeOK
    <3>8. QED
      BY <2>0, <2>1, <3>4, <3>7 DEF AnswerFlip, TypeOK, Node, NewFlipIsAhead
  <2>2. CASE EndFlip
    <3>1. request # "none"
      BY <2>2 DEF EndFlip
    <3>2. /\ asked = frame["host"] + 2 * Packets
          /\ flipFrame["host"] + 2 * Packets <= frame["host"]
      BY <1>1, <3>1 DEF FlipInv
    <3>3. frame["host"] <= other["host"] + Frames
      BY <1>1, <2>0 DEF WindowInv, Counters
    <3>4. flipFrame["host"] <= other["host"] /\ frame["host"] <= asked
      BY <2>0, <3>2, <3>3 DEF TypeOK
    <3>5. QED
      BY <2>0, <2>2, <3>4 DEF EndFlip, TypeOK, Node, NewFlipIsAhead
  <2>3. CASE UNCHANGED flipFrame
    BY <2>3 DEF NewFlipIsAhead
  <2>4. QED
    BY <1>1, <2>1, <2>2, <2>3
       DEF Next, NodeStep, PreFrame, Receive, FinishFrame, HangUp,
          AskFlip, vars
<1>2. WindowInv /\ FlipInv /\ [Next]_vars => [NewFlipIsAhead]_vars
  BY <1>1
<1>3. QED
  BY <1>2, WindowInvariant, FlipInvariant, PTL DEF Spec, FlipsOnlyTheFuture

-----------------------------------------------------------------------------
(* The game                                                                   *)

\* What n has settled is the game of the inputs both users have offered.
Settled(n) ==
    /\ \A m \in Game!Node : Len(game[n]) <= Len(offered[m])
    /\ \A i \in DOMAIN game[n] : game[n][i] = Game!JointInput(i - 1)

GameInv ==
    /\ Game!TypeOK
    /\ \A n \in Game!Node : Settled(n)

\* The types hold at first.
LEMMA InitIsTyped == ASSUME Game!Init PROVE Game!TypeOK
<1>1. \A n \in Game!Node : offered[n] \in Seq(Input)
  <2> SUFFICES ASSUME NEW n \in Game!Node PROVE offered[n] \in Seq(Input)
    OBVIOUS
  <2>1. offered[n] \in [1 .. 1 -> Input]
    BY DEF Game!Init
  <2>2. QED
    BY <2>1, SeqDef
<1>2. offered \in [Game!Node -> Seq(Input)]
  BY <1>1 DEF Game!Init
<1>3. << >> \in Seq(Input \X Input)
  OBVIOUS
<1>4. game \in [Game!Node -> Seq(Input \X Input)]
  BY <1>3 DEF Game!Init
<1>5. QED
  BY <1>2, <1>4 DEF Game!Init, Game!TypeOK

THEOREM GameTypeCorrect == Game!Spec => []Game!TypeOK
<1>1. Game!Init => Game!TypeOK
  BY InitIsTyped
<1>2. Game!TypeOK /\ [Game!Next]_(Game!vars) => Game!TypeOK'
  <2> SUFFICES ASSUME Game!TypeOK, [Game!Next]_(Game!vars) PROVE Game!TypeOK'
    OBVIOUS
  <2> USE DEF Game!TypeOK
  <2>1. ASSUME NEW n \in Game!Node, NEW i \in Input, Game!Offer(n, i) PROVE Game!TypeOK'
    BY <2>1 DEF Game!Offer
  <2>2. ASSUME NEW f \in 0 .. FlipLimit, Game!AgreeFlip(f) PROVE Game!TypeOK'
    BY <2>2 DEF Game!AgreeFlip
  <2>3. ASSUME NEW n \in Game!Node, NEW k \in 1 .. Len(offered[n]), Game!Settle(n, k)
        PROVE  Game!TypeOK'
    <3>1. k \in Nat /\ (\A m \in Game!Node : k <= Len(offered[m]))
      BY <2>3 DEF Game!Settle
    <3>2. "host" \in Game!Node /\ "client" \in Game!Node
      BY DEF Game!Node
    <3>3. \A j \in 1 .. k : offered["host"][j] \in Input /\ offered["client"][j] \in Input
      BY <3>1, <3>2
    <3>4. \A j \in 1 .. k : Game!JointInput(j - 1) \in Input \X Input
      BY <3>1, <3>3 DEF Game!JointInput
    <3>5. Game!TrueGame(k) \in Seq(Input \X Input)
      BY <3>1, <3>4 DEF Game!TrueGame
    <3>6. QED
      BY <2>3, <3>5 DEF Game!Settle
  <2>4. CASE UNCHANGED Game!vars
    BY <2>4 DEF Game!vars
  <2>5. QED
    BY <2>1, <2>2, <2>3, <2>4 DEF Game!Next
<1>3. QED
  BY <1>1, <1>2, PTL DEF Game!Spec

LEMMA GameInductive ==
    ASSUME GameInv, Game!TypeOK', [Game!Next]_(Game!vars)
    PROVE  GameInv'
<1> SUFFICES ASSUME NEW n \in Game!Node PROVE Settled(n)'
  BY DEF GameInv
<1>0. /\ Game!TypeOK /\ Settled(n)
      /\ "host" \in Game!Node /\ "client" \in Game!Node
  BY DEF GameInv, Game!Node
<1>1. ASSUME NEW m \in Game!Node, NEW i \in Input, Game!Offer(m, i) PROVE Settled(n)'
  <2>1. game' = game /\ flips' = flips
    BY <1>1 DEF Game!Offer
  <2>2. \A q \in Game!Node : /\ Len(offered[q]) <= Len(offered'[q])
                        /\ \A j \in 1 .. Len(offered[q]) : offered'[q][j] = offered[q][j]
    BY <1>0, <1>1 DEF Game!Offer, Game!TypeOK
  <2>3. \A q \in Game!Node : Len(game[n]) <= Len(offered'[q])
    <3> SUFFICES ASSUME NEW q \in Game!Node PROVE Len(game[n]) <= Len(offered'[q])
      OBVIOUS
    <3>1. /\ Len(game[n]) <= Len(offered[q])
          /\ Len(offered[q]) <= Len(offered'[q])
      BY <1>0, <2>2 DEF Settled
    <3>2. Len(game[n]) \in Nat /\ Len(offered[q]) \in Nat /\ Len(offered'[q]) \in Nat
      <4>1. /\ game[n] \in Seq(Input \X Input)
            /\ offered[q] \in Seq(Input) /\ offered'[q] \in Seq(Input)
        BY <1>0 DEF Game!TypeOK
      <4>2. QED
        BY <4>1
    <3>3. QED
      BY <3>1, <3>2
  <2>4. ASSUME NEW j \in DOMAIN game[n] PROVE Game!JointInput(j - 1)' = Game!JointInput(j - 1)
    <3>0. /\ game[n] \in Seq(Input \X Input)
          /\ \A q \in Game!Node : Len(offered[q]) \in Nat
      <4>1. game[n] \in Seq(Input \X Input) /\ \A q \in Game!Node : offered[q] \in Seq(Input)
        BY <1>0 DEF Game!TypeOK
      <4>2. QED
        BY <4>1
    <3>1. /\ j \in Nat
          /\ \A q \in Game!Node : j \in 1 .. Len(offered[q])
      BY <1>0, <3>0 DEF Settled
    <3>2. \A q \in Game!Node : offered'[q][j] = offered[q][j]
      BY <2>2, <3>1
    <3>3. (j - 1) + 1 = j
      BY <3>1
    <3>4. QED
      BY <1>0, <2>1, <3>2, <3>3 DEF Game!JointInput, Game!Swapped
  <2>5. QED
    BY <1>0, <2>1, <2>3, <2>4 DEF Settled
<1>2. ASSUME NEW f \in 0 .. FlipLimit, Game!AgreeFlip(f) PROVE Settled(n)'
  <2>1. game' = game /\ offered' = offered /\ flips' = flips \union {f}
    BY <1>2 DEF Game!AgreeFlip
  <2>2. ASSUME NEW j \in DOMAIN game[n] PROVE Game!JointInput(j - 1)' = Game!JointInput(j - 1)
    <3>1. j \in Nat /\ j <= Len(game[n]) /\ Len(game[n]) <= f /\ f \in Nat
      BY <1>0, <1>2 DEF Game!AgreeFlip, Game!TypeOK
    <3>2. j - 1 < f
      BY <1>0, <3>1 DEF Game!TypeOK
    <3>3. ~(f <= j - 1)
      BY <3>1, <3>2
    <3>4. {x \in flips' : x <= j - 1} = {x \in flips : x <= j - 1}
      BY <2>1, <3>3
    <3>5. Game!Swapped(j - 1)' = Game!Swapped(j - 1)
      BY <3>4 DEF Game!Swapped
    <3>6. QED
      BY <2>1, <3>5 DEF Game!JointInput
  <2>3. QED
    BY <1>0, <2>1, <2>2 DEF Settled
<1>3. ASSUME NEW m \in Game!Node, NEW k \in 1 .. Len(offered[m]), Game!Settle(m, k)
      PROVE  Settled(n)'
  <2>1. /\ offered' = offered /\ flips' = flips
        /\ k \in Nat
        /\ \A q \in Game!Node : k <= Len(offered[q])
    BY <1>3 DEF Game!Settle
  <2>2. CASE n = m
    <3>1. game'[n] = Game!TrueGame(k)
      BY <1>0, <1>3, <2>2 DEF Game!Settle, Game!TypeOK
    <3>2. Len(game'[n]) = k /\ DOMAIN game'[n] = 1 .. k
      BY <2>1, <3>1 DEF Game!TrueGame
    <3>3. \A i \in 1 .. k : game'[n][i] = Game!JointInput(i - 1)
      BY <3>1 DEF Game!TrueGame
    <3>4. \A i \in 1 .. k : Game!JointInput(i - 1)' = Game!JointInput(i - 1)
      BY <2>1 DEF Game!JointInput, Game!Swapped
    <3>5. QED
      BY <2>1, <3>2, <3>3, <3>4 DEF Settled
  <2>3. CASE n # m
    <3>1. game'[n] = game[n]
      BY <1>0, <1>3, <2>3 DEF Game!Settle, Game!TypeOK
    <3>2. QED
      BY <1>0, <2>1, <3>1 DEF Settled, Game!JointInput, Game!Swapped
  <2>4. QED
    BY <2>2, <2>3
<1>4. CASE UNCHANGED Game!vars
  BY <1>0, <1>4 DEF Game!vars, Settled, Game!JointInput, Game!Swapped
<1>5. QED
  BY <1>1, <1>2, <1>3, <1>4 DEF Game!Next

(* Whatever the users press and whenever they swap places, the reliable states *)
(* of both peers (buffer[other_ptr] of each) are states of one game, for every  *)
(* set of pad states: netplay that implements NetplayGame cannot desynchronise. *)
THEOREM OneGameForBoth == Game!Spec => []Game!SameGame
<1>1. Game!Init => GameInv
  <2> SUFFICES ASSUME Game!Init PROVE GameInv
    OBVIOUS
  <2>1. Game!TypeOK
    BY InitIsTyped
  <2>2. \A n \in Game!Node : game[n] = << >>
    BY DEF Game!Init
  <2>3. \A n \in Game!Node : Settled(n)
    BY <2>1, <2>2 DEF Settled, Game!TypeOK
  <2>4. QED
    BY <2>1, <2>3 DEF GameInv
<1>2. GameInv /\ Game!TypeOK' /\ [Game!Next]_(Game!vars) => GameInv'
  BY GameInductive
<1>3. GameInv => Game!SameGame
  BY DEF GameInv, Settled, Game!SameGame
<1>4. QED
  BY <1>1, <1>2, <1>3, GameTypeCorrect, PTL DEF Game!Spec
=============================================================================
