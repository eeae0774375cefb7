---------------------------- MODULE Movie_proofs ----------------------------
(***************************************************************************)
(* Proofs about movies and rewinding, for all inputs, every movie there is    *)
(* to be played, and games of every length below the ring's: whatever the     *)
(* user rewinds, the file is where the game is.                              *)
(***************************************************************************)
EXTENDS Movie, SequenceTheorems, TLAPS

(* What the promises are made for: no reset and no new rewind buffer during a   *)
(* movie, and a game shorter than the ring of positions.  With any of them      *)
(* InStep breaks.                                                            *)
Unbroken == ~Resets /\ ~Toggles /\ FrameLimit < Ring

-----------------------------------------------------------------------------
Kinds ==
    /\ game \in Seq(Inputs) /\ start \in Seq(Inputs) /\ tape \in Seq(Inputs)
    /\ stack \in Seq(Seq(Inputs)) /\ given \in Seq(Seq(Inputs))
    /\ before \in Seq(Seq(Inputs))
    /\ movie \in {"none", "recording", "playback"}
    /\ phase \in {"rewind", "movie", "frame"}
    /\ firstRewind \in BOOLEAN /\ didRewind \in BOOLEAN /\ crossed \in BOOLEAN
    /\ called \in BOOLEAN
    /\ resumed \in Nat /\ ptr \in Slots
    /\ framePos \in [Slots -> Unset .. Len(tape)]
    /\ movie # "none" => granularity = 1

\* Without a movie there is nothing in the file.
NoFile ==
    movie = "none" =>
      /\ start = <<>> /\ tape = <<>> /\ pos = 0
      /\ framePos = NewFramePos /\ ptr = 0
      /\ ~firstRewind /\ ~didRewind

\* Where frame j of the movie begins: a playback goes on behind its tape.
Place(j) == IF movie = "recording" \/ j <= Len(tape) THEN j ELSE Len(tape)

(* The ring of positions, which is never gone around.                          *)
Positions ==
    /\ pos = Place(ptr)
    /\ framePos[0] = 0
    /\ \A j \in Slots : j < ptr => framePos[j] = Place(j)
    /\ movie = "recording" => ptr <= Len(tape)
    /\ movie = "playback" => start = <<>>

(* What is on tape up to here leads to the present state.                      *)
Played ==
    movie # "none" /\ ~crossed =>
      /\ Len(game) = Len(start) + ptr
      /\ \A j \in 1 .. Len(start) : game[j] = start[j]
      /\ \A j \in 1 .. pos : game[Len(start) + j] = tape[j]

\* How many frames before ptr the newest state of the stack was kept.
Behind == IF phase = "rewind" THEN Back ELSE IF didRewind THEN 1 ELSE 0

\* The frame of the movie that the i-th state of the stack was kept in, if there
\* is no gap above it; with one it was kept in an earlier one.
KeptIn(i) == ptr - Behind - (Len(stack) - i)

(* The states above the gap are the game as it was, frame by frame; no state     *)
(* that KeptIn takes for one from before the recording is one from after it.    *)
States ==
    movie # "none" /\ called /\ ~crossed =>
      /\ \A i \in 1 .. Len(stack) :
           i > resumed /\ (movie = "playback" \/ KeptIn(i) > 0) =>
             /\ KeptIn(i) >= 0
             /\ Len(stack[i]) = Len(start) + KeptIn(i)
             /\ \A j \in 1 .. Len(stack[i]) : stack[i][j] = game[j]
      /\ movie = "recording" =>
           \A i \in 1 .. Len(stack) : KeptIn(i) > 0 \/ Contains(before, stack[i])

(* A frame that was gone back to is one that given tells of, so that a gap is    *)
(* noticed; and what the first iteration finds.                               *)
Iteration ==
    /\ crossed => phase # "rewind"
    /\ phase = "rewind" => ~didRewind
    /\ phase = "rewind" /\ movie = "recording" => ptr > 0
    /\ didRewind => given # <<>>
    /\ movie # "none" /\ called /\ phase = "rewind" /\ ~firstRewind => given # <<>>
    /\ ~called => phase = "rewind" /\ movie # "recording"
    /\ ~called /\ movie = "playback" =>
         stack = <<<<>>>> /\ resumed = 0 /\ game = <<>> /\ ptr = 0

MovieIInv == Kinds /\ NoFile /\ Positions /\ Played /\ States /\ Iteration

-----------------------------------------------------------------------------
(* The stack of states.                                                       *)

\* The ring of positions has a first one.
LEMMA RingIsThere == Ring \in Nat /\ Ring > 1 /\ FrameLimit \in Nat /\ 0 \in Slots
  BY MovieAssumption DEF Slots

\* Going back takes the last state off the stack.
LEMMA PopIs ==
    ASSUME Kinds, Buffer!Pop
    PROVE  /\ Len(stack) \in Nat \ {0} /\ Len(stack') = Len(stack) - 1
           /\ stack' \in Seq(Seq(Inputs)) /\ given' \in Seq(Seq(Inputs))
           /\ \A i \in 1 .. Len(stack') : stack'[i] = stack[i]
           /\ Last(stack) = stack[Len(stack)] /\ Last(stack) \in Seq(Inputs)
           /\ given' # <<>>
<1>1. /\ stack # <<>> /\ stack' = SubSeq(stack, 1, Len(stack) - 1)
      /\ given' = Append(given, Last(stack))
      /\ stack \in Seq(Seq(Inputs)) /\ given \in Seq(Seq(Inputs))
  BY DEF Buffer!Pop, Buffer!Last, Buffer!Front, Kinds, Last
<1>2. Len(stack) \in Nat \ {0} /\ Last(stack) = stack[Len(stack)]
  BY <1>1, EmptySeq DEF Last
<1>3. \A i \in 1 .. Len(stack) : stack[i] \in Seq(Inputs)
  BY <1>1, ElementOfSeq
<1>4. Last(stack) \in Seq(Inputs)
  BY <1>2, <1>3
<1> DEFINE less == SubSeq(stack, 1, Len(stack) - 1)
<1>5. /\ less \in Seq(Seq(Inputs)) /\ Len(less) = Len(stack) - 1
      /\ \A i \in 1 .. Len(less) : less[i] = stack[i]
  <2>1. \A i \in 1 .. Len(stack) - 1 : stack[i] \in Seq(Inputs)
    BY <1>2, <1>3
  <2>2. /\ less \in Seq(Seq(Inputs))
        /\ Len(less) = IF 1 <= Len(stack) - 1 THEN Len(stack) - 1 - 1 + 1 ELSE 0
        /\ \A i \in 1 .. Len(stack) - 1 - 1 + 1 : less[i] = stack[1 + i - 1]
    <3>1. 1 \in Int /\ Len(stack) - 1 \in Int
      BY <1>2
    <3>2. QED
      BY <2>1, <3>1, SubSeqProperties
  <2> HIDE DEF less
  <2>3. Len(less) = Len(stack) - 1
    <3>1. /\ Len(stack) - 1 - 1 + 1 = Len(stack) - 1
          /\ ~ (1 <= Len(stack) - 1) => Len(stack) - 1 = 0
      <4>1. \A n \in Nat \ {0} : n - 1 - 1 + 1 = n - 1 /\ (~ (1 <= n - 1) => n - 1 = 0)
        OBVIOUS
      <4>2. QED
        BY <1>2, <4>1
    <3>2. QED
      BY <2>2, <3>1, Zenon
  <2>4. ASSUME NEW i \in 1 .. Len(less) PROVE less[i] = stack[i]
    <3>1. i \in 1 .. Len(stack) - 1 - 1 + 1 /\ 1 + i - 1 = i
      BY <1>2, <2>3
    <3>2. QED
      BY <2>2, <3>1
  <2>5. QED
    BY <2>2, <2>3, <2>4
<1>6. given' \in Seq(Seq(Inputs)) /\ given' # <<>>
  <2>1. Append(given, Last(stack)) # <<>>
    <3>1. Len(Append(given, Last(stack))) = Len(given) + 1 /\ Len(given) \in Nat
      BY <1>1, <1>4, AppendProperties
    <3>2. Len(<<>>) = 0
      OBVIOUS
    <3>3. QED
      BY <3>1, <3>2
  <2>2. Append(given, Last(stack)) \in Seq(Seq(Inputs))
    BY <1>1, <1>4, AppendProperties
  <2>3. QED
    BY <1>1, <2>1, <2>2
<1>7. stack' = less
  BY <1>1
<1> HIDE DEF less
<1>8. QED
  BY <1>2, <1>4, <1>5, <1>6, <1>7

\* Keeping a state puts it on top, and may forget the oldest.
LEMMA PushIs ==
    ASSUME Kinds, Buffer!Push(game)
    PROVE  \E n \in 0 .. Len(stack) :
             /\ Len(stack) \in Nat /\ Len(stack') = Len(stack) - n + 1
             /\ stack' \in Seq(Seq(Inputs))
             /\ \A i \in 1 .. Len(stack) - n : stack'[i] = stack[n + i]
             /\ stack'[Len(stack')] = game
             /\ given' = <<>>
<1>1. PICK n \in 0 .. Len(stack) : stack' = Append(SubSeq(stack, n + 1, Len(stack)), game)
  BY DEF Buffer!Push
<1>2. /\ stack \in Seq(Seq(Inputs)) /\ game \in Seq(Inputs) /\ Len(stack) \in Nat
      /\ given' = <<>>
  BY DEF Kinds, Buffer!Push
<1> DEFINE kept == SubSeq(stack, n + 1, Len(stack))
<1>3. \A i \in n + 1 .. Len(stack) : stack[i] \in Seq(Inputs)
  BY <1>2, ElementOfSeq
<1>4. /\ kept \in Seq(Seq(Inputs))
      /\ Len(kept) = IF n + 1 <= Len(stack) THEN Len(stack) - (n + 1) + 1 ELSE 0
      /\ \A i \in 1 .. Len(stack) - (n + 1) + 1 : kept[i] = stack[(n + 1) + i - 1]
  <2>1. n + 1 \in Int /\ Len(stack) \in Int
    BY <1>2
  <2>2. QED
    BY <1>3, <2>1, SubSeqProperties
<1>5. Len(kept) = Len(stack) - n /\ \A i \in 1 .. Len(stack) - n : kept[i] = stack[n + i]
  BY <1>2, <1>4
<1> HIDE DEF kept
<1>6. /\ stack' \in Seq(Seq(Inputs)) /\ Len(stack') = Len(kept) + 1
      /\ \A i \in 1 .. Len(kept) : stack'[i] = kept[i]
      /\ stack'[Len(kept) + 1] = game
  <2>1. stack' = Append(kept, game) /\ kept \in Seq(Seq(Inputs))
    BY <1>1, <1>4 DEF kept
  <2>2. QED
    BY <1>2, <2>1, AppendProperties
<1>7. QED
  BY <1>2, <1>5, <1>6
\* Below the ring's size its arithmetic is that of numbers.
LEMMA NoWrap ==
    ASSUME NEW n \in Nat, n < Ring
    PROVE  n % Ring = n
  BY RingIsThere

\* One more input.
LEMMA AppendIs ==
    ASSUME NEW s \in Seq(Inputs), NEW x \in Inputs
    PROVE  /\ Append(s, x) \in Seq(Inputs) /\ Len(s) \in Nat
           /\ Len(Append(s, x)) = Len(s) + 1
           /\ \A j \in 1 .. Len(s) : Append(s, x)[j] = s[j]
           /\ Append(s, x)[Len(s) + 1] = x
  BY AppendProperties

-----------------------------------------------------------------------------
\* A program starts with no movie or with one to be played, before its first frame.
LEMMA MovieInit == Init => MovieIInv
<1> SUFFICES ASSUME Init PROVE MovieIInv
  OBVIOUS
<1> USE RingIsThere
<1>1. /\ <<>> \in Seq(Inputs) /\ <<>> \in Seq(Seq(Inputs)) /\ <<<<>>>> \in Seq(Seq(Inputs))
      /\ Len(<<>>) = 0
  OBVIOUS
<1>2. tape \in Seq(Inputs) /\ (movie = "none" => tape = <<>>)
  BY <1>1, MovieAssumption DEF Init
<1>3. Len(tape) \in Nat
  BY <1>2
<1>4. NewFramePos \in [Slots -> Unset .. Len(tape)] /\ NewFramePos[0] = 0
  BY <1>3 DEF NewFramePos, Unset
<1>5. Kinds
  BY <1>1, <1>2, <1>4 DEF Init, Kinds
<1>6. NoFile
  BY <1>1, <1>2 DEF Init, NoFile
<1>7. Positions
  BY <1>1, <1>2, <1>3, <1>4 DEF Init, Positions, Place, Slots
<1>8. Played
  BY <1>1 DEF Init, Played
<1>9. States /\ Iteration
  BY <1>1 DEF Init, States, Iteration
<1>10. QED
  BY <1>5, <1>6, <1>7, <1>8, <1>9 DEF MovieIInv

-----------------------------------------------------------------------------
(* check_rewind                                                              *)

\* Where going back in the file leads to.
LEMMA BackInFile ==
    ASSUME MovieIInv, movie # "none", FrameRewind(Last(stack))
    PROVE  /\ ptr' = IF ptr >= Back THEN ptr - Back ELSE 0
           /\ ptr' \in Slots /\ pos' = Place(ptr')
           /\ start' = IF movie = "recording" /\ ptr' = 0 THEN Last(stack) ELSE start
           /\ tape' = tape /\ framePos' = framePos /\ firstRewind' = firstRewind
           /\ didRewind'
<1> USE RingIsThere
<1>1. /\ ptr \in Slots /\ framePos \in [Slots -> Unset .. Len(tape)] /\ tape \in Seq(Inputs)
      /\ firstRewind \in BOOLEAN
  BY DEF MovieIInv, Kinds
<1>2. Len(tape) \in Nat /\ ptr \in Nat /\ ptr < Ring
  BY <1>1 DEF Slots
<1>3. /\ framePos[0] = 0 /\ \A j \in Slots : j < ptr => framePos[j] = Place(j)
      /\ movie = "recording" => ptr <= Len(tape)
  BY DEF MovieIInv, Positions
<1>4. Back \in {1, 2} /\ (Back = 1 <=> firstRewind)
  BY <1>1 DEF Back
<1>5. /\ didRewind' = TRUE /\ tape' = tape /\ framePos' = framePos /\ firstRewind' = firstRewind
  BY DEF FrameRewind, ResetStart
<1>6. CASE AtBeginning
  <2>1. ptr' = 0 /\ pos' = 0 /\ start' = IF movie = "recording" THEN Last(stack) ELSE start
    BY <1>6 DEF FrameRewind, ResetStart
  <2>2. ptr <= 1
    BY <1>6 DEF AtBeginning
  <2>3. Place(0) = 0
    BY <1>2 DEF Place
  <2>4. ptr' = IF ptr >= Back THEN ptr - Back ELSE 0
    BY <1>2, <1>4, <2>1, <2>2
  <2>5. QED
    BY <1>5, <2>1, <2>3, <2>4
<1>7. CASE ~AtBeginning
  <2>1. ptr >= 2
    BY <1>2, <1>3, <1>7 DEF AtBeginning
  <2>2. ptr - Back \in Nat /\ ptr - Back < Ring /\ ptr - Back < ptr
    BY <1>2, <1>4, <2>1
  <2>3. ptr' = ptr - Back /\ ptr' \in Slots /\ ptr' < ptr /\ ptr >= Back
    <3>1. ptr' = (ptr - Back) % Ring
      BY <1>7 DEF FrameRewind
    <3>2. QED
      BY <1>2, <1>4, <2>1, <2>2, <3>1, NoWrap DEF Slots
  <2>4. framePos[ptr'] = Place(ptr')
    BY <1>3, <2>3
  <2>5. ptr' \in Nat /\ ptr' <= Ring
    BY <2>2, <2>3
  <2>6. CASE Place(ptr') <= 0
    <3>1. pos' = 0 /\ start' = IF movie = "recording" THEN Last(stack) ELSE start
      BY <2>4, <2>6, <1>7 DEF FrameRewind, ResetStart
    <3>2. Place(ptr') = 0 /\ (movie = "recording" => ptr' = 0)
      BY <1>2, <2>5, <2>6 DEF Place
    <3>3. QED
      BY <1>5, <2>3, <3>1, <3>2
  <2>7. CASE ~ (Place(ptr') <= 0)
    <3>1. pos' = Place(ptr') /\ start' = start
      BY <2>4, <2>7, <1>7 DEF FrameRewind
    <3>2. ptr' # 0
      BY <1>2, <2>7 DEF Place
    <3>3. QED
      BY <1>5, <2>3, <3>1, <3>2
  <2>8. QED
    BY <2>6, <2>7
<1>8. QED
  BY <1>6, <1>7
\* Back by one state, in the game and in the file.
LEMMA RewoundKeeps ==
    ASSUME MovieIInv, phase = "rewind", phase' = "movie", Rewound,
           UNCHANGED <<granularity, resets, movie, ended, before>>
    PROVE  MovieIInv'
<1> USE RingIsThere
<1>0. PICK top \in Nat : top = Len(stack)
  <2>1. Len(stack) \in Nat
    BY DEF MovieIInv, Kinds
  <2>2. QED
    BY <2>1
<1>1. /\ Kinds /\ NoFile /\ Positions /\ Played /\ States /\ Iteration
      /\ called /\ called' = called /\ resumed' = resumed /\ game' = Last(stack)
      /\ Buffer!Pop /\ crossed' = (movie # "none" /\ Len(stack) <= resumed)
  BY DEF MovieIInv, Rewound
<1>2. /\ top \in Nat /\ top > 0 /\ Len(stack') = top - 1
      /\ stack' \in Seq(Seq(Inputs)) /\ given' \in Seq(Seq(Inputs))
      /\ \A i \in 1 .. Len(stack') : stack'[i] = stack[i]
      /\ Last(stack) = stack[top] /\ Last(stack) \in Seq(Inputs)
      /\ given' # <<>>
  <2>1. /\ Len(stack) \in Nat \ {0} /\ Len(stack') = Len(stack) - 1
        /\ stack' \in Seq(Seq(Inputs)) /\ given' \in Seq(Seq(Inputs))
        /\ \A i \in 1 .. Len(stack') : stack'[i] = stack[i]
        /\ Last(stack) = stack[Len(stack)] /\ Last(stack) \in Seq(Inputs)
        /\ given' # <<>>
    BY <1>1, PopIs
  <2>2. top # 0
    BY <1>0, <2>1
  <2>3. QED
    BY <1>0, <2>1, <2>2
<1>3. CASE movie = "none"
  <2>1. UNCHANGED <<start, tape, pos, framePos, ptr, firstRewind, didRewind, movie>> /\ ~crossed'
    BY <1>1, <1>3 DEF Rewound, fileVars, frameVars
  <2>2. Kinds'
    BY <1>1, <1>2, <2>1 DEF Kinds, Slots
  <2>3. NoFile' /\ Positions'
    BY <1>1, <1>3, <2>1 DEF NoFile, Positions, Place
  <2>4. Played' /\ States' /\ Iteration'
    BY <1>1, <1>3, <2>1 DEF Played, States, Iteration, NoFile
  <2>5. QED
    BY <2>2, <2>3, <2>4 DEF MovieIInv
<1>4. CASE movie # "none"
  <2>1. /\ ptr' = IF ptr >= Back THEN ptr - Back ELSE 0
        /\ ptr' \in Slots /\ pos' = Place(ptr')
        /\ start' = IF movie = "recording" /\ ptr' = 0 THEN game' ELSE start
        /\ tape' = tape /\ framePos' = framePos /\ firstRewind' = firstRewind
        /\ didRewind'
    <3>1. FrameRewind(Last(stack))
      BY <1>1, <1>4 DEF Rewound
    <3>2. QED
      BY <1>1, <1>4, <3>1, BackInFile
  <2>2. /\ Len(tape) \in Nat /\ Len(start) \in Nat /\ ptr \in Nat /\ ptr' \in Nat /\ resumed \in Nat
        /\ Back \in {1, 2} /\ Len(game) \in Nat
        /\ ~crossed /\ ~didRewind
    BY <1>1, <2>1 DEF Kinds, Iteration, Slots, Back
  <2>3. didRewind' = TRUE /\ movie' = movie /\ before' = before
    BY <1>1, <2>1 DEF Rewound, FrameRewind, ResetStart, fileVars, frameVars
  <2>4. Kinds'
    BY <1>1, <1>2, <2>1, <2>3 DEF Kinds, Slots
  <2>5. NoFile' /\ Iteration'
    BY <1>1, <1>2, <1>4, <2>3 DEF NoFile, Iteration
  <2>6. Positions'
    <3>1. /\ framePos[0] = 0 /\ \A j \in Slots : j < ptr => framePos[j] = Place(j)
          /\ movie = "recording" => ptr <= Len(tape)
          /\ movie = "playback" => start = <<>>
      BY <1>1 DEF Positions
    <3>2. ptr' <= ptr
      BY <2>1, <2>2
    <3>3. \A j : Place(j)' = Place(j)
      BY <2>1, <2>3 DEF Place
    <3>4. \A j \in Slots : j < ptr' => framePos'[j] = Place(j)
      BY <2>1, <2>2, <3>1, <3>2 DEF Slots
    <3>5. QED
      BY <2>1, <2>2, <2>3, <3>1, <3>2, <3>3, <3>4 DEF Positions, Slots, Place
  \* The state that was gone back to, and those below it.
  <2>7. \A i \in 1 .. top : KeptIn(i) = ptr - Back - (top - i)
    BY <1>0 DEF KeptIn, Behind
  <2>8. \A i \in 1 .. top - 1 :
          KeptIn(i)' = IF ptr >= Back THEN KeptIn(i) ELSE 0 - (top - i)
    <3>1. TAKE i \in 1 .. top - 1
    <3>2. KeptIn(i)' = ptr' - 1 - (top - 1 - i)
      BY <1>2, <2>3 DEF KeptIn, Behind
    <3>3. QED
      BY <1>2, <2>1, <2>2, <2>7, <3>2
  <2>9. ASSUME NEW i \in 1 .. top, i > resumed, movie = "playback" \/ KeptIn(i) > 0
        PROVE  /\ KeptIn(i) >= 0
               /\ Len(stack[i]) = Len(start) + KeptIn(i)
               /\ \A j \in 1 .. Len(stack[i]) : stack[i][j] = game[j]
    BY <1>0, <1>1, <1>4, <2>2, <2>9 DEF States
  <2>10. ASSUME movie = "recording", NEW i \in 1 .. top
         PROVE  KeptIn(i) > 0 \/ Contains(before, stack[i])
    BY <1>0, <1>1, <1>4, <2>2, <2>10 DEF States
  <2>11. Played'
    <3>1. SUFFICES ASSUME ~crossed'
                   PROVE  /\ Len(game') = Len(start') + ptr'
                          /\ \A j \in 1 .. Len(start') : game'[j] = start'[j]
                          /\ \A j \in 1 .. pos' : game'[Len(start') + j] = tape'[j]
      BY <2>3 DEF Played
    <3>2. top \in 1 .. top /\ top > resumed /\ KeptIn(top) = ptr - Back /\ game' = stack[top]
      <4>1. top \in 1 .. top
        BY <1>2
      <4>2. KeptIn(top) = ptr - Back
        <5>1. KeptIn(top) = ptr - Back - (top - top)
          BY <2>7, <4>1
        <5>2. QED
          BY <2>2, <5>1
      <4>3. top > resumed
        <5>1. ~ (Len(stack) <= resumed)
          BY <1>1, <1>4, <3>1, Zenon
        <5>2. QED
          BY <1>0, <2>2, <5>1
      <4>4. QED
        BY <1>1, <1>2, <4>1, <4>2, <4>3
    <3>3. CASE movie = "recording" /\ ptr' = 0
      <4>1. start' = game' /\ pos' = 0 /\ game' \in Seq(Inputs)
        BY <1>1, <1>2, <2>1, <2>2, <3>3 DEF Place
      <4>2. QED
        BY <3>3, <4>1
    <3>4. CASE ~ (movie = "recording" /\ ptr' = 0)
      <4>1. start' = start
        BY <2>1, <3>4
      <4>2. movie = "playback" \/ KeptIn(top) > 0
        BY <1>1, <1>4, <2>1, <2>2, <3>2, <3>4 DEF Kinds
      <4>3. /\ KeptIn(top) >= 0 /\ Len(game') = Len(start) + KeptIn(top)
            /\ \A j \in 1 .. Len(game') : game'[j] = game[j]
        BY <2>9, <3>2, <4>2
      <4>4. ptr' = KeptIn(top)
        BY <2>1, <2>2, <3>2, <4>3
      <4>5. /\ Len(game) = Len(start) + ptr
            /\ \A j \in 1 .. Len(start) : game[j] = start[j]
            /\ \A j \in 1 .. pos : game[Len(start) + j] = tape[j]
            /\ pos = Place(ptr)
        BY <1>1, <1>4, <2>2 DEF Played, Positions
      <4>6. pos' <= pos /\ pos' <= ptr' /\ pos' \in Nat /\ pos \in Nat
        <5>1. ptr' <= ptr
          BY <2>1, <2>2
        <5>2. QED
          BY <2>1, <2>2, <4>5, <5>1 DEF Place
      <4>7. \A j \in 1 .. Len(start) : game'[j] = start[j]
        BY <2>2, <4>3, <4>4, <4>5
      <4>8. ASSUME NEW j \in 1 .. pos' PROVE game'[Len(start) + j] = tape[j]
        <5>1. j \in 1 .. pos /\ Len(start) + j \in 1 .. Len(game')
          BY <2>2, <4>3, <4>4, <4>6
        <5>2. QED
          BY <4>3, <4>5, <5>1
      <4>9. QED
        BY <2>1, <4>1, <4>3, <4>4, <4>7, <4>8
    <3>5. QED
      BY <3>3, <3>4
  <2>12. States'
    <3>1. SUFFICES ASSUME ~crossed'
                   PROVE  /\ \A i \in 1 .. top - 1 :
                               i > resumed /\ (movie = "playback" \/ KeptIn(i)' > 0) =>
                                 /\ KeptIn(i)' >= 0
                                 /\ Len(stack'[i]) = Len(start') + KeptIn(i)'
                                 /\ \A j \in 1 .. Len(stack'[i]) : stack'[i][j] = game'[j]
                          /\ movie = "recording" =>
                               \A i \in 1 .. top - 1 :
                                 KeptIn(i)' > 0 \/ Contains(before, stack'[i])
      BY <1>1, <1>2, <2>3 DEF States
    <3>2. /\ top \in 1 .. top /\ top > resumed /\ KeptIn(top) = ptr - Back /\ game' = stack[top]
      <4>1. top \in 1 .. top
        BY <1>2
      <4>2. KeptIn(top) = ptr - Back
        <5>1. KeptIn(top) = ptr - Back - (top - top)
          BY <2>7, <4>1
        <5>2. QED
          BY <2>2, <5>1
      <4>3. top > resumed
        <5>1. ~ (Len(stack) <= resumed)
          BY <1>1, <1>4, <3>1, Zenon
        <5>2. QED
          BY <1>0, <2>2, <5>1
      <4>4. QED
        BY <1>1, <1>2, <4>1, <4>2, <4>3
    <3>3. ASSUME NEW i \in 1 .. top - 1, i > resumed, movie = "playback" \/ KeptIn(i)' > 0
          PROVE  /\ KeptIn(i)' >= 0
                 /\ Len(stack'[i]) = Len(start') + KeptIn(i)'
                 /\ \A j \in 1 .. Len(stack'[i]) : stack'[i][j] = game'[j]
      <4>1. i \in 1 .. top /\ stack'[i] = stack[i]
        BY <1>2
      <4>2. ptr >= Back /\ KeptIn(i)' = KeptIn(i)
        <5>1. CASE movie = "playback"
          <6>1. KeptIn(i) >= 0
            BY <2>9, <3>3, <4>1, <5>1
          <6>2. QED
            BY <1>2, <2>2, <2>7, <2>8, <4>1, <6>1
        <5>2. CASE KeptIn(i)' > 0
          <6>1. i \in Nat /\ Back \in {1, 2} /\ top \in Nat
            BY <1>2, <2>2, <4>1
          <6>2. QED
            BY <2>2, <2>7, <2>8, <4>1, <5>2, <6>1
        <5>3. QED
          BY <3>3, <5>1, <5>2
      <4>3. /\ KeptIn(i) >= 0 /\ Len(stack[i]) = Len(start) + KeptIn(i)
            /\ \A j \in 1 .. Len(stack[i]) : stack[i][j] = game[j]
        BY <2>9, <3>3, <4>1, <4>2
      <4>4. KeptIn(i) < KeptIn(top) /\ KeptIn(top) > 0
        <5>1. KeptIn(i) = ptr - Back - (top - i)
          BY <2>7, <4>1
        <5>2. QED
          BY <2>2, <3>2, <4>3, <5>1
      <4>5. /\ Len(game') = Len(start) + KeptIn(top)
            /\ \A j \in 1 .. Len(game') : game'[j] = game[j]
        BY <2>9, <3>2, <4>4
      <4>6. start' = start
        BY <2>1, <2>2, <3>2, <4>2, <4>4
      <4>7. KeptIn(i) \in Int /\ KeptIn(top) \in Int
        <5>1. KeptIn(i) = ptr - Back - (top - i)
          BY <2>7, <4>1
        <5>2. QED
          BY <2>2, <3>2, <5>1
      <4>8. \A j \in 1 .. Len(stack[i]) : j \in 1 .. Len(game')
        BY <2>2, <4>3, <4>4, <4>5, <4>7
      <4>9. QED
        BY <4>1, <4>2, <4>3, <4>5, <4>6, <4>8
    <3>4. ASSUME movie = "recording", NEW i \in 1 .. top - 1
          PROVE  KeptIn(i)' > 0 \/ Contains(before, stack'[i])
      <4>1. i \in 1 .. top /\ stack'[i] = stack[i]
        BY <1>2
      <4>2. KeptIn(i) > 0 \/ Contains(before, stack[i])
        BY <2>10, <3>4, <4>1
      <4>3. KeptIn(i) > 0 => KeptIn(i)' > 0
        BY <1>2, <2>2, <2>7, <2>8, <4>1
      <4>4. QED
        BY <4>1, <4>2, <4>3
    <3>5. QED
      BY <3>3, <3>4
  <2>13. QED
    BY <2>4, <2>5, <2>6, <2>11, <2>12 DEF MovieIInv
<1>5. QED
  BY <1>3, <1>4
\* The state is kept, after a gap if the game had gone back.
LEMMA NotRewindingKeeps ==
    ASSUME MovieIInv, phase = "rewind", phase' = "movie", NotRewinding,
           UNCHANGED <<granularity, resets, movie, ended, before>>
    PROVE  MovieIInv'
<1> USE RingIsThere
<1>1. /\ Kinds /\ NoFile /\ Positions /\ Played /\ States /\ Iteration
      /\ called /\ ~crossed /\ ~didRewind
      /\ UNCHANGED <<game, called, start, tape, pos, framePos, ptr, firstRewind, didRewind, crossed>>
      /\ UNCHANGED <<movie, before, granularity>>
  BY DEF MovieIInv, NotRewinding, Iteration, fileVars, frameVars
<1>2. Positions' /\ NoFile' /\ Played'
  <2>1. \A j : Place(j)' = Place(j)
    BY <1>1 DEF Place
  <2>2. QED
    BY <1>1, <2>1 DEF Positions, NoFile, Played, Place
<1>3. PICK top \in Nat : top = Len(stack)
  <2>1. Len(stack) \in Nat
    BY <1>1 DEF Kinds
  <2>2. QED
    BY <2>1
<1>4. CASE movie = "none" /\ UNCHANGED <<stack, given, resumed>>
  <2>1. Kinds'
    BY <1>1, <1>4 DEF Kinds, Slots
  <2>2. States' /\ Iteration'
    BY <1>1, <1>4 DEF States, Iteration, NoFile
  <2>3. QED
    BY <1>2, <2>1, <2>2 DEF MovieIInv
<1>5. CASE Buffer!Push(game)
           /\ LET depth == IF given = <<>> THEN resumed ELSE Len(stack)
                  forgotten == Len(stack) + 1 - Len(stack')
              IN resumed' = IF depth > forgotten THEN depth - forgotten ELSE 0
  <2>1. PICK n \in 0 .. Len(stack) :
          /\ Len(stack) \in Nat /\ Len(stack') = Len(stack) - n + 1
          /\ stack' \in Seq(Seq(Inputs))
          /\ \A i \in 1 .. Len(stack) - n : stack'[i] = stack[n + i]
          /\ stack'[Len(stack')] = game
          /\ given' = <<>>
    BY <1>1, <1>5, PushIs
  <2>2. /\ n \in Nat /\ n <= top /\ Len(stack') = top - n + 1
        /\ \A i \in 1 .. top - n : stack'[i] = stack[n + i]
        /\ stack'[top - n + 1] = game
    BY <1>3, <2>1
  <2>3. /\ Len(start) \in Nat /\ ptr \in Nat /\ resumed \in Nat /\ Back \in {1, 2}
        /\ Len(game) \in Nat
    BY <1>1 DEF Kinds, Slots, Back
  <2>4. PICK depth \in Nat : /\ depth = IF given = <<>> THEN resumed ELSE top
                             /\ resumed' = IF depth > n THEN depth - n ELSE 0
    <3>1. Len(stack) + 1 - Len(stack') = n
      BY <1>3, <2>2
    <3>2. CASE given = <<>>
      <4>1. resumed' = IF resumed > n THEN resumed - n ELSE 0
        BY <1>5, <3>1, <3>2
      <4>2. QED
        BY <2>3, <3>2, <4>1
    <3>3. CASE given # <<>>
      <4>1. resumed' = IF top > n THEN top - n ELSE 0
        BY <1>3, <1>5, <3>1, <3>3
      <4>2. QED
        BY <2>3, <3>3, <4>1
    <3>4. QED
      BY <3>2, <3>3
  <2>5. resumed' \in Nat
    BY <2>2, <2>4
  <2>6. Kinds'
    <3>1. given' \in Seq(Seq(Inputs))
      BY <2>1
    <3>2. QED
      BY <1>1, <2>1, <2>5, <3>1 DEF Kinds, Slots
  <2>7. Iteration'
    BY <1>1 DEF Iteration
  <2>8. States'
    <3>1. SUFFICES ASSUME movie # "none"
                   PROVE  /\ \A i \in 1 .. top - n + 1 :
                               i > resumed' /\ (movie = "playback" \/ KeptIn(i)' > 0) =>
                                 /\ KeptIn(i)' >= 0
                                 /\ Len(stack'[i]) = Len(start) + KeptIn(i)'
                                 /\ \A j \in 1 .. Len(stack'[i]) : stack'[i][j] = game[j]
                          /\ movie = "recording" =>
                               \A i \in 1 .. top - n + 1 :
                                 KeptIn(i)' > 0 \/ Contains(before, stack'[i])
      BY <1>1, <2>2 DEF States
    <3>2. \A i \in 1 .. top : KeptIn(i) = ptr - Back - (top - i)
      BY <1>3 DEF KeptIn, Behind
    <3>3. \A i \in 1 .. top - n + 1 : KeptIn(i)' = ptr - (top - n + 1 - i)
      <4>1. TAKE i \in 1 .. top - n + 1
      <4>2. KeptIn(i)' = ptr - 0 - (top - n + 1 - i)
        BY <1>1, <2>2 DEF KeptIn, Behind
      <4>3. QED
        BY <2>2, <2>3, <4>2
    <3>4. Back = 2 => given # <<>>
      BY <1>1, <3>1 DEF Iteration, Back
    <3>5. ASSUME NEW i \in 1 .. top - n
          PROVE  /\ i \in 1 .. top - n + 1 /\ n + i \in 1 .. top /\ stack'[i] = stack[n + i]
                 /\ KeptIn(n + i) = ptr - Back - (top - (n + i))
                 /\ KeptIn(i)' = KeptIn(n + i) + Back - 1
                 /\ KeptIn(n + i) \in Int
      <4>1. i \in 1 .. top - n + 1 /\ n + i \in 1 .. top
        BY <2>2
      <4>2. /\ KeptIn(n + i) = ptr - Back - (top - (n + i))
            /\ KeptIn(i)' = ptr - (top - n + 1 - i)
        BY <3>2, <3>3, <4>1
      <4>3. QED
        BY <2>2, <2>3, <4>1, <4>2
    <3>6. ASSUME NEW i \in 1 .. top - n + 1, i > resumed', movie = "playback" \/ KeptIn(i)' > 0
          PROVE  /\ KeptIn(i)' >= 0
                 /\ Len(stack'[i]) = Len(start) + KeptIn(i)'
                 /\ \A j \in 1 .. Len(stack'[i]) : stack'[i][j] = game[j]
      <4>1. CASE i = top - n + 1
        <5>1. KeptIn(i)' = ptr /\ stack'[i] = game
          BY <2>2, <2>3, <3>3, <4>1
        <5>2. Len(game) = Len(start) + ptr
          BY <1>1, <3>1 DEF Played
        <5>3. QED
          BY <2>3, <5>1, <5>2
      <4>2. CASE i \in 1 .. top - n
        <5>1. given = <<>> /\ n + i > resumed
          BY <2>2, <2>3, <2>4, <3>6, <4>2
        <5>2. Back = 1
          BY <2>3, <3>4, <5>1
        <5>3. /\ n + i \in 1 .. top /\ stack'[i] = stack[n + i]
              /\ KeptIn(i)' = KeptIn(n + i)
          BY <3>5, <4>2, <5>2
        <5>4. /\ KeptIn(n + i) >= 0
              /\ Len(stack[n + i]) = Len(start) + KeptIn(n + i)
              /\ \A j \in 1 .. Len(stack[n + i]) : stack[n + i][j] = game[j]
          BY <1>1, <1>3, <3>1, <3>6, <5>1, <5>3 DEF States
        <5>5. QED
          BY <5>3, <5>4
      <4>3. i = top - n + 1 \/ i \in 1 .. top - n
        BY <2>2
      <4>4. QED
        BY <4>1, <4>2, <4>3
    <3>7. ASSUME movie = "recording", NEW i \in 1 .. top - n + 1
          PROVE  KeptIn(i)' > 0 \/ Contains(before, stack'[i])
      <4>1. CASE i = top - n + 1
        <5>1. ptr > 0
          BY <1>1, <3>7 DEF Iteration
        <5>2. KeptIn(i)' = ptr
          BY <2>2, <2>3, <3>3, <4>1
        <5>3. QED
          BY <5>1, <5>2
      <4>2. CASE i \in 1 .. top - n
        <5>1. n + i \in 1 .. top
          BY <3>5, <4>2
        <5>2. KeptIn(n + i) > 0 \/ Contains(before, stack[n + i])
          BY <1>1, <1>3, <3>1, <3>7, <5>1 DEF States
        <5>3. KeptIn(n + i) > 0 => KeptIn(i)' > 0
          BY <2>3, <3>5, <4>2
        <5>4. stack'[i] = stack[n + i]
          BY <3>5, <4>2
        <5>5. QED
          BY <5>2, <5>3, <5>4
      <4>3. QED
        BY <2>2, <4>1, <4>2
    <3>8. QED
      BY <3>6, <3>7
  <2>9. QED
    BY <1>2, <2>6, <2>7, <2>8 DEF MovieIInv
<1>6. QED
  BY <1>4, <1>5 DEF NotRewinding, KeepState
\* The outcomes of check_rewind, each as it leaves file and stack.
LEMMA CheckRewindKeeps ==
    ASSUME MovieIInv, NEW pressed \in BOOLEAN, CheckRewind(pressed)
    PROVE  MovieIInv'
<1>1. /\ Kinds /\ NoFile /\ Positions /\ Played /\ States /\ Iteration
      /\ phase = "rewind" /\ phase' = "movie"
      /\ UNCHANGED <<granularity, resets, movie, ended, before>>
  BY DEF MovieIInv, CheckRewind
<1>2. CASE FirstCheck
  <2>1. /\ ~called /\ called' = TRUE
        /\ UNCHANGED <<game, stack, given, start, tape, pos, framePos, ptr, firstRewind, didRewind,
                       resumed, crossed>>
    BY <1>2 DEF FirstCheck, fileVars, frameVars
  <2>2. Kinds'
    BY <1>1, <2>1 DEF Kinds, Slots
  <2>3. \A j : Place(j)' = Place(j)
    BY <1>1, <2>1 DEF Place
  <2>4. Positions' /\ NoFile' /\ Played'
    BY <1>1, <2>1, <2>3 DEF Positions, NoFile, Played, Place
  <2>5. Iteration'
    BY <1>1, <2>1 DEF Iteration
  <2>6. CASE movie = "none"
    BY <1>1, <2>2, <2>4, <2>5, <2>6 DEF MovieIInv, States
  <2>7. CASE movie # "none"
    <3>1. /\ movie = "playback" /\ stack = <<<<>>>> /\ resumed = 0 /\ ptr = 0 /\ ~didRewind
          /\ start = <<>>
      BY <1>1, <2>1, <2>7 DEF Iteration, Positions, Kinds
    <3>2. Len(stack') = 1 /\ stack'[1] = <<>> /\ Len(<<>>) = 0 /\ Len(start') = 0
      BY <2>1, <3>1
    <3>3. KeptIn(1)' = 0
      BY <1>1, <2>1, <3>1, <3>2 DEF KeptIn, Behind
    <3>4. \A i \in 1 .. 1 : i = 1
      OBVIOUS
    <3>5. States'
      <4>1. movie' = "playback" /\ start' = start
        BY <1>1, <2>1, <3>1
      <4>2. SUFFICES /\ KeptIn(1)' >= 0 /\ Len(stack'[1]) = Len(start') + KeptIn(1)'
                     /\ \A j \in 1 .. Len(stack'[1]) : stack'[1][j] = game'[j]
        BY <3>2, <3>4, <4>1 DEF States
      <4>3. Len(stack'[1]) = 0
        BY <3>2
      <4>4. \A j \in 1 .. 0 : FALSE
        OBVIOUS
      <4>5. QED
        BY <3>2, <3>3, <4>3, <4>4
    <3>6. QED
      BY <2>2, <2>4, <2>5, <3>5 DEF MovieIInv
  <2>8. QED
    BY <2>6, <2>7
<1>3. CASE ReachedEnd
  <2>1. /\ stack = <<>> /\ called
        /\ UNCHANGED <<game, stack, given, count, called, start, tape, pos, framePos, ptr,
                       firstRewind, didRewind, resumed, crossed>>
    BY <1>3 DEF ReachedEnd, fileVars, frameVars, rewindVars
  <2>2. Kinds'
    BY <1>1, <2>1 DEF Kinds, Slots
  <2>3. \A j : Place(j)' = Place(j)
    BY <1>1, <2>1 DEF Place
  <2>4. Positions' /\ NoFile' /\ Played'
    BY <1>1, <2>1, <2>3 DEF Positions, NoFile, Played, Place
  <2>5. Iteration'
    BY <1>1, <2>1 DEF Iteration
  <2>6. States'
    <3>1. Len(stack') = 0
      BY <2>1
    <3>2. \A i \in 1 .. 0 : FALSE
      OBVIOUS
    <3>3. QED
      BY <3>1, <3>2 DEF States
  <2>7. QED
    BY <2>2, <2>4, <2>5, <2>6 DEF MovieIInv
<1>4. QED
  BY <1>1, <1>2, <1>3, RewoundKeeps, NotRewindingKeeps DEF CheckRewind

-----------------------------------------------------------------------------
(* check_movie and the events                                                 *)

\* check_movie may have nothing to do.
LEMMA CheckNothingKeeps ==
    ASSUME MovieIInv, CheckNothing
    PROVE  MovieIInv'
<1>1. /\ Kinds /\ NoFile /\ Positions /\ Played /\ States /\ Iteration
      /\ phase = "movie" /\ phase' = "frame"
      /\ UNCHANGED <<game, stack, given, called, resumed, granularity, movie, start, tape, pos,
                     framePos, ptr, firstRewind, didRewind, before, crossed>>
  BY DEF MovieIInv, CheckNothing, fileVars, frameVars, rewindVars
<1>2. Kinds'
  BY <1>1 DEF Kinds, Slots
<1>3. \A i : Place(i)' = Place(i) /\ KeptIn(i)' = KeptIn(i)
  BY <1>1 DEF Place, KeptIn, Behind, Back
<1>4. Positions' /\ NoFile' /\ Played'
  BY <1>1, <1>3 DEF Positions, NoFile, Played, Place
<1>5. States' /\ Iteration'
  BY <1>1, <1>3 DEF States, Iteration
<1>6. QED
  BY <1>2, <1>4, <1>5 DEF MovieIInv

\* The recording starts from the present state, and all that is kept is from before.
LEMMA StartRecordingKeeps ==
    ASSUME MovieIInv, StartRecording
    PROVE  MovieIInv'
<1> USE RingIsThere
<1>1. /\ Kinds /\ NoFile /\ Iteration /\ phase = "movie" /\ movie = "none"
      /\ phase' = "frame" /\ movie' = "recording" /\ granularity' = 1
      /\ start' = game /\ before' = stack /\ resumed' = 0 /\ crossed' = FALSE
      /\ UNCHANGED <<game, stack, given, called, tape, pos, framePos, ptr, firstRewind, didRewind>>
  BY DEF MovieIInv, StartRecording, frameVars
<1>2. /\ start = <<>> /\ tape = <<>> /\ pos = 0 /\ framePos = NewFramePos /\ ptr = 0
      /\ ~firstRewind /\ ~didRewind
  BY <1>1 DEF NoFile
<1>3. Kinds'
  BY <1>1 DEF Kinds, Slots
<1>4. NoFile' /\ Iteration'
  BY <1>1, <1>2 DEF NoFile, Iteration
<1>5. Positions'
  <2>1. framePos[0] = 0 /\ Len(tape) = 0
    BY <1>2 DEF NewFramePos
  <2>2. \A j \in Slots : ~ (j < 0)
    BY DEF Slots
  <2>3. QED
    BY <1>1, <1>2, <2>1, <2>2 DEF Positions, Place
<1>6. Played'
  <2>1. Len(game) \in Nat
    BY <1>1 DEF Kinds
  <2>2. QED
    BY <1>1, <1>2, <2>1 DEF Played
<1>7. States'
  <2>1. Len(stack) \in Nat
    BY <1>1 DEF Kinds
  <2>2. ASSUME NEW i \in 1 .. Len(stack) PROVE Contains(before', stack'[i]) /\ ~ (KeptIn(i)' > 0)
    <3>1. Contains(before', stack'[i])
      BY <1>1 DEF Contains
    <3>2. KeptIn(i)' = 0 - 0 - (Len(stack) - i)
      BY <1>1, <1>2 DEF KeptIn, Behind
    <3>3. QED
      BY <2>1, <3>1, <3>2
  <2>3. QED
    BY <1>1, <2>2 DEF States
<1>8. QED
  BY <1>3, <1>4, <1>5, <1>6, <1>7 DEF MovieIInv

\* Nothing of the movie is left when it is stopped.
LEMMA StopMovieKeeps ==
    ASSUME MovieIInv, StopMovie
    PROVE  MovieIInv'
<1> USE RingIsThere
<1>1. /\ Kinds /\ Iteration /\ phase = "movie"
      /\ phase' = "frame" /\ movie' = "none"
      /\ start' = <<>> /\ tape' = <<>> /\ pos' = 0 /\ before' = <<>>
      /\ framePos' = NewFramePos /\ ptr' = 0 /\ firstRewind' = FALSE /\ didRewind' = FALSE
      /\ UNCHANGED <<game, stack, given, called, resumed, granularity, crossed>>
  BY DEF MovieIInv, StopMovie, rewindVars
<1>2. /\ <<>> \in Seq(Inputs) /\ <<>> \in Seq(Seq(Inputs)) /\ Len(<<>>) = 0
      /\ NewFramePos \in [Slots -> Unset .. 0] /\ NewFramePos[0] = 0
  BY DEF NewFramePos, Unset
<1>3. Kinds'
  BY <1>1, <1>2 DEF Kinds, Slots
<1>4. NoFile' /\ Iteration' /\ Played' /\ States'
  BY <1>1 DEF NoFile, Iteration, Played, States
<1>5. Positions'
  <2>1. \A j \in Slots : ~ (j < 0)
    BY DEF Slots
  <2>2. QED
    BY <1>1, <1>2, <2>1 DEF Positions, Place, Slots
<1>6. QED
  BY <1>3, <1>4, <1>5 DEF MovieIInv

\* Only without a movie may the game start anew, or the rewind buffer.
LEMMA EventsKeep ==
    ASSUME Unbroken, MovieIInv, Reset \/ ToggleRewind
    PROVE  MovieIInv'
<1>1. /\ Kinds /\ NoFile /\ Positions /\ Iteration /\ movie = "none"
      /\ UNCHANGED <<called, granularity, phase, movie, start, tape, pos, framePos, ptr, firstRewind,
                     didRewind, before, crossed>>
  BY DEF MovieIInv, Unbroken, Reset, ToggleRewind, rewindVars, fileVars, frameVars
<1>2. /\ game' \in Seq(Inputs) /\ stack' \in Seq(Seq(Inputs)) /\ given' \in Seq(Seq(Inputs))
      /\ resumed' \in Nat
  <2>1. <<>> \in Seq(Inputs) /\ <<>> \in Seq(Seq(Inputs)) /\ game \in Seq(Inputs)
    BY <1>1 DEF Kinds
  <2>2. CASE Reset
    <3>1. game' = <<>> /\ UNCHANGED <<stack, given, resumed>>
      BY <2>2 DEF Reset, rewindVars
    <3>2. QED
      BY <1>1, <2>1, <3>1 DEF Kinds
  <2>3. CASE ToggleRewind
    <3>1. game' = game /\ stack' = <<game>> /\ given' = <<>> /\ resumed' = 0
      BY <2>3 DEF ToggleRewind
    <3>2. <<game>> \in Seq(Seq(Inputs))
      BY <2>1
    <3>3. QED
      BY <2>1, <3>1, <3>2
  <2>4. QED
    BY <2>2, <2>3
<1>3. Kinds'
  BY <1>1, <1>2 DEF Kinds, Slots
<1>4. \A j : Place(j)' = Place(j)
  BY <1>1 DEF Place
<1>5. Positions' /\ NoFile' /\ Played' /\ States'
  BY <1>1, <1>4 DEF Positions, NoFile, Played, States, Place
<1>6. Iteration'
  BY <1>1 DEF Iteration, NoFile
<1>7. QED
  BY <1>3, <1>5, <1>6 DEF MovieIInv
-----------------------------------------------------------------------------
(* The frame                                                                  *)

\* With the frame the places of the states that are kept stay what they are.
LEMMA FrameKeepsPlace ==
    ASSUME phase = "frame", phase' = "rewind", ptr \in Nat, ptr' = ptr + 1,
           stack' = stack, Len(stack) \in Nat, didRewind \in BOOLEAN, firstRewind' = ~didRewind,
           NEW i \in 1 .. Len(stack)
    PROVE  KeptIn(i)' = KeptIn(i) /\ KeptIn(i) \in Int
<1>1. PICK top \in Nat : top = Len(stack) /\ top = Len(stack') /\ i \in 1 .. top
  OBVIOUS
<1>2. CASE didRewind
  <2>1. Behind = 1 /\ Behind' = 2
    BY <1>2 DEF Behind, Back
  <2>2. KeptIn(i) = ptr - 1 - (top - i)
    BY <1>1, <2>1 DEF KeptIn
  <2>3. KeptIn(i)' = ptr + 1 - 2 - (top - i)
    BY <1>1, <2>1 DEF KeptIn
  <2>4. QED
    BY <1>1, <2>2, <2>3
<1>3. CASE ~didRewind
  <2>1. Behind = 0 /\ Behind' = 1
    BY <1>3 DEF Behind, Back
  <2>2. KeptIn(i) = ptr - 0 - (top - i)
    BY <1>1, <2>1 DEF KeptIn
  <2>3. KeptIn(i)' = ptr + 1 - 1 - (top - i)
    BY <1>1, <2>1 DEF KeptIn
  <2>4. QED
    BY <1>1, <2>2, <2>3
<1>4. QED
  BY <1>2, <1>3

\* A frame of a movie: one more input, and its place.
LEMMA MovieFrame ==
    ASSUME Unbroken, MovieIInv, phase = "frame", phase' = "rewind", movie # "none",
           Len(game) < FrameLimit, ~crossed, FrameStart, FrameEnd,
           UNCHANGED <<rewindVars, granularity, movie, before, crossed>>,
           start' = start, tape' \in Seq(Inputs), Len(tape') >= Len(tape),
           NEW x \in Inputs, game' = Append(game, x),
           movie = "playback" => tape' = tape,
           movie = "recording" => Len(tape') >= ptr + 1,
           \A j \in 1 .. pos : tape'[j] = tape[j],
           pos' = pos \/ (pos' = pos + 1 /\ x = tape'[pos + 1]),
           pos' = IF movie = "recording" \/ ptr + 1 <= Len(tape') THEN ptr + 1 ELSE Len(tape')
    PROVE  MovieIInv'
<1> USE RingIsThere
<1>1. /\ Kinds /\ NoFile /\ Positions /\ Played /\ States /\ Iteration
      /\ called /\ called' = called /\ movie' = movie
      /\ UNCHANGED <<stack, given, resumed, before, crossed, granularity>>
      /\ framePos' = [framePos EXCEPT ![ptr] = pos]
      /\ ptr' = (ptr + 1) % Ring /\ firstRewind' = ~didRewind /\ didRewind' = FALSE
  BY DEF MovieIInv, FrameStart, FrameEnd, rewindVars, Iteration
<1>2. /\ ptr \in Nat /\ ptr \in Slots /\ Len(tape) \in Nat /\ Len(tape') \in Nat
      /\ Len(start) \in Nat /\ Len(game) \in Nat /\ Len(game) = Len(start) + ptr
      /\ framePos \in [Slots -> Unset .. Len(tape)] /\ framePos[0] = 0
      /\ pos = Place(ptr) /\ pos \in Nat /\ pos <= Len(tape) /\ pos <= ptr
      /\ FrameLimit < Ring /\ Len(stack) \in Nat /\ resumed \in Nat
  <2>1. /\ ptr \in Nat /\ ptr \in Slots /\ Len(tape) \in Nat /\ Len(tape') \in Nat
        /\ Len(start) \in Nat /\ Len(game) \in Nat /\ Len(game) = Len(start) + ptr
        /\ framePos \in [Slots -> Unset .. Len(tape)] /\ framePos[0] = 0
        /\ pos = Place(ptr) /\ FrameLimit < Ring /\ Len(stack) \in Nat /\ resumed \in Nat
        /\ movie = "recording" => ptr <= Len(tape)
    <3>1. /\ ptr \in Slots /\ tape \in Seq(Inputs) /\ start \in Seq(Inputs)
          /\ game \in Seq(Inputs) /\ stack \in Seq(Seq(Inputs)) /\ resumed \in Nat
          /\ framePos \in [Slots -> Unset .. Len(tape)]
      BY <1>1 DEF Kinds
    <3>2. Len(game) = Len(start) + ptr
      BY <1>1 DEF Played
    <3>3. /\ framePos[0] = 0 /\ pos = Place(ptr)
          /\ movie = "recording" => ptr <= Len(tape)
      BY <1>1 DEF Positions
    <3>4. FrameLimit < Ring
      BY DEF Unbroken
    <3>5. ptr \in Nat
      BY <3>1 DEF Slots
    <3>6. /\ Len(tape) \in Nat /\ Len(start) \in Nat /\ Len(game) \in Nat
          /\ Len(stack) \in Nat /\ Len(tape') \in Nat
      BY <3>1
    <3>7. QED
      BY <3>1, <3>2, <3>3, <3>4, <3>5, <3>6
  <2>2. QED
    BY <2>1 DEF Place
<1>3. ptr' = ptr + 1 /\ ptr' \in Slots
  <2>1. ptr + 1 \in Nat /\ ptr + 1 < Ring
    BY <1>2
  <2>2. QED
    BY <1>1, <2>1, NoWrap DEF Slots
<1>4. /\ game' \in Seq(Inputs) /\ Len(game') = Len(game) + 1
      /\ \A j \in 1 .. Len(game) : game'[j] = game[j]
      /\ game'[Len(game) + 1] = x
  BY <1>1, AppendIs DEF Kinds
<1>5. Kinds'
  <2>1. framePos' \in [Slots -> Unset .. Len(tape')]
    <3>1. framePos' \in [Slots -> Int] /\ \A i \in Slots : framePos'[i] \in {framePos[i], pos}
      BY <1>1, <1>2 DEF Unset
    <3>2. ASSUME NEW i \in Slots PROVE framePos'[i] \in Unset .. Len(tape')
      <4>1. framePos[i] \in Unset .. Len(tape)
        BY <1>2
      <4>2. framePos'[i] = framePos[i] \/ framePos'[i] = pos
        BY <3>1
      <4>3. /\ Len(tape') >= Len(tape) /\ Len(tape') \in Nat /\ Len(tape) \in Nat
            /\ pos \in Nat /\ pos <= Len(tape)
        BY <1>2
      <4>4. QED
        BY ONLY <4>1, <4>2, <4>3 DEF Unset
    <3>3. QED
      BY <3>1, <3>2
  <2>2. QED
    BY <1>1, <1>3, <1>4, <2>1 DEF Kinds, Slots
<1>6. NoFile' /\ Iteration'
  <2>1. didRewind => given # <<>>
    BY <1>1 DEF Iteration
  <2>2. ~firstRewind' => given # <<>>
    BY <1>1, <2>1, Zenon
  <2>3. ptr' > 0
    BY <1>2, <1>3
  <2>4. QED
    BY <1>1, <2>2, <2>3 DEF NoFile, Iteration
<1>7. Positions'
  <2>1. pos' = Place(ptr)'
    BY <1>1, <1>3 DEF Place
  <2>2. ASSUME NEW j \in Slots, j < ptr' PROVE framePos'[j] = Place(j)'
    <3>1. j \in Nat /\ j <= ptr
      BY <1>2, <1>3, <2>2 DEF Slots
    <3>2. Place(j)' = Place(j)
      <4>1. CASE movie = "recording"
        BY <1>1, <4>1 DEF Place
      <4>2. CASE movie = "playback"
        <5>1. tape' = tape /\ movie' = movie
          BY <1>1, <4>2
        <5>2. QED
          BY <5>1 DEF Place
      <4>3. QED
        BY <1>1, <4>1, <4>2 DEF Kinds
    <3>3. CASE j = ptr
      BY <1>1, <1>2, <3>2, <3>3
    <3>4. CASE j # ptr
      <4>1. framePos'[j] = framePos[j] /\ j < ptr
        BY <1>1, <1>2, <3>1, <3>4
      <4>2. framePos[j] = Place(j)
        BY <1>1, <4>1 DEF Positions
      <4>3. QED
        BY <3>2, <4>1, <4>2
    <3>5. QED
      BY <3>3, <3>4
  <2>3. Place(0)' = 0
    BY <1>2 DEF Place
  <2>4. framePos'[0] = 0
    <3>1. 0 < ptr'
      BY <1>2, <1>3
    <3>2. QED
      BY <2>2, <2>3, <3>1
  <2>5. movie' = "recording" => ptr' <= Len(tape')
    BY <1>1, <1>3
  <2>6. movie' = "playback" => start' = <<>>
    BY <1>1 DEF Positions
  <2>7. QED
    BY <2>1, <2>2, <2>4, <2>5, <2>6 DEF Positions, Slots
<1>8. Played'
  <2>1. /\ \A j \in 1 .. Len(start) : game[j] = start[j]
        /\ \A j \in 1 .. pos : game[Len(start) + j] = tape[j]
    BY <1>1 DEF Played
  <2>2. Len(game') = Len(start') + ptr'
    BY <1>2, <1>3, <1>4
  <2>3. \A j \in 1 .. Len(start') : game'[j] = start'[j]
    BY <1>2, <1>4, <2>1
  <2>4. ASSUME NEW j \in 1 .. pos' PROVE game'[Len(start') + j] = tape'[j]
    <3>1. CASE j \in 1 .. pos
      <4>1. Len(start) + j \in 1 .. Len(game)
        BY <1>2, <3>1
      <4>2. QED
        BY <1>4, <2>1, <3>1, <4>1
    <3>2. CASE j \notin 1 .. pos
      <4>1. pos' = pos + 1 /\ x = tape'[pos + 1] /\ j = pos + 1
        BY <1>2, <3>2
      \* The tape has not run out before, so that pos is ptr.
      <4>2. pos = ptr
        BY <1>1, <1>2, <4>1 DEF Place, Kinds
      <4>3. QED
        BY <1>2, <1>4, <4>1, <4>2
    <3>3. QED
      BY <3>1, <3>2
  <2>5. QED
    BY <2>2, <2>3, <2>4 DEF Played
<1>9. States'
  <2>1. \A i \in 1 .. Len(stack) : KeptIn(i)' = KeptIn(i) /\ KeptIn(i) \in Int
    <3>1. TAKE i \in 1 .. Len(stack)
    <3>2. didRewind \in BOOLEAN
      BY <1>1 DEF Kinds
    <3>3. QED
      BY <1>1, <1>2, <1>3, <3>2, FrameKeepsPlace
  <2>2. ASSUME NEW i \in 1 .. Len(stack), i > resumed, movie = "playback" \/ KeptIn(i) > 0
        PROVE  /\ KeptIn(i) >= 0 /\ Len(stack[i]) = Len(start) + KeptIn(i)
               /\ \A j \in 1 .. Len(stack[i]) : stack[i][j] = game'[j]
    <3>1. /\ KeptIn(i) >= 0 /\ Len(stack[i]) = Len(start) + KeptIn(i)
          /\ \A j \in 1 .. Len(stack[i]) : stack[i][j] = game[j]
      BY <1>1, <2>2 DEF States
    <3>2. KeptIn(i) <= ptr
      <4>1. KeptIn(i) = ptr - Behind - (Len(stack) - i) /\ Behind \in {0, 1}
        BY DEF KeptIn, Behind
      <4>2. QED
        BY <1>2, <4>1
    <3>3. \A j \in 1 .. Len(stack[i]) : j \in 1 .. Len(game)
      BY <1>2, <2>1, <3>1, <3>2
    <3>4. QED
      BY <1>4, <3>1, <3>3
  <2>3. movie = "recording" =>
          \A i \in 1 .. Len(stack) : KeptIn(i) > 0 \/ Contains(before, stack[i])
    BY <1>1 DEF States
  <2>4. QED
    BY <1>1, <2>1, <2>2, <2>3 DEF States
<1>10. QED
  BY <1>5, <1>6, <1>7, <1>8, <1>9 DEF MovieIInv

\* The three kinds of frame; the two of a movie are MovieFrame.
LEMMA RunFrameKeeps ==
    ASSUME Unbroken, MovieIInv, NEW input \in Inputs, RunFrame(input)
    PROVE  MovieIInv'
<1> USE RingIsThere
<1>1. /\ Kinds /\ NoFile /\ Positions /\ Played /\ States /\ Iteration
      /\ phase = "frame" /\ phase' = "rewind" /\ Len(game) < FrameLimit /\ ~crossed
      /\ UNCHANGED <<rewindVars, granularity, movie, before, crossed>>
  BY DEF MovieIInv, RunFrame
<1>2. CASE RunFree(input)
  <2>1. /\ movie = "none" /\ game' = Append(game, input)
        /\ UNCHANGED <<start, tape, pos, framePos, ptr, firstRewind, didRewind, stack, given, called,
                       resumed>>
    BY <1>1, <1>2 DEF RunFree, fileVars, frameVars, rewindVars
  <2>2. game' \in Seq(Inputs)
    BY <1>1, <2>1, AppendIs DEF Kinds
  <2>3. Kinds'
    BY <1>1, <2>1, <2>2 DEF Kinds, Slots
  <2>4. \A j : Place(j)' = Place(j)
    BY <1>1, <2>1 DEF Place
  <2>5. Positions' /\ NoFile' /\ Played' /\ States'
    BY <1>1, <2>1, <2>4 DEF Positions, NoFile, Played, States, Place
  <2>6. Iteration'
    BY <1>1, <2>1 DEF Iteration, NoFile
  <2>7. QED
    BY <2>3, <2>5, <2>6 DEF MovieIInv
<1>3. /\ ptr \in Nat /\ Len(tape) \in Nat /\ pos = Place(ptr) /\ tape \in Seq(Inputs)
      /\ movie = "recording" => ptr <= Len(tape)
  BY <1>1 DEF Kinds, Positions, Slots
<1>4. CASE RunPlayback(input) /\ FrameStart /\ FrameEnd
  <2>1. /\ movie = "playback" /\ start' = start /\ tape' = tape
        /\ game' = Append(game, IF AtEnd THEN input ELSE tape[pos + 1])
        /\ pos' = IF AtEnd THEN pos ELSE pos + 1
    BY <1>4 DEF RunPlayback
  <2>2. pos \in Nat /\ (pos < Len(tape) => pos = ptr) /\ (pos >= Len(tape) => ptr >= Len(tape))
    BY <1>3, <2>1 DEF Place
  <2>3. Len(tape') = Len(tape) /\ ~ (movie = "recording")
    BY <2>1
  <2>4. CASE AtEnd
    <3>1. game' = Append(game, input) /\ pos' = pos /\ pos >= Len(tape)
      BY <2>1, <2>4 DEF AtEnd
    <3>2. pos' = IF movie = "recording" \/ ptr + 1 <= Len(tape') THEN ptr + 1 ELSE Len(tape')
      BY <1>3, <2>1, <2>2, <2>3, <3>1 DEF Place
    <3>3. Len(tape') >= Len(tape)
      BY <1>3, <2>1
    <3>4. QED
      BY <1>1, <1>3, <1>4, <2>1, <3>1, <3>2, <3>3, MovieFrame
  <2>5. CASE ~AtEnd
    <3>1. game' = Append(game, tape[pos + 1]) /\ pos' = pos + 1 /\ pos < Len(tape)
      BY <1>3, <2>1, <2>2, <2>5 DEF AtEnd
    <3>2. tape[pos + 1] \in Inputs
      <4>1. pos + 1 \in 1 .. Len(tape)
        BY <1>3, <2>2, <3>1
      <4>2. QED
        BY <1>3, <4>1, ElementOfSeq
    <3>3. pos' = IF movie = "recording" \/ ptr + 1 <= Len(tape') THEN ptr + 1 ELSE Len(tape')
      BY <1>3, <2>2, <2>3, <3>1
    <3>4. Len(tape') >= Len(tape)
      BY <1>3, <2>1
    <3>5. QED
      BY <1>1, <1>3, <1>4, <2>1, <3>1, <3>2, <3>3, <3>4, MovieFrame
  <2>6. QED
    BY <2>4, <2>5
<1>5. CASE RunRecording(input) /\ FrameStart /\ FrameEnd
  <2>1. /\ movie = "recording" /\ start' = start /\ game' = Append(game, input) /\ pos' = pos + 1
        /\ tape' = [i \in 1 .. (IF AtEnd THEN pos + 1 ELSE Len(tape)) |->
                     IF i = pos + 1 THEN input ELSE tape[i]]
    BY <1>5 DEF RunRecording
  <2>2. pos = ptr /\ pos <= Len(tape)
    BY <1>3, <2>1 DEF Place
  <2>3. PICK n \in Nat : n = (IF AtEnd THEN pos + 1 ELSE Len(tape)) /\ n >= Len(tape) /\ n >= pos + 1
    BY <1>3, <2>2 DEF AtEnd
  <2>4. \A i \in 1 .. n : (IF i = pos + 1 THEN input ELSE tape[i]) \in Inputs
    <3>1. \A i \in 1 .. n : i = pos + 1 \/ i \in 1 .. Len(tape)
      BY <1>3, <2>2, <2>3
    <3>2. \A i \in 1 .. Len(tape) : tape[i] \in Inputs
      BY <1>3, ElementOfSeq
    <3>3. QED
      BY <3>1, <3>2
  <2>5. /\ tape' = [i \in 1 .. n |-> IF i = pos + 1 THEN input ELSE tape[i]]
        /\ tape' \in Seq(Inputs) /\ Len(tape') = n
    <3>1. tape' = [i \in 1 .. n |-> IF i = pos + 1 THEN input ELSE tape[i]]
      BY <2>1, <2>3
    <3>2. QED
      BY <2>4, <3>1
  <2>6. /\ \A j \in 1 .. pos : tape'[j] = tape[j]
        /\ tape'[pos + 1] = input
    BY <1>3, <2>2, <2>3, <2>5
  <2>7. pos' = IF movie = "recording" \/ ptr + 1 <= Len(tape') THEN ptr + 1 ELSE Len(tape')
    BY <2>1, <2>2
  <2>8. Len(tape') >= Len(tape) /\ Len(tape') >= ptr + 1
    BY <2>2, <2>3, <2>5
  <2>9. QED
    BY <1>1, <1>3, <1>5, <2>1, <2>5, <2>6, <2>7, <2>8, MovieFrame
<1>6. QED
  BY <1>2, <1>4, <1>5 DEF RunFrame

-----------------------------------------------------------------------------
\* One case for each action of Next.
LEMMA MovieStep ==
    ASSUME Unbroken, MovieIInv, [Next]_vars
    PROVE  MovieIInv'
<1>1. ASSUME NEW pressed \in BOOLEAN, CheckRewind(pressed) PROVE MovieIInv'
  BY <1>1, CheckRewindKeeps
<1>2. ASSUME NEW input \in Inputs, RunFrame(input) PROVE MovieIInv'
  BY <1>2, RunFrameKeeps
<1>3. CASE UNCHANGED vars
  <2>1. UNCHANGED <<game, stack, given, called, resumed, granularity, phase, movie, start, tape, pos,
                    framePos, ptr, firstRewind, didRewind, before, crossed>>
    BY <1>3 DEF vars, rewindVars, fileVars, frameVars
  <2>2. \A i : Place(i)' = Place(i) /\ KeptIn(i)' = KeptIn(i)
    BY <2>1 DEF Place, KeptIn, Behind, Back
  <2>3. QED
    BY <2>1, <2>2 DEF MovieIInv, Kinds, NoFile, Positions, Played, States, Iteration, Slots, Place
<1>4. QED
  BY <1>1, <1>2, <1>3, CheckNothingKeeps, StartRecordingKeeps, StopMovieKeeps, EventsKeep DEF Next

(* Positions, tape, game and stack stay together: the inductive invariant.       *)
THEOREM MovieInvariant ==
    ASSUME Unbroken
    PROVE  Spec => []MovieIInv
<1>1. Init => MovieIInv
  BY MovieInit
<1>2. MovieIInv /\ [Next]_vars => MovieIInv'
  BY MovieStep
<1>3. QED
  BY <1>1, <1>2, PTL DEF Spec
-----------------------------------------------------------------------------
(* What the runs check                                                        *)

\* What is on tape up to here, element by element.
LEMMA FilmedIs ==
    ASSUME MovieIInv
    PROVE  /\ pos \in 0 .. Len(tape)
           /\ Filmed \in Seq(Inputs) /\ Len(Filmed) = Len(start) + pos
           /\ \A j \in 1 .. Len(start) : Filmed[j] = start[j]
           /\ \A j \in 1 .. pos : Filmed[Len(start) + j] = tape[j]
<1>1. /\ start \in Seq(Inputs) /\ tape \in Seq(Inputs) /\ ptr \in Nat
      /\ pos = Place(ptr) /\ (movie = "recording" => ptr <= Len(tape))
  BY DEF MovieIInv, Kinds, Positions, Slots
<1>2. Len(start) \in Nat /\ Len(tape) \in Nat
  BY <1>1
<1>3. pos \in Nat /\ pos <= Len(tape)
  BY <1>1, <1>2 DEF Place
<1> DEFINE part == SubSeq(tape, 1, pos)
<1>4. part \in Seq(Inputs) /\ Len(part) = pos /\ \A j \in 1 .. pos : part[j] = tape[j]
  <2>1. \A j \in 1 .. pos : tape[j] \in Inputs
    <3>1. \A j \in 1 .. pos : j \in 1 .. Len(tape)
      BY <1>2, <1>3
    <3>2. QED
      BY <1>1, <3>1, ElementOfSeq
  <2>2. /\ part \in Seq(Inputs)
        /\ Len(part) = IF 1 <= pos THEN pos - 1 + 1 ELSE 0
        /\ \A j \in 1 .. pos - 1 + 1 : part[j] = tape[1 + j - 1]
    <3>1. 1 \in Int /\ pos \in Int
      BY <1>3
    <3>2. QED
      BY <2>1, <3>1, SubSeqProperties
  <2> HIDE DEF part
  <2>3. pos - 1 + 1 = pos /\ (~ (1 <= pos) => pos = 0) /\ \A j \in 1 .. pos : 1 + j - 1 = j
    BY <1>3
  <2>4. QED
    BY <2>2, <2>3
<1> HIDE DEF part
<1>5. Filmed = start \o part
  BY DEF Filmed, part
<1>6. /\ Filmed \in Seq(Inputs) /\ Len(Filmed) = Len(start) + Len(part)
      /\ \A j \in 1 .. Len(start) + Len(part) :
           Filmed[j] = IF j <= Len(start) THEN start[j] ELSE part[j - Len(start)]
  BY <1>1, <1>4, <1>5, ConcatProperties
<1>7. QED
  <2>1. Len(Filmed) = Len(start) + pos
    BY <1>4, <1>6
  <2>2. \A j \in 1 .. Len(start) : Filmed[j] = start[j]
    <3>1. TAKE j \in 1 .. Len(start)
    <3>2. j \in 1 .. Len(start) + Len(part) /\ j <= Len(start)
      BY <1>2, <1>3, <1>4
    <3>3. QED
      BY <1>6, <3>2
  <2>3. \A j \in 1 .. pos : Filmed[Len(start) + j] = tape[j]
    <3>1. TAKE j \in 1 .. pos
    <3>2. /\ Len(start) + j \in 1 .. Len(start) + Len(part) /\ ~ (Len(start) + j <= Len(start))
          /\ Len(start) + j - Len(start) = j
      BY <1>2, <1>3, <1>4
    <3>3. QED
      BY <1>4, <1>6, <3>2
  <2>4. pos \in 0 .. Len(tape)
    BY <1>2, <1>3
  <2>5. QED
    BY <1>6, <2>1, <2>2, <2>3, <2>4

\* What Played says of each input makes the tape and the game one sequence.
LEMMA StaysInStep ==
    ASSUME MovieIInv
    PROVE  InStep
<1> SUFFICES ASSUME phase = "rewind", ~crossed
             PROVE  /\ movie = "recording" => Filmed = game
                    /\ movie = "playback" =>
                         IF AtEnd THEN IsPrefix(Filmed, game) ELSE Filmed = game
  BY DEF InStep
<1>1. /\ pos \in 0 .. Len(tape)
      /\ Filmed \in Seq(Inputs) /\ Len(Filmed) = Len(start) + pos
      /\ \A j \in 1 .. Len(start) : Filmed[j] = start[j]
      /\ \A j \in 1 .. pos : Filmed[Len(start) + j] = tape[j]
  BY FilmedIs
<1>2. /\ start \in Seq(Inputs) /\ tape \in Seq(Inputs) /\ ptr \in Nat /\ game \in Seq(Inputs)
      /\ Len(start) \in Nat /\ Len(tape) \in Nat /\ pos \in Nat /\ Len(game) \in Nat
      /\ pos = Place(ptr)
  BY <1>1 DEF MovieIInv, Kinds, Positions, Slots
<1>3. ASSUME movie # "none"
      PROVE  /\ Len(game) = Len(start) + ptr
             /\ Len(Filmed) <= Len(game)
             /\ \A j \in 1 .. Len(Filmed) : Filmed[j] = game[j]
             /\ pos = ptr => Filmed = game
  <2>1. /\ Len(game) = Len(start) + ptr
        /\ \A j \in 1 .. Len(start) : game[j] = start[j]
        /\ \A j \in 1 .. pos : game[Len(start) + j] = tape[j]
    BY <1>3 DEF MovieIInv, Played
  <2>2. pos <= ptr
    BY <1>2 DEF Place
  <2>3. ASSUME NEW j \in 1 .. Len(Filmed) PROVE Filmed[j] = game[j]
    <3>1. CASE j \in 1 .. Len(start)
      BY <1>1, <2>1, <3>1
    <3>2. CASE j \notin 1 .. Len(start)
      <4>1. PICK i \in 1 .. pos : j = Len(start) + i
        <5>1. j - Len(start) \in 1 .. pos /\ j = Len(start) + (j - Len(start))
          BY <1>1, <1>2, <3>2
        <5>2. QED
          BY <5>1
      <4>2. QED
        BY <1>1, <2>1, <4>1
    <3>3. QED
      BY <3>1, <3>2
  <2>4. Len(Filmed) <= Len(game)
    BY <1>1, <1>2, <2>1, <2>2
  <2>5. ASSUME pos = ptr PROVE Filmed = game
    <3>1. Len(Filmed) = Len(game)
      BY <1>1, <2>1, <2>5
    <3>2. QED
      BY <1>1, <1>2, <2>3, <3>1, SeqEqual
  <2>6. QED
    BY <2>1, <2>3, <2>4, <2>5
<1>4. CASE movie = "recording"
  BY <1>2, <1>3, <1>4 DEF Place
<1>5. CASE movie = "playback" /\ ~AtEnd
  <2>1. pos = ptr
    BY <1>2, <1>5 DEF Place, AtEnd
  <2>2. QED
    BY <1>3, <1>5, <2>1
<1>6. CASE movie = "playback" /\ AtEnd
  <2>1. SubSeq(Filmed, 1, Len(Filmed)) = SubSeq(game, 1, Len(Filmed))
    <3>1. PICK n \in Nat : n = Len(Filmed)
      BY <1>1
    <3>2. /\ n <= Len(game) /\ \A j \in 1 .. n : Filmed[j] = game[j]
      BY <1>3, <1>6, <3>1
    <3>3. SubSeq(Filmed, 1, n) = SubSeq(game, 1, n)
      <4>1. /\ \A j \in 1 .. n : Filmed[j] \in Inputs
            /\ \A j \in 1 .. n : game[j] \in Inputs
        BY <1>1, <1>2, <3>1, <3>2, ElementOfSeq
      <4>2. 1 \in Int /\ n \in Int
        BY <3>1
      <4> DEFINE a == SubSeq(Filmed, 1, n)
                 b == SubSeq(game, 1, n)
      <4>3. /\ a \in Seq(Inputs) /\ Len(a) = IF 1 <= n THEN n - 1 + 1 ELSE 0
            /\ \A j \in 1 .. n - 1 + 1 : a[j] = Filmed[1 + j - 1]
        BY <4>1, <4>2, SubSeqProperties
      <4>4. /\ b \in Seq(Inputs) /\ Len(b) = IF 1 <= n THEN n - 1 + 1 ELSE 0
            /\ \A j \in 1 .. n - 1 + 1 : b[j] = game[1 + j - 1]
        BY <4>1, <4>2, SubSeqProperties
      <4> HIDE DEF a, b
      <4>5. n - 1 + 1 = n /\ (~ (1 <= n) => n = 0) /\ \A j \in 1 .. n : 1 + j - 1 = j
        BY <3>1
      <4>6. Len(a) = n /\ Len(b) = n /\ \A j \in 1 .. n : a[j] = b[j]
        BY <3>2, <4>3, <4>4, <4>5
      <4>7. a = b
        BY <4>3, <4>4, <4>6, SeqEqual
      <4>8. QED
        BY <4>7 DEF a, b
    <3>4. QED
      BY <3>1, <3>3
  <2>2. Len(Filmed) <= Len(game)
    BY <1>3, <1>6
  <2>3. QED
    BY <1>6, <2>1, <2>2 DEF IsPrefix
<1>7. QED
  BY <1>4, <1>5, <1>6

(* TypeOK and InStep: in recording and in playback, and whatever is rewound, what *)
(* is on tape up to where it is read or written is the game that was played.    *)
THEOREM FileStaysWithGame ==
    ASSUME Unbroken
    PROVE  Spec => []MovieInv
<1>1. MovieIInv => MovieInv
  <2> SUFFICES ASSUME MovieIInv PROVE MovieInv
    OBVIOUS
  <2>1. TypeOK
    <3>1. pos \in 0 .. Len(tape)
      BY FilmedIs
    <3>2. QED
      BY <3>1 DEF MovieIInv, Kinds, TypeOK
  <2>2. QED
    BY <2>1, StaysInStep DEF MovieInv
<1>2. QED
  BY <1>1, MovieInvariant, PTL

(* Rewinding a recording moves its start only to a state that was kept before it *)
(* began, even where the stack has a gap.                                     *)
THEOREM StartMovesOnlyBack ==
    ASSUME Unbroken
    PROVE  Spec => StartOnlyBack
<1> DEFINE Move == movie = "recording" /\ movie' = "recording" /\ start' # start
                     => Contains(before, start')
<1>1. MovieIInv /\ [Next]_vars => [Move]_vars
  <2> SUFFICES ASSUME MovieIInv, Next, movie = "recording", movie' = "recording", start' # start
               PROVE  Contains(before, start')
    BY DEF vars
  <2>1. PICK pressed \in BOOLEAN : CheckRewind(pressed) /\ Rewound
    <3>1. ~ (CheckNothing \/ StartRecording \/ StopMovie \/ Reset \/ ToggleRewind)
      BY DEF CheckNothing, StartRecording, StopMovie, Reset, ToggleRewind, fileVars
    <3>2. \A input \in Inputs : ~RunFrame(input)
      BY DEF RunFrame, RunPlayback, RunRecording, RunFree, fileVars
    <3>3. PICK pressed \in BOOLEAN : CheckRewind(pressed)
      BY <3>1, <3>2 DEF Next
    <3>4. ~FirstCheck /\ ~ReachedEnd /\ ~NotRewinding
      BY DEF FirstCheck, ReachedEnd, NotRewinding, fileVars
    <3>5. QED
      BY <3>3, <3>4 DEF CheckRewind
  <2>2. /\ Kinds /\ phase = "rewind" /\ called /\ ~crossed /\ Buffer!Pop
        /\ FrameRewind(Last(stack)) /\ movie # "none"
    BY <2>1 DEF CheckRewind, Rewound, MovieIInv, Iteration
  <2>3. /\ ptr' = IF ptr >= Back THEN ptr - Back ELSE 0
        /\ start' = IF movie = "recording" /\ ptr' = 0 THEN Last(stack) ELSE start
    BY <2>2, BackInFile
  <2>4. /\ Len(stack) \in Nat \ {0} /\ Last(stack) = stack[Len(stack)]
    BY <2>2, PopIs
  <2>5. ptr \in Nat /\ Back \in {1, 2}
    BY <2>2 DEF Kinds, Slots, Back
  <2>6. PICK top \in Nat \ {0} : top = Len(stack) /\ top \in 1 .. Len(stack)
    BY <2>4
  <2>7. KeptIn(top) = ptr - Back - (top - top)
    BY <2>2, <2>6 DEF KeptIn, Behind
  <2>8. ~ (KeptIn(top) > 0) /\ start' = stack[top]
    BY <2>3, <2>4, <2>5, <2>6, <2>7
  <2>9. KeptIn(top) > 0 \/ Contains(before, stack[top])
    BY <2>2, <2>6 DEF MovieIInv, States
  <2>10. QED
    BY <2>8, <2>9
<1>2. QED
  BY <1>1, MovieInvariant, PTL DEF Spec, StartOnlyBack
=============================================================================
