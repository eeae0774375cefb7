------------------------------- MODULE Movie -------------------------------
(***************************************************************************)
(* Movies (src/movie.c) and rewinding (check_rewind of src/runloop.c): a       *)
(* movie is the state it starts from and the input of each frame after it,     *)
(* and going back in the game has to go back in the file as far.               *)
(*                                                                         *)
(* Abstractions.  The core is deterministic: its state is the inputs it has    *)
(* run on.  It asks for one input a frame, so positions in the file are        *)
(* counted in frames from min_file_pos.  The rewind buffer is what Rewind       *)
(* implements, RewindStack.  Frames in the menu do neither and are left out.   *)
(***************************************************************************)
EXTENDS Integers, Sequences, SequencesExt

CONSTANTS
    Inputs,        \* what the user may press in a frame
    Tapes,         \* the movies there are to be played
    Granularities, \* rewind_granularity
    Ring,          \* how many positions frame_pos has, 1 << 20
    FrameLimit,    \* bound: frames the game gets to, and states kept then
    ResetLimit,    \* bound: how often the core is reset, in its first frame
    Resets,        \* whether the core may be reset during a movie
    Toggles        \* whether rewinding may be switched off and on during one

ASSUME MovieAssumption ==
    /\ Tapes \subseteq Seq(Inputs)
    /\ Granularities \subseteq Nat \ {0}
    /\ Ring \in Nat /\ Ring > 1 /\ FrameLimit \in Nat /\ ResetLimit \in Nat
    /\ Resets \in BOOLEAN /\ Toggles \in BOOLEAN

VARIABLES
    game,        \* the core's state
    stack,       \* the states that can be rewound to
    given,       \* the states handed back since the last push
    granularity, \* settings->rewind_granularity
    count,       \* cnt of check_rewind
    called,      \* whether check_rewind has been called before
    phase,       \* where the iteration of the main loop is
    movie,       \* "none", "recording" or "playback"
    start, tape, \* the file: the state it starts from and the inputs
    pos,         \* where the next input is read or written
    framePos, ptr,         \* frame_pos and frame_ptr
    firstRewind, didRewind,
    ended,       \* movie_end
    resets,      \* how often the core was reset
    before,      \* history: the states kept before the recording
    resumed,     \* history: below this the stack has a gap
    crossed      \* history: the game went back beyond the gap

fileVars == <<start, tape, pos>>
frameVars == <<framePos, ptr, firstRewind, didRewind>>
rewindVars == <<stack, given, count, called, resumed>>
vars == <<game, rewindVars, granularity, phase, movie, fileVars, frameVars, ended, resets,
          before, crossed>>

Buffer == INSTANCE RewindStack WITH States <- {}

Slots == 0 .. Ring - 1
Unset == -1  \* the start of the file lies before the first input
NewFramePos == [i \in Slots |-> IF i = 0 THEN 0 ELSE Unset]

\* init_rewind keeps the first state; event_init_movie starts a playback.
Init ==
    /\ game = <<>> /\ stack = <<<<>>>> /\ given = <<>>
    /\ granularity \in Granularities /\ count = 0 /\ called = FALSE
    /\ phase = "rewind"
    /\ \/ movie = "none" /\ tape = <<>>
       \/ movie = "playback" /\ tape \in Tapes
    /\ (movie = "playback" => granularity = 1)
    /\ start = <<>> /\ pos = 0
    /\ framePos = NewFramePos /\ ptr = 0
    /\ firstRewind = FALSE /\ didRewind = FALSE
    /\ ended = FALSE /\ resets = 0
    /\ before = <<>> /\ resumed = 0 /\ crossed = FALSE

-----------------------------------------------------------------------------
(* check_rewind                                                              *)

\* Back by two frames each time.
BackMutant == 2

\* "First time rewind is performed, the old frame is simply replayed."
Back == IF firstRewind THEN 1 ELSE 2

AtBeginning == ptr <= 1 /\ framePos[0] = 0

\* "If recording, we simply reset the starting point."
ResetStart(state) ==
    /\ start' = IF movie = "recording" THEN state ELSE start
    /\ UNCHANGED tape

\* bsv_movie_frame_rewind, after the core has gone back to state.
FrameRewind(state) ==
    /\ didRewind' = TRUE
    /\ ptr' = IF AtBeginning THEN 0 ELSE (ptr - Back) % Ring
    /\ IF AtBeginning \/ framePos[ptr'] <= 0
       THEN pos' = 0 /\ ResetStart(state)
       ELSE pos' = framePos[ptr'] /\ UNCHANGED <<start, tape>>
    /\ UNCHANGED <<framePos, firstRewind>>

\* The static first of check_rewind: init_rewind has kept this state.
FirstCheck ==
    /\ ~called /\ called' = TRUE
    /\ UNCHANGED <<game, stack, given, count, fileVars, frameVars, resumed, crossed>>

Rewound ==
    /\ called /\ stack # <<>>
    /\ Buffer!Pop
    /\ game' = Last(stack)
    /\ IF movie = "none" THEN UNCHANGED <<fileVars, frameVars>> ELSE FrameRewind(game')
    /\ crossed' = (movie # "none" /\ Len(stack) <= resumed)
    /\ UNCHANGED <<count, called, resumed>>

ReachedEnd ==
    /\ called /\ stack = <<>>
    /\ UNCHANGED <<game, rewindVars, fileVars, frameVars, crossed>>

KeepState == count' = 0 \/ movie # "none"

NotRewinding ==
    /\ called
    /\ count' = (count + 1) % granularity
    /\ IF KeepState
       THEN /\ Buffer!Push(game)
            /\ LET depth == IF given = <<>> THEN resumed ELSE Len(stack)
                   forgotten == Len(stack) + 1 - Len(stack')
               IN resumed' = IF depth > forgotten THEN depth - forgotten ELSE 0
       ELSE UNCHANGED <<stack, given, resumed>>
    /\ UNCHANGED <<game, called, fileVars, frameVars, crossed>>

CheckRewind(pressed) ==
    /\ phase = "rewind" /\ phase' = "movie"
    /\ \/ FirstCheck
       \/ pressed /\ (Rewound \/ ReachedEnd)
       \/ ~pressed /\ NotRewinding
    /\ UNCHANGED <<granularity, resets, movie, ended, before>>

-----------------------------------------------------------------------------
(* check_movie                                                               *)

CheckNothing ==
    /\ phase = "movie" /\ phase' = "frame"
    /\ UNCHANGED <<game, rewindVars, granularity, resets, movie, fileVars, frameVars, ended, before,
                   crossed>>

\* check_movie_init, bsv_movie_init: a new file, and nothing in frame_pos
StartRecording ==
    /\ phase = "movie" /\ movie = "none"
    /\ phase' = "frame" /\ movie' = "recording"
    /\ granularity' = 1
    /\ start' = game
    /\ before' = stack /\ resumed' = 0 /\ crossed' = FALSE
    /\ UNCHANGED <<tape, pos, frameVars>>
    /\ UNCHANGED <<game, stack, given, count, called, ended, resets>>

\* check_movie_record, or check_movie_playback once the tape has run out;
\* bsv_movie_free
StopMovie ==
    /\ phase = "movie" /\ phase' = "frame"
    /\ movie = "recording" \/ (movie = "playback" /\ ended)
    /\ movie' = "none" /\ ended' = FALSE
    /\ start' = <<>> /\ tape' = <<>> /\ pos' = 0 /\ before' = <<>>
    /\ framePos' = NewFramePos /\ ptr' = 0
    /\ firstRewind' = FALSE /\ didRewind' = FALSE
    /\ UNCHANGED <<game, rewindVars, granularity, resets, crossed>>

\* EVENT_CMD_RESET, which comes after check_movie
Reset ==
    /\ movie = "none" \/ Resets
    /\ phase = "frame" /\ Len(game) = 1 /\ game' = <<>>
    /\ resets < ResetLimit /\ resets' = resets + 1
    /\ UNCHANGED <<rewindVars, granularity, phase, movie, fileVars, frameVars, ended, before,
                   crossed>>

\* EVENT_CMD_REWIND_TOGGLE, twice: a new buffer, with the state as it is
ToggleRewind ==
    /\ movie = "none" \/ Toggles
    /\ phase = "rewind"
    /\ stack' = <<game>> /\ given' = <<>> /\ resumed' = 0
    /\ UNCHANGED <<game, count, called, granularity, resets, phase, movie, fileVars, frameVars, ended,
                   before, crossed>>

-----------------------------------------------------------------------------
(* The frame: bsv_movie_set_frame_start, pretro_run, bsv_movie_set_frame_end.   *)

AtEnd == pos >= Len(tape)

FrameStart == framePos' = [framePos EXCEPT ![ptr] = pos]

\* That the frame was one gone back to is forgotten.
FrameEndMutant ==
    /\ ptr' = (ptr + 1) % Ring
    /\ firstRewind' = TRUE /\ didRewind' = FALSE

FrameEnd ==
    /\ ptr' = (ptr + 1) % Ring
    /\ firstRewind' = ~didRewind /\ didRewind' = FALSE

\* input_state: the movie's input, or the user's where it has none left.
RunPlayback(input) ==
    /\ movie = "playback"
    /\ game' = Append(game, IF AtEnd THEN input ELSE tape[pos + 1])
    /\ pos' = IF AtEnd THEN pos ELSE pos + 1
    /\ ended' = (ended \/ AtEnd)
    /\ UNCHANGED <<start, tape>>

\* What lies behind it in the file stays there.
RunRecording(input) ==
    /\ movie = "recording"
    /\ game' = Append(game, input)
    /\ tape' = [i \in 1 .. (IF AtEnd THEN pos + 1 ELSE Len(tape)) |->
                 IF i = pos + 1 THEN input ELSE tape[i]]
    /\ pos' = pos + 1
    /\ UNCHANGED <<start, ended>>

RunFree(input) ==
    /\ movie = "none"
    /\ game' = Append(game, input)
    /\ UNCHANGED <<fileVars, frameVars, ended>>

\* A movie that is out of step is followed no further.
RunFrame(input) ==
    /\ phase = "frame" /\ phase' = "rewind"
    /\ Len(game) < FrameLimit /\ Len(stack) <= FrameLimit /\ ~crossed
    /\ \/ (RunPlayback(input) \/ RunRecording(input)) /\ FrameStart /\ FrameEnd
       \/ RunFree(input)
    /\ UNCHANGED <<rewindVars, granularity, resets, movie, before, crossed>>

Next ==
    \/ \E pressed \in BOOLEAN : CheckRewind(pressed)
    \/ CheckNothing \/ StartRecording \/ StopMovie
    \/ Reset \/ ToggleRewind
    \/ \E input \in Inputs : RunFrame(input)

Spec == Init /\ [][Next]_vars

-----------------------------------------------------------------------------
\* The game the file makes up to where it is read or written.
Filmed == start \o SubSeq(tape, 1, pos)

TypeOK ==
    /\ game \in Seq(Inputs) /\ start \in Seq(Inputs) /\ tape \in Seq(Inputs)
    /\ pos \in 0 .. Len(tape) /\ ptr \in Slots
    /\ \A i \in Slots : framePos[i] \in Unset .. Len(tape)
    /\ movie # "none" => granularity = 1

(* Between frames the file is where the game is, in recording and in playback,  *)
(* through any rewinding and also back beyond the start of a recording: what    *)
(* is on tape up to here leads to the present state.  This is so while the       *)
(* game does not go back beyond a place where it was resumed before.           *)
InStep ==
    phase = "rewind" /\ ~crossed =>
      /\ movie = "recording" => Filmed = game
      /\ movie = "playback" => IF AtEnd THEN IsPrefix(Filmed, game) ELSE Filmed = game

(* Rewinding moves the start of a recording only to states that were kept       *)
(* before it began: no frame that is on tape is cut off its beginning.         *)
StartOnlyBack ==
    [][movie = "recording" /\ movie' = "recording" /\ start' # start
         => Contains(before, start')]_vars

(* A movie that was recorded plays the game that was played, to its end.        *)
EndsWithTheGame ==
    [][movie = "recording" /\ movie' = "none" /\ ~crossed => start \o tape = game]_vars

(* The file and the frame positions are what they may be, and the file is where   *)
(* the game is.                                                                *)
MovieInv == TypeOK /\ InStep
=============================================================================
