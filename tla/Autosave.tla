------------------------------ MODULE Autosave ------------------------------
(***************************************************************************)
(* The autosave thread of src/autosave.c beside the main loop.  The core    *)
(* changes its save RAM while it runs a frame; the thread wakes at an       *)
(* interval, copies the RAM if it has changed, and writes the copy to the   *)
(* save file.  lock_autosave / unlock_autosave keep the two apart.          *)
(*                                                                         *)
(* Abstractions.  The save RAM is two words, enough for a half-written one; *)
(* each change by the core writes the next version into both.  There is     *)
(* one save file.  memcmp is one step, memcpy and every other writer two.   *)
(***************************************************************************)
EXTENDS Integers

CONSTANTS
    Versions,   \* bound: changes the core makes to its save RAM
    Sessions    \* how the program may have been started, see Session

(* reinits      bound: times autosave is set up anew while the game runs      *)
(* loads        bound: savestates loaded                                      *)
(* overwrite    block_sram_overwrite is set                                   *)
(* netplay      this is a netplay host, frames may be replayed                *)
(* sram         use_sram: the save RAM is kept (not with -M noload-nosave)    *)
(* interval     autosave_interval is not 0 when the game starts               *)
(* diskFull     the save file may fail to open                                *)
Session ==
    [reinits : Nat, loads : Nat, overwrite : BOOLEAN, netplay : BOOLEAN,
     sram : BOOLEAN, interval : BOOLEAN, diskFull : BOOLEAN]

ASSUME AutosaveAssumption ==
    /\ Versions \in Nat \ {0}
    /\ Sessions \subseteq Session

VARIABLES
    session,   \* how this one was started
    sram,      \* the save RAM of the core: <<word, word>>
    backup,    \* the copy load_state makes of it
    buffer,    \* save->buffer
    file,      \* the save file
    lock,      \* save->lock: who holds it
    condLock,  \* save->cond_lock
    quit,      \* save->quit
    main,      \* where the main thread is
    saver,     \* where the autosave thread is; "none": there is no autosave object
    reinits,   \* reinitialisations so far
    loads,     \* savestates loaded so far
    leaving    \* the running autosave_free is that of rarch_main_deinit

vars == <<session, sram, backup, buffer, file, lock, condLock, quit, main, saver, reinits,
          loads, leaving>>

\* What most steps leave alone.
fixed == <<session, reinits, loads, leaving>>

\* What a savestate holds as save RAM: no version of the game being played.
StateRam == -1
Truncated == <<-2, -2>>

Init ==
    /\ session \in Sessions
    /\ sram = <<0, 0>> /\ backup = <<0, 0>> /\ buffer = <<0, 0>> /\ file = <<0, 0>>
    /\ lock = "free" /\ condLock = "free"
    /\ quit = FALSE
    /\ main = "checks" /\ saver = IF session.sram /\ session.interval THEN "top" ELSE "none"
    /\ reinits = 0 /\ loads = 0 /\ leaving = FALSE

Goes(from, to) == main = from /\ main' = to
SaverGoes(from, to) == saver = from /\ saver' = to

-----------------------------------------------------------------------------
(* The main thread: one frame (rarch_main_iterate)                           *)

\* Locks an object that is not there.
TakeLockMutant == lock = "free" /\ lock' = "main"

\* lock_autosave: without an autosave object there is nothing to lock.
TakeLock == lock = "free" /\ lock' = IF saver = "none" THEN "free" ELSE "main"

LockAutosave ==
    /\ Goes("checks", "run1")
    /\ TakeLock
    /\ UNCHANGED <<fixed, sram, backup, buffer, file, condLock, quit, saver>>

\* pretro_run changes the save RAM, word by word, or leaves it alone.
CoreWrites ==
    /\ Goes("run1", "run2")
    /\ sram[1] < Versions
    /\ sram' = [sram EXCEPT ![1] = (IF @ < 0 THEN 0 ELSE @) + 1]
    /\ UNCHANGED <<fixed, backup, buffer, file, lock, condLock, quit, saver>>

CoreWritesMore ==
    /\ Goes("run2", "post")
    /\ sram' = [sram EXCEPT ![2] = sram[1]]
    /\ UNCHANGED <<fixed, backup, buffer, file, lock, condLock, quit, saver>>

CoreLeavesRam ==
    /\ Goes("run1", "post")
    /\ UNCHANGED <<fixed, sram, backup, buffer, file, lock, condLock, quit, saver>>

\* netplay_post_frame_net replays: it takes the autosave locks for each frame,
\* which the main loop already holds.
ReplayStarts ==
    /\ session.netplay
    /\ Goes("post", "replay")
    /\ UNCHANGED <<fixed, sram, backup, buffer, file, lock, condLock, quit, saver>>

ReplayLocks ==
    /\ Goes("replay", "replaying")
    /\ TakeLock
    /\ UNCHANGED <<fixed, sram, backup, buffer, file, condLock, quit, saver>>

\* The core runs the frame again and the lock is let go; one stands for all.
ReplayUnlocks ==
    /\ Goes("replaying", "end")
    /\ lock' = "free"
    /\ sram' \in {sram} \union {<<v, v>> : v \in {sram[1] + 1} \cap 1 .. Versions}
    /\ UNCHANGED <<fixed, backup, buffer, file, condLock, quit, saver>>

UnlockAutosave ==
    /\ Goes("post", "checks") \/ Goes("end", "checks")
    /\ lock' = "free"
    /\ UNCHANGED <<fixed, sram, backup, buffer, file, condLock, quit, saver>>

-----------------------------------------------------------------------------
(* The main thread: load_state, called from the state checks, without lock    *)

LoadState ==
    /\ Goes("checks", "unserialize1")
    /\ loads < session.loads /\ loads' = loads + 1
    /\ backup' = sram
    /\ UNCHANGED <<session, sram, buffer, file, lock, condLock, quit, saver, reinits, leaving>>

Unserialize(i) ==
    /\ \/ i = 1 /\ Goes("unserialize1", "unserialize2")
       \/ i = 2 /\ Goes("unserialize2", IF session.overwrite THEN "flush1" ELSE "checks")
    /\ sram' = [sram EXCEPT ![i] = StateRam]
    /\ UNCHANGED <<fixed, backup, buffer, file, lock, condLock, quit, saver>>

\* "Flush back": block_sram_overwrite restores the save RAM of the game.
FlushBack(i) ==
    /\ \/ i = 1 /\ Goes("flush1", "flush2")
       \/ i = 2 /\ Goes("flush2", "checks")
    /\ sram' = [sram EXCEPT ![i] = backup[i]]
    /\ UNCHANGED <<fixed, backup, buffer, file, lock, condLock, quit, saver>>

-----------------------------------------------------------------------------
(* The main thread: autosave_free and autosave_new                           *)

\* EVENT_CMD_AUTOSAVE_INIT from the menu, when autosave_interval is changed.
StartReinit ==
    /\ Goes("checks", "free")
    /\ reinits < session.reinits /\ reinits' = reinits + 1
    /\ UNCHANGED <<session, sram, backup, buffer, file, lock, condLock, quit, saver, loads, leaving>>

\* The files are saved beside the thread.
StartQuitMutant ==
    /\ Goes("checks", "savefiles")
    /\ leaving' = TRUE
    /\ UNCHANGED <<session, sram, backup, buffer, file, lock, condLock, quit, saver, reinits, loads>>

\* rarch_main_deinit frees autosave only where use_sram started it.
StartQuit ==
    /\ Goes("checks", IF session.sram THEN "free" ELSE "savefiles")
    /\ leaving' = TRUE
    /\ UNCHANGED <<session, sram, backup, buffer, file, lock, condLock, quit, saver, reinits, loads>>

NothingToFree ==
    /\ Goes("free", "freed")
    /\ saver = "none"
    /\ UNCHANGED <<fixed, sram, backup, buffer, file, lock, condLock, quit, saver>>

\* quit is set under cond_lock; the signal follows after the unlock.
SetQuit ==
    /\ Goes("free", "signal")
    /\ saver # "none"
    /\ condLock = "free"
    /\ quit' = TRUE
    /\ UNCHANGED <<fixed, sram, backup, buffer, file, lock, condLock, saver>>

\* scond_signal wakes the thread if it waits, and is lost if it does not.
Signal ==
    /\ Goes("signal", "join")
    /\ saver' = IF saver = "waiting" THEN "woken" ELSE saver
    /\ UNCHANGED <<fixed, sram, backup, buffer, file, lock, condLock, quit>>

Join ==
    /\ Goes("join", "freed")
    /\ saver = "exited" /\ saver' = "none"
    /\ UNCHANGED <<fixed, sram, backup, buffer, file, lock, condLock, quit>>

\* A new autosave object starts from a copy of the save RAM as it is now;
\* with an interval of 0 there is none.
NewAutosave ==
    /\ Goes("freed", "checks")
    /\ ~leaving
    /\ \/ buffer' = sram /\ quit' = FALSE /\ saver' = "top"
       \/ UNCHANGED <<buffer, quit, saver>>
    /\ UNCHANGED <<fixed, sram, backup, file, lock, condLock>>

Freed ==
    /\ Goes("freed", "savefiles")
    /\ leaving
    /\ UNCHANGED <<fixed, sram, backup, buffer, file, lock, condLock, quit, saver>>

\* event_save_files and save_ram_file
SaveFiles ==
    /\ Goes("savefiles", IF session.sram THEN "saving" ELSE "done")
    /\ file' = IF session.sram THEN Truncated ELSE file
    /\ UNCHANGED <<fixed, sram, backup, buffer, lock, condLock, quit, saver>>

SaveFilesWrite ==
    /\ Goes("saving", "done")
    /\ file' = sram
    /\ UNCHANGED <<fixed, sram, backup, buffer, lock, condLock, quit, saver>>

MainStep ==
    \/ LockAutosave \/ CoreWrites \/ CoreWritesMore \/ CoreLeavesRam
    \/ ReplayStarts \/ ReplayLocks \/ ReplayUnlocks \/ UnlockAutosave
    \/ LoadState \/ (\E i \in {1, 2} : Unserialize(i) \/ FlushBack(i))
    \/ StartReinit \/ StartQuit \/ NothingToFree \/ SetQuit \/ Signal \/ Join
    \/ NewAutosave \/ Freed \/ SaveFiles \/ SaveFilesWrite

-----------------------------------------------------------------------------
(* autosave_thread                                                           *)

TestQuit ==
    /\ SaverGoes("top", IF quit THEN "exited" ELSE "lock")
    /\ UNCHANGED <<fixed, sram, backup, buffer, file, lock, condLock, quit, main>>

SaverLocks ==
    /\ SaverGoes("lock", "compare")
    /\ lock = "free" /\ lock' = "saver"
    /\ UNCHANGED <<fixed, sram, backup, buffer, file, condLock, quit, main>>

Compare ==
    /\ SaverGoes("compare", IF buffer = sram THEN "condlock" ELSE "copy1")
    /\ lock' = IF buffer = sram THEN "free" ELSE lock
    /\ UNCHANGED <<fixed, sram, backup, buffer, file, condLock, quit, main>>

Copy(i) ==
    /\ \/ i = 1 /\ SaverGoes("copy1", "copy2") /\ UNCHANGED lock
       \/ i = 2 /\ SaverGoes("copy2", "open") /\ lock' = "free"
    /\ buffer' = [buffer EXCEPT ![i] = sram[i]]
    /\ UNCHANGED <<fixed, sram, backup, file, condLock, quit, main>>

\* fopen with "wb" empties the file; if it fails nothing is written, and the
\* copy counts as saved all the same.
Open ==
    /\ saver = "open"
    /\ \/ saver' = "write" /\ file' = Truncated
       \/ session.diskFull /\ saver' = "condlock" /\ UNCHANGED file
    /\ UNCHANGED <<fixed, sram, backup, buffer, lock, condLock, quit, main>>

\* The RAM is written straight from the core instead of from the copy.
WriteUncopied ==
    /\ SaverGoes("write", "condlock")
    /\ file' = sram
    /\ UNCHANGED <<fixed, sram, backup, buffer, lock, condLock, quit, main>>

\* Only the second half of the RAM is written out.
WriteMutant ==
    /\ SaverGoes("write", "condlock")
    /\ file' = <<file[1], buffer[2]>>
    /\ UNCHANGED <<fixed, sram, backup, buffer, lock, condLock, quit, main>>

Write ==
    /\ SaverGoes("write", "condlock")
    /\ file' = buffer
    /\ UNCHANGED <<fixed, sram, backup, buffer, lock, condLock, quit, main>>

LockCond ==
    /\ SaverGoes("condlock", "check")
    /\ condLock = "free" /\ condLock' = "saver"
    /\ UNCHANGED <<fixed, sram, backup, buffer, file, lock, quit, main>>

\* Waits without looking at quit again.
WaitMutant ==
    /\ SaverGoes("check", "waiting")
    /\ condLock' = "free"
    /\ UNCHANGED <<fixed, sram, backup, buffer, file, lock, quit, main>>

\* quit is looked at again under cond_lock; scond_wait_timeout gives it up.
Wait ==
    /\ SaverGoes("check", IF quit THEN "top" ELSE "waiting")
    /\ condLock' = "free"
    /\ UNCHANGED <<fixed, sram, backup, buffer, file, lock, quit, main>>

Timeout ==
    /\ SaverGoes("waiting", "woken")
    /\ UNCHANGED <<fixed, sram, backup, buffer, file, lock, condLock, quit, main>>

\* The wait ends with cond_lock held, which is let go at once.
Wake ==
    /\ SaverGoes("woken", "top")
    /\ condLock = "free"
    /\ UNCHANGED <<fixed, sram, backup, buffer, file, lock, condLock, quit, main>>

SaverStep ==
    \/ TestQuit \/ SaverLocks \/ Compare \/ (\E i \in {1, 2} : Copy(i)) \/ Open \/ Write
    \/ LockCond \/ Wait \/ Wake

\* The program has ended.
Ended == main = "done" /\ UNCHANGED vars

Next == MainStep \/ SaverStep \/ Timeout \/ Ended

Spec == Init /\ [][Next]_vars

(* Both threads are scheduled; the mutexes between them are taken to be fair:  *)
(* the autosave thread gets save->lock, which is free between two frames, and  *)
(* the main thread save->cond_lock, which the thread holds for an instant.     *)
FairSpec ==
    /\ Spec
    /\ WF_vars(MainStep)
    /\ WF_vars(SaverStep)
    /\ SF_vars(SaverLocks)
    /\ SF_vars(SetQuit)

-----------------------------------------------------------------------------
Ram == {<<a, b>> : a, b \in {StateRam} \union 0 .. Versions}

InFrame == {"run1", "run2", "post", "replay", "replaying", "end"}

\* The types, and who holds which mutex where.
TypeOK ==
    /\ {sram, backup, buffer} \subseteq Ram
    /\ file \in Ram \union {Truncated}
    /\ lock = IF saver \in {"compare", "copy1", "copy2"} THEN "saver"
              ELSE IF main \in InFrame /\ saver # "none" THEN "main" ELSE "free"
    /\ condLock = IF saver = "check" THEN "saver" ELSE "free"
    /\ {quit, leaving} \subseteq BOOLEAN
    /\ reinits \in 0 .. session.reinits /\ loads \in 0 .. session.loads

Writing == saver = "write" \/ main = "saving"

(* Whatever the core is doing, a finished save file holds the save RAM as it   *)
(* was between two frames, never half of one change and half of another:       *)
(* autosave_thread copies under the lock the main loop holds while a frame     *)
(* runs, and writes the copy.                                                  *)
FileIsWhole == Writing \/ file[1] = file[2]

\* The save RAM the disk holds; of a file being written anew, the one it will hold.
Kept == IF file # Truncated THEN file[1] ELSE IF saver = "write" THEN buffer[1] ELSE sram[1]

(* The file never goes back to an older save RAM, across the thread, a new     *)
(* autosave object and the final write of rarch_main_deinit: none is ever       *)
(* replaced, or emptied to be replaced, by one from before it.                  *)
SavesGoForward == [][Kept <= Kept']_vars

(* The write that ends the program comes after anything the thread may still   *)
(* have had to write (autosave_free joins before event_save_files).  A session  *)
(* whose "SRAM will not be saved." leaves the file as it found it.              *)
LastSaveWins == main = "done" => file = IF session.sram THEN sram ELSE <<0, 0>>

(* autosave_free returns, even when the interval is so long that the wait      *)
(* never times out: the signal cannot be missed.                               *)
FreeReturns == main = "free" ~> main = "freed"

(* "Saves non-volatile SRAM at a regular interval": once the save RAM stops     *)
(* changing and as long as intervals pass, the file gets to hold it, if the     *)
(* disk takes it and autosave is not set up anew (a new object takes the RAM it *)
(* finds for saved, and RAM that changed just before is never written).         *)
FileCatchesUp ==
    \A v \in 0 .. Versions :
        /\ ~session.diskFull
        /\ <>[](sram = <<v, v>> /\ saver # "none" /\ reinits = 0)
        /\ []<>(saver = "woken")
        => <>[](file = <<v, v>>)

(* "Don't overwrite SaveRAM on loading savestate": the RAM of a savestate       *)
(* never reaches the save file when block_sram_overwrite is set.  With a thread  *)
(* running beside it this fails, load_state takes no lock.                      *)
StateRamStaysOut == StateRam \notin {file[1], file[2]}

(* "We check if we have new input and replay from recorded input"               *)
(* (netplay_post_frame): a replay that is started runs and the frame ends.  With *)
(* autosave it does not: the mutex it takes is held by the frame it is part of.  *)
ReplayEnds == main = "replay" ~> main = "checks"

(* What the save file holds, in one: a save RAM that was whole, not that of a    *)
(* savestate, and in the end the last one.                                      *)
SaveInv == TypeOK /\ FileIsWhole /\ StateRamStaysOut /\ LastSaveWins
=============================================================================
