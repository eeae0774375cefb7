-------------------------- MODULE Autosave_proofs --------------------------
(***************************************************************************)
(* Proofs about the autosave thread beside the main loop, for every number   *)
(* of changes the core makes, of new autosave objects and of savestates: the *)
(* save file is whole, holds the game's own RAM, never goes back, and ends    *)
(* with the last one.                                                       *)
(***************************************************************************)
EXTENDS Autosave, TLAPS

(* The sessions the promises are made for.  A savestate is only loaded where  *)
(* nothing is autosaved, and its RAM is then kept out or is not saved at all;  *)
(* without save RAM to keep, the menu does not start the thread.  In each of   *)
(* the sessions left out some promise is broken: see StateRamStaysOut.         *)
Promised(s) ==
    /\ s.loads > 0 => /\ s.reinits = 0
                      /\ ~(s.sram /\ s.interval)
                      /\ s.overwrite \/ ~s.sram
    /\ ~s.sram => s.reinits = 0

-----------------------------------------------------------------------------
(* Where the threads can be together.                                        *)

Freeing == {"free", "signal", "join", "freed"}
Leaving == {"savefiles", "saving", "done"}
Loading == {"unserialize1", "unserialize2", "flush1", "flush2"}
Copying == {"compare", "copy1", "copy2"}

Places ==
    /\ session \in Sessions
    /\ saver # "none" => session.sram /\ session.loads = 0
    /\ main \in Freeing => session.sram /\ (leaving \/ session.reinits > 0)
    /\ main \in Leaving => saver = "none"
    /\ main = "saving" => session.sram
    /\ main = "freed" => saver = "none"
    /\ main \in {"replaying", "end"} => saver = "none"
    /\ main \in Loading => session.loads > 0
    /\ saver \in Copying => main \notin InFrame

\* The halves of the save RAM agree but within a frame or a load, those of the
\* copy but while it is made.
Whole ==
    /\ main \notin {"run2", "unserialize2", "flush2"} => sram[1] = sram[2]
    /\ main \in Loading => backup[1] = backup[2]
    /\ main = "unserialize2" => sram[1] = StateRam
    /\ main = "flush2" => sram[1] = backup[1]
    /\ saver # "copy2" => buffer[1] = buffer[2]
    /\ saver = "copy2" => buffer[1] = sram[1]
    /\ FileIsWhole

\* Where the RAM of a savestate may be: never in the file, and not in what will
\* be written to it.
OwnRam ==
    /\ {buffer[1], buffer[2]} \subseteq 0 .. Versions
    /\ StateRamStaysOut
    /\ session.overwrite /\ main \in Loading => {backup[1], backup[2]} \subseteq 0 .. Versions
    /\ session.overwrite \/ session.loads = 0 =>
         main \in {"unserialize2", "flush1", "flush2"} \/ {sram[1], sram[2]} \subseteq 0 .. Versions

\* The file is no newer than the copy, the copy no newer than the RAM.
Order ==
    /\ file = Truncated => Writing
    /\ main = "saving" => file = Truncated
    /\ saver # "none" => file[1] <= buffer[1] /\ buffer[1] <= sram[1]
    /\ session.loads = 0 => file[1] <= sram[1]
    /\ session.loads > 0 /\ main \notin {"saving", "done"} => file = <<0, 0>>
    /\ ~session.sram => file = <<0, 0>>

AutosaveInv == TypeOK /\ Places /\ Whole /\ OwnRam /\ Order /\ LastSaveWins

PromisedSessions == \A s \in Sessions : Promised(s)

-----------------------------------------------------------------------------
(* The save RAM as two words.                                                *)

Word == {StateRam} \union 0 .. Versions

\* What a pair of words is made of.
LEMMA TwoWords ==
    ASSUME NEW x \in Ram
    PROVE  x = <<x[1], x[2]>> /\ x[1] \in Word /\ x[2] \in Word
  BY DEF Ram, Word

\* A pair of words from a set is a value of the RAM.
LEMMA IsRam ==
    ASSUME NEW a \in Word, NEW b \in Word
    PROVE  <<a, b>> \in Ram
  BY DEF Ram, Word

\* One word of the RAM replaced.
LEMMA OneWord ==
    ASSUME NEW x \in Ram, NEW i \in {1, 2}, NEW w \in Word
    PROVE  /\ [x EXCEPT ![i] = w] \in Ram
           /\ [x EXCEPT ![i] = w] = IF i = 1 THEN <<w, x[2]>> ELSE <<x[1], w>>
<1>1. PICK a \in Word, b \in Word : x = <<a, b>>
  BY DEF Ram, Word
<1>2. CASE i = 1
  <2>1. [x EXCEPT ![i] = w] = <<w, b>>
    BY <1>1, <1>2
  <2>2. QED
    BY <1>1, <1>2, <2>1, IsRam
<1>3. CASE i = 2
  <2>1. [x EXCEPT ![i] = w] = <<a, w>>
    BY <1>1, <1>3
  <2>2. QED
    BY <1>1, <1>3, <2>1, IsRam
<1>4. QED
  BY <1>2, <1>3

\* The save RAM after each half of a load and of its "flush back".
LEMMA LoadedRam ==
    ASSUME TypeOK, NEW i \in {1, 2}, Unserialize(i)
    PROVE  /\ sram' \in Ram
           /\ sram' = IF i = 1 THEN <<StateRam, sram[2]>> ELSE <<sram[1], StateRam>>
<1>1. sram \in Ram /\ StateRam \in Word
  BY DEF TypeOK, Word
<1>2. sram' = [sram EXCEPT ![i] = StateRam]
  BY DEF Unserialize
<1>3. QED
  BY <1>1, <1>2, OneWord

\* "Flush back" writes the words of the backup, one after the other.
LEMMA FlushedRam ==
    ASSUME TypeOK, NEW i \in {1, 2}, FlushBack(i)
    PROVE  /\ sram' \in Ram
           /\ sram' = IF i = 1 THEN <<backup[1], sram[2]>> ELSE <<sram[1], backup[2]>>
<1>1. sram \in Ram /\ backup[i] \in Word
  BY TwoWords DEF TypeOK
<1>2. sram' = [sram EXCEPT ![i] = backup[i]]
  BY DEF FlushBack
<1>3. [sram EXCEPT ![i] = backup[i]]
        = IF i = 1 THEN <<backup[i], sram[2]>> ELSE <<sram[1], backup[i]>>
  BY <1>1, OneWord
<1>4. [sram EXCEPT ![i] = backup[i]] \in Ram
  BY <1>1, OneWord
<1>5. QED
  BY <1>2, <1>3, <1>4

\* The fields of a session that keeps the promise.
LEMMA SessionType ==
    ASSUME session \in Sessions, PromisedSessions
    PROVE  /\ session.reinits \in Nat /\ session.loads \in Nat
           /\ Promised(session)
  BY AutosaveAssumption DEF PromisedSessions, Session

\* No step leaves the threads where they cannot be together.
LEMMA PlacesStep ==
    ASSUME TypeOK, Places, PromisedSessions, [Next]_vars
    PROVE  Places'
<1> USE SessionType DEF TypeOK, Places, Promised, InFrame, Freeing,
     Leaving, Loading, Copying
<1>1. CASE LockAutosave
  BY <1>1 DEF LockAutosave, Goes, TakeLock, fixed
<1>2. CASE CoreWrites
  BY <1>2 DEF CoreWrites, Goes, fixed
<1>3. CASE CoreWritesMore
  BY <1>3 DEF CoreWritesMore, Goes, fixed
<1>4. CASE CoreLeavesRam
  BY <1>4 DEF CoreLeavesRam, Goes, fixed
<1>5. CASE ReplayStarts
  BY <1>5 DEF ReplayStarts, Goes, fixed
<1>6. CASE ReplayLocks
  BY <1>6 DEF ReplayLocks, Goes, TakeLock, fixed
<1>7. CASE ReplayUnlocks
  BY <1>7 DEF ReplayUnlocks, Goes, fixed
<1>8. CASE UnlockAutosave
  BY <1>8 DEF UnlockAutosave, Goes, fixed
<1>9. CASE LoadState
  BY <1>9 DEF LoadState, Goes, fixed
<1>10. ASSUME NEW i \in {1, 2}, Unserialize(i) PROVE Places'
  BY <1>10 DEF Unserialize, Goes, fixed
<1>11. ASSUME NEW i \in {1, 2}, FlushBack(i) PROVE Places'
  BY <1>11 DEF FlushBack, Goes, fixed
<1>12. CASE StartReinit
  BY <1>12 DEF StartReinit, Goes, fixed
<1>13. CASE StartQuit
  BY <1>13 DEF StartQuit, Goes, fixed
<1>14. CASE NothingToFree
  BY <1>14 DEF NothingToFree, Goes, fixed
<1>15. CASE SetQuit
  BY <1>15 DEF SetQuit, Goes, fixed
<1>16. CASE Signal
  BY <1>16 DEF Signal, Goes, fixed
<1>17. CASE Join
  BY <1>17 DEF Join, Goes, fixed
<1>18. CASE NewAutosave
  BY <1>18 DEF NewAutosave, Goes, fixed
<1>19. CASE Freed
  BY <1>19 DEF Freed, Goes, fixed
<1>20. CASE SaveFiles
  BY <1>20 DEF SaveFiles, Goes, fixed
<1>21. CASE SaveFilesWrite
  BY <1>21 DEF SaveFilesWrite, Goes, fixed
<1>22. CASE TestQuit
  BY <1>22 DEF TestQuit, SaverGoes, fixed
<1>23. CASE SaverLocks
  BY <1>23 DEF SaverLocks, SaverGoes, fixed
<1>24. CASE Compare
  BY <1>24 DEF Compare, SaverGoes, fixed
<1>25. ASSUME NEW i \in {1, 2}, Copy(i) PROVE Places'
  BY <1>25 DEF Copy, SaverGoes, fixed
<1>26. CASE Open
  BY <1>26 DEF Open, fixed
<1>27. CASE Write
  BY <1>27 DEF Write, SaverGoes, fixed
<1>28. CASE LockCond
  BY <1>28 DEF LockCond, SaverGoes, fixed
<1>29. CASE Wait
  BY <1>29 DEF Wait, SaverGoes, fixed
<1>30. CASE Timeout
  BY <1>30 DEF Timeout, SaverGoes, fixed
<1>31. CASE Wake
  BY <1>31 DEF Wake, SaverGoes, fixed
<1>32. CASE UNCHANGED vars
  BY <1>32 DEF vars
<1>33. QED
  BY <1>1, <1>2, <1>3, <1>4, <1>5, <1>6, <1>7, <1>8, <1>9, <1>10, <1>11,
     <1>12, <1>13, <1>14, <1>15, <1>16, <1>17, <1>18, <1>19, <1>20, <1>21,
     <1>22, <1>23, <1>24, <1>25, <1>26, <1>27, <1>28, <1>29, <1>30, <1>31,
     <1>32
     DEF Next, MainStep, SaverStep, Ended

(* The main thread's steps and the autosave thread's that leave the data alone. *)

MainQuiet ==
    \/ LockAutosave \/ CoreLeavesRam \/ ReplayStarts \/ ReplayLocks \/ UnlockAutosave
    \/ StartReinit \/ StartQuit \/ NothingToFree \/ SetQuit \/ Signal \/ Join \/ Freed

SaverQuiet ==
    \/ TestQuit \/ SaverLocks \/ Compare \/ LockCond \/ Wait \/ Timeout \/ Wake

\* Each variable keeps its type, given where the threads are.
LEMMA TypeStep ==
    ASSUME TypeOK, Places, PromisedSessions, [Next]_vars
    PROVE  TypeOK'
<1> USE SessionType, TwoWords, IsRam, OneWord, AutosaveAssumption DEF
     TypeOK, Places, Promised, InFrame, Freeing, Leaving, Loading, Copying,
     Word, StateRam
<1>1. CASE MainQuiet
  <2>1. CASE LockAutosave \/ ReplayLocks \/ UnlockAutosave
    BY <2>1 DEF LockAutosave, ReplayLocks, UnlockAutosave, Goes,
       TakeLock, fixed
  <2>2. CASE CoreLeavesRam \/ ReplayStarts \/ NothingToFree \/ Freed
    BY <2>2 DEF CoreLeavesRam, ReplayStarts, NothingToFree, Freed, Goes,
       fixed
  <2>3. CASE StartReinit
    BY <2>3 DEF StartReinit, Goes
  <2>4. CASE StartQuit
    BY <2>4 DEF StartQuit, Goes
  <2>5. CASE SetQuit \/ Signal \/ Join
    BY <2>5 DEF SetQuit, Signal, Join, Goes, fixed
  <2>6. QED
    BY <1>1, <2>1, <2>2, <2>3, <2>4, <2>5 DEF MainQuiet
<1>2. CASE SaverQuiet
  BY <1>2 DEF SaverQuiet, TestQuit, SaverLocks, Compare, LockCond, Wait,
     Timeout, Wake, SaverGoes, fixed
<1>3. CASE CoreWrites
  <2>1. (IF sram[1] < 0 THEN 0 ELSE sram[1]) + 1 \in Word
    BY <1>3 DEF CoreWrites, Word
  <2>2. sram' \in Ram
    BY <1>3, <2>1, OneWord DEF CoreWrites
  <2>3. QED
    BY <1>3, <2>2 DEF CoreWrites, Goes, fixed
<1>4. CASE CoreWritesMore
  <2>1. sram' \in Ram
    BY <1>4, OneWord, TwoWords DEF CoreWritesMore
  <2>2. QED
    BY <1>4, <2>1 DEF CoreWritesMore, Goes, fixed
<1>5. CASE ReplayUnlocks
  BY <1>5 DEF ReplayUnlocks, Goes, fixed
<1>6. CASE LoadState
  BY <1>6 DEF LoadState, Goes, fixed
<1>7. ASSUME NEW i \in {1, 2}, Unserialize(i) PROVE TypeOK'
  BY <1>7, LoadedRam DEF Unserialize, Goes, fixed
<1>8. ASSUME NEW i \in {1, 2}, FlushBack(i) PROVE TypeOK'
  BY <1>8, FlushedRam DEF FlushBack, Goes, fixed
<1>9. CASE NewAutosave
  <2>1. {sram', backup', buffer'} \subseteq Ram /\ quit' \in BOOLEAN
    <3>1. sram' = sram /\ backup' = backup /\ buffer' \in {buffer, sram} /\ quit' \in {quit, FALSE}
      BY <1>9 DEF NewAutosave
    <3>2. {sram, backup, buffer} \subseteq Ram /\ quit \in BOOLEAN
      OBVIOUS
    <3> HIDE DEF TypeOK
    <3>3. QED
      BY <3>1, <3>2
  <2>2. QED
    BY <1>9, <2>1 DEF NewAutosave, Goes, fixed
<1>10. CASE SaveFiles
  BY <1>10 DEF SaveFiles, Goes, fixed
<1>11. CASE SaveFilesWrite
  BY <1>11 DEF SaveFilesWrite, Goes, fixed
<1>12. ASSUME NEW i \in {1, 2}, Copy(i) PROVE TypeOK'
  <2>1. buffer' \in Ram
    BY <1>12, OneWord, TwoWords DEF Copy
  <2>2. QED
    BY <1>12, <2>1 DEF Copy, SaverGoes, fixed
<1>13. CASE Open
  BY <1>13 DEF Open, fixed
<1>14. CASE Write
  BY <1>14 DEF Write, SaverGoes, fixed
<1>15. CASE UNCHANGED vars
  BY <1>15 DEF vars
<1>16. QED
  BY <1>1, <1>2, <1>3, <1>4, <1>5, <1>6, <1>7, <1>8, <1>9, <1>10, <1>11,
     <1>12, <1>13, <1>14, <1>15
     DEF Next, MainStep, SaverStep, Ended, MainQuiet, SaverQuiet

\* The file stays whole, but while it is being written.
LEMMA WholeStep ==
    ASSUME TypeOK, Places, Whole, PromisedSessions, [Next]_vars
    PROVE  Whole'
<1> USE SessionType, TwoWords, IsRam, OneWord, AutosaveAssumption DEF
     TypeOK, Places, Promised, Whole, FileIsWhole, Writing, InFrame, Loading,
     Copying, Truncated
<1>1. CASE MainQuiet
  BY <1>1 DEF MainQuiet, LockAutosave, CoreLeavesRam, ReplayStarts,
     ReplayLocks, UnlockAutosave, StartReinit, StartQuit, NothingToFree,
     SetQuit, Signal, Join, Freed, Goes, TakeLock, fixed
<1>2. CASE SaverQuiet
  BY <1>2 DEF SaverQuiet, TestQuit, SaverLocks, Compare, LockCond, Wait,
     Timeout, Wake, SaverGoes, fixed
<1>3. CASE CoreWrites
  BY <1>3 DEF CoreWrites, Goes, fixed
<1>4. CASE CoreWritesMore
  BY <1>4 DEF CoreWritesMore, Goes, fixed
<1>5. CASE ReplayUnlocks
  BY <1>5 DEF ReplayUnlocks, Goes, fixed
<1>6. CASE LoadState
  BY <1>6 DEF LoadState, Goes, fixed
<1>7. ASSUME NEW i \in {1, 2}, Unserialize(i) PROVE Whole'
  BY <1>7, LoadedRam DEF Unserialize, Goes, fixed
<1>8. ASSUME NEW i \in {1, 2}, FlushBack(i) PROVE Whole'
  BY <1>8, FlushedRam DEF FlushBack, Goes, fixed
<1>9. CASE NewAutosave
  BY <1>9 DEF NewAutosave, Goes, fixed
<1>10. CASE SaveFiles
  BY <1>10 DEF SaveFiles, Goes, fixed
<1>11. CASE SaveFilesWrite
  BY <1>11 DEF SaveFilesWrite, Goes, fixed
<1>12. ASSUME NEW i \in {1, 2}, Copy(i) PROVE Whole'
  BY <1>12 DEF Copy, SaverGoes, fixed
<1>13. CASE Open
  BY <1>13 DEF Open, fixed
<1>14. CASE Write
  BY <1>14 DEF Write, SaverGoes, fixed
<1>15. CASE UNCHANGED vars
  BY <1>15 DEF vars
<1>16. QED
  BY <1>1, <1>2, <1>3, <1>4, <1>5, <1>6, <1>7, <1>8, <1>9, <1>10, <1>11,
     <1>12, <1>13, <1>14, <1>15
     DEF Next, MainStep, SaverStep, Ended, MainQuiet, SaverQuiet

\* The RAM of a state never reaches the buffer or the file.
LEMMA OwnRamStep ==
    ASSUME TypeOK, Places, Whole, OwnRam, PromisedSessions, [Next]_vars
    PROVE  OwnRam'
<1> USE SessionType, TwoWords, IsRam, OneWord, AutosaveAssumption DEF
     TypeOK, Places, Promised, Freeing, Leaving, OwnRam, StateRamStaysOut,
     Word, StateRam, InFrame, Loading, Copying, Truncated
<1>1. CASE MainQuiet
  BY <1>1 DEF MainQuiet, LockAutosave, CoreLeavesRam, ReplayStarts,
     ReplayLocks, UnlockAutosave, StartReinit, StartQuit, NothingToFree,
     SetQuit, Signal, Join, Freed, Goes, TakeLock, fixed
<1>2. CASE SaverQuiet
  BY <1>2 DEF SaverQuiet, TestQuit, SaverLocks, Compare, LockCond, Wait,
     Timeout, Wake, SaverGoes, fixed
<1>3. CASE CoreWrites
  BY <1>3 DEF CoreWrites, Goes, fixed
<1>4. CASE CoreWritesMore
  BY <1>4 DEF CoreWritesMore, Goes, fixed
<1>5. CASE ReplayUnlocks
  BY <1>5 DEF ReplayUnlocks, Goes, fixed
<1>6. CASE LoadState
  BY <1>6 DEF LoadState, Goes, fixed
<1>7. ASSUME NEW i \in {1, 2}, Unserialize(i) PROVE OwnRam'
  BY <1>7, LoadedRam DEF Unserialize, Goes, fixed
<1>8. ASSUME NEW i \in {1, 2}, FlushBack(i) PROVE OwnRam'
  BY <1>8, FlushedRam DEF FlushBack, Whole, Goes, fixed
<1>9. CASE NewAutosave
  BY <1>9 DEF NewAutosave, Goes, fixed
<1>10. CASE SaveFiles
  BY <1>10 DEF SaveFiles, Goes, fixed
<1>11. CASE SaveFilesWrite
  BY <1>11 DEF SaveFilesWrite, Goes, fixed
<1>12. ASSUME NEW i \in {1, 2}, Copy(i) PROVE OwnRam'
  BY <1>12 DEF Copy, SaverGoes, fixed
<1>13. CASE Open
  BY <1>13 DEF Open, fixed
<1>14. CASE Write
  BY <1>14 DEF Write, SaverGoes, fixed
<1>15. CASE UNCHANGED vars
  BY <1>15 DEF vars
<1>16. QED
  BY <1>1, <1>2, <1>3, <1>4, <1>5, <1>6, <1>7, <1>8, <1>9, <1>10, <1>11,
     <1>12, <1>13, <1>14, <1>15
     DEF Next, MainStep, SaverStep, Ended, MainQuiet, SaverQuiet

\* File, buffer and RAM stay in the order of their age.
LEMMA OrderStep ==
    ASSUME TypeOK, Places, Whole, OwnRam, Order, PromisedSessions, [Next]_vars
    PROVE  Order'
<1> USE SessionType, TwoWords, IsRam, OneWord, AutosaveAssumption DEF
     TypeOK, Places, Promised, Freeing, Leaving, OwnRam, Order, Writing, Word,
     StateRam, InFrame, Loading, Copying, Truncated
<1>1. CASE MainQuiet
  BY <1>1 DEF MainQuiet, LockAutosave, CoreLeavesRam, ReplayStarts,
     ReplayLocks, UnlockAutosave, StartReinit, StartQuit, NothingToFree,
     SetQuit, Signal, Join, Freed, Goes, TakeLock, fixed
<1>2. CASE SaverQuiet
  BY <1>2 DEF SaverQuiet, TestQuit, SaverLocks, Compare, LockCond, Wait,
     Timeout, Wake, SaverGoes, fixed
<1>3. CASE CoreWrites
  BY <1>3 DEF CoreWrites, Goes, fixed
<1>4. CASE CoreWritesMore
  BY <1>4 DEF CoreWritesMore, Goes, fixed
<1>5. CASE ReplayUnlocks
  BY <1>5 DEF ReplayUnlocks, Goes, fixed
<1>6. CASE LoadState
  BY <1>6 DEF LoadState, Goes, fixed
<1>7. ASSUME NEW i \in {1, 2}, Unserialize(i) PROVE Order'
  BY <1>7, LoadedRam DEF Unserialize, Goes, fixed
<1>8. ASSUME NEW i \in {1, 2}, FlushBack(i) PROVE Order'
  BY <1>8, FlushedRam DEF FlushBack, Goes, fixed
<1>9. CASE NewAutosave
  BY <1>9 DEF NewAutosave, Goes, fixed
<1>10. CASE SaveFiles
  BY <1>10 DEF SaveFiles, Goes, fixed
<1>11. CASE SaveFilesWrite
  BY <1>11 DEF SaveFilesWrite, Goes, fixed
<1>12. ASSUME NEW i \in {1, 2}, Copy(i) PROVE Order'
  BY <1>12 DEF Copy, SaverGoes, fixed
<1>13. CASE Open
  BY <1>13 DEF Open, fixed
<1>14. CASE Write
  BY <1>14 DEF Write, SaverGoes, fixed
<1>15. CASE UNCHANGED vars
  BY <1>15 DEF vars
<1>16. QED
  BY <1>1, <1>2, <1>3, <1>4, <1>5, <1>6, <1>7, <1>8, <1>9, <1>10, <1>11,
     <1>12, <1>13, <1>14, <1>15
     DEF Next, MainStep, SaverStep, Ended, MainQuiet, SaverQuiet

\* The last write is that of save_ram_file, after which nothing runs.
LEMMA LastStep ==
    ASSUME TypeOK, Places, Order, LastSaveWins, PromisedSessions, [Next]_vars
    PROVE  LastSaveWins'
<1> USE DEF Places, Order, LastSaveWins, Leaving
<1>1. CASE MainQuiet
  BY <1>1 DEF MainQuiet, LockAutosave, CoreLeavesRam, ReplayStarts,
     ReplayLocks, UnlockAutosave, StartReinit, StartQuit, NothingToFree,
     SetQuit, Signal, Join, Freed, Goes, TakeLock, fixed
<1>2. CASE CoreWrites \/ CoreWritesMore \/ ReplayUnlocks \/ LoadState \/ NewAutosave
  BY <1>2 DEF CoreWrites, CoreWritesMore, ReplayUnlocks, LoadState,
     NewAutosave, Goes, fixed
<1>3. ASSUME NEW i \in {1, 2}, Unserialize(i) \/ FlushBack(i)
       PROVE LastSaveWins'
  BY <1>3 DEF Unserialize, FlushBack, Goes, fixed
<1>4. CASE SaveFiles \/ SaveFilesWrite
  BY <1>4 DEF SaveFiles, SaveFilesWrite, Goes, fixed
<1>5. CASE SaverStep \/ Timeout
  BY <1>5 DEF SaverStep, TestQuit, SaverLocks, Compare, Copy, Open,
     Write, LockCond, Wait,
     Timeout, Wake, SaverGoes, fixed
<1>6. CASE UNCHANGED vars
  BY <1>6 DEF vars
<1>7. QED
  BY <1>1, <1>2, <1>3, <1>4, <1>5, <1>6 DEF Next, MainStep, Ended, MainQuiet

\* Every step keeps the invariant, part by part.
LEMMA AutosaveInductive ==
    ASSUME AutosaveInv, PromisedSessions, [Next]_vars
    PROVE  AutosaveInv'
  BY TypeStep, PlacesStep, WholeStep, OwnRamStep, OrderStep, LastStep DEF
     AutosaveInv

\* The invariant holds when the program starts.
LEMMA InitialAutosave ==
    ASSUME Init, PromisedSessions
    PROVE  AutosaveInv
<1> USE AutosaveAssumption, SessionType DEF Init
<1>1. <<0, 0>> \in Ram
  BY IsRam DEF Word
<1>2. TypeOK
  <2>1. {sram, backup, buffer} \subseteq Ram /\ file \in Ram \union {Truncated}
    BY <1>1
  <2>2. reinits \in 0 .. session.reinits /\ loads \in 0 .. session.loads
    OBVIOUS
  <2>3. QED
    BY <2>1, <2>2 DEF TypeOK, InFrame
<1>3. Places
  BY DEF Places, Promised, Freeing, Leaving, Loading, Copying, InFrame
<1>4. Whole /\ OwnRam /\ Order /\ LastSaveWins
  BY DEF Whole, FileIsWhole, OwnRam, Order, LastSaveWins,
     StateRamStaysOut, StateRam,
         Truncated, Writing, Loading
<1>5. QED
  BY <1>2, <1>3, <1>4 DEF AutosaveInv

(* What holds throughout, of where the threads are and of each copy of the RAM. *)
THEOREM AutosaveInvariant ==
    ASSUME PromisedSessions
    PROVE  Spec => []AutosaveInv
<1>1. Init => AutosaveInv
  BY InitialAutosave
<1>2. AutosaveInv /\ [Next]_vars => AutosaveInv'
  BY AutosaveInductive
<1>3. QED
  BY <1>1, <1>2, PTL DEF Spec

(* autosave_thread, save_ram_file: whatever the core does and whenever autosave *)
(* is set up anew, a finished save file holds save RAM that was whole and the   *)
(* game's own, and at the end of the program the last one.                      *)
THEOREM SaveIsSound ==
    ASSUME PromisedSessions
    PROVE  Spec => []SaveInv
<1>1. AutosaveInv => SaveInv
  BY DEF AutosaveInv, SaveInv, Whole, OwnRam
<1>2. QED
  BY <1>1, AutosaveInvariant, PTL

-----------------------------------------------------------------------------
(* No step takes the save back: the copy is as new as the file when it is       *)
(* written, and the RAM as new as both.                                         *)
LEMMA KeptStep ==
    ASSUME AutosaveInv, AutosaveInv', PromisedSessions, [Next]_vars
    PROVE  Kept <= Kept'
<1> USE SessionType, TwoWords DEF AutosaveInv, TypeOK, Places, Order,
     Promised, Leaving,
        Freeing, Loading, Writing, Kept
<1>0. Kept \in Int
  BY DEF Word, StateRam
<1>1. CASE MainQuiet
  BY <1>0, <1>1 DEF MainQuiet, LockAutosave, CoreLeavesRam, ReplayStarts,
     ReplayLocks, UnlockAutosave, StartReinit, StartQuit, NothingToFree,
     SetQuit, Signal, Join, Freed, Goes, TakeLock, fixed
<1>2. CASE SaverQuiet
  BY <1>0, <1>2 DEF SaverQuiet, TestQuit, SaverLocks, Compare, LockCond,
     Wait,
     Timeout, Wake, SaverGoes, fixed
<1>3. CASE CoreWrites
  BY <1>0, <1>3 DEF CoreWrites, Goes, Word, StateRam, Truncated, fixed
<1>4. CASE CoreWritesMore
  BY <1>0, <1>4 DEF CoreWritesMore, Goes, Word, StateRam, Truncated, fixed
<1>5. CASE ReplayUnlocks
  BY <1>0, <1>5 DEF ReplayUnlocks, Goes, Word, StateRam, Truncated, fixed
<1>6. CASE LoadState
  BY <1>0, <1>6 DEF LoadState, Goes, Word, StateRam, Truncated, fixed
<1>7. ASSUME NEW i \in {1, 2}, Unserialize(i) PROVE Kept <= Kept'
  BY <1>0, <1>7, LoadedRam DEF Unserialize, Goes, Word, StateRam,
     Truncated, fixed
<1>8. ASSUME NEW i \in {1, 2}, FlushBack(i) PROVE Kept <= Kept'
  BY <1>0, <1>8, FlushedRam DEF FlushBack, Goes, Word, StateRam,
     Truncated, fixed
<1>9. CASE NewAutosave
  BY <1>0, <1>9 DEF NewAutosave, Goes, Word, StateRam, Truncated, fixed
<1>10. CASE SaveFiles
  BY <1>0, <1>10 DEF SaveFiles, OwnRam, Goes, Word, StateRam, Truncated,
     fixed
<1>11. CASE SaveFilesWrite
  BY <1>0, <1>11 DEF SaveFilesWrite, Goes, Word, StateRam, Truncated, fixed
<1>12. ASSUME NEW i \in {1, 2}, Copy(i) PROVE Kept <= Kept'
  BY <1>0, <1>12 DEF Copy, SaverGoes, Word, StateRam, Truncated, fixed
<1>13. CASE Open
  BY <1>0, <1>13 DEF Open, Word, StateRam, Truncated, fixed
<1>14. CASE Write
  BY <1>0, <1>14 DEF Write, SaverGoes, Word, StateRam, Truncated, fixed
<1>15. CASE UNCHANGED vars
  BY <1>0, <1>15 DEF vars
<1>16. QED
  BY <1>1, <1>2, <1>3, <1>4, <1>5, <1>6, <1>7, <1>8, <1>9, <1>10, <1>11,
     <1>12, <1>13,
     <1>14, <1>15
     DEF Next, MainStep, SaverStep, Ended, MainQuiet, SaverQuiet

(* autosave.c, content.c: the save on the disk is never replaced by an older     *)
(* one, nor emptied to be.                                                       *)
THEOREM SavesGoForwardHolds ==
    ASSUME PromisedSessions
    PROVE  Spec => SavesGoForward
<1>1. AutosaveInv /\ AutosaveInv' /\ [Next]_vars => Kept <= Kept'
  BY KeptStep
<1>2. QED
  BY <1>1, AutosaveInvariant, PTL DEF Spec, SavesGoForward
=============================================================================
