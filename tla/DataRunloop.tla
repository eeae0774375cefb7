---------------------------- MODULE DataRunloop ----------------------------
(***************************************************************************)
(* The data runloop (src/runloop_data.c): the tasks run a pass at a time,      *)
(* either on a thread of their own or between the frames of the main thread,  *)
(* while the menu asks for images and downloads.                              *)
(*                                                                         *)
(* Abstractions.  A step of a task is atomic where the other thread cannot     *)
(* see it half done.  The lock and alive are left out: the main thread takes    *)
(* the lock only to set both flags up, and nothing ever clears alive.          *)
(* The queues' own race (MsgQueue) is left out too: pushing and pulling are    *)
(* atomic.  The database and overlay tasks are not part of it.                *)
(***************************************************************************)
EXTENDS ImageTask, HttpTask

CONSTANTS
    Sessions,  \* threaded: the setting at first; patient: the menu waits
               \* for one thing before it asks for the next, and may have
               \* the setting switched on; toggles: on and off at any time
    Asks       \* bound: what the menu asks for

ASSUME RunloopAssumption ==
    /\ Sessions \subseteq [threaded : BOOLEAN, patient : BOOLEAN, toggles : BOOLEAN]
    /\ Asks \in Nat

VARIABLES
    session,
    enabled,      \* threaded_data_runloop_enable
    code,         \* thread_code
    threadInited, \* thread_inited
    asked         \* how often the menu asked

runloopVars == <<session, enabled, code, threadInited, asked>>
vars == <<at, imageVars, httpVars, runloopVars>>

Init ==
    /\ at = [main |-> "frame", data |-> "none"]
    /\ InitImage /\ InitHttp
    /\ session \in Sessions /\ enabled = session.threaded
    /\ code = "init" /\ threadInited = FALSE
    /\ asked = 0

-----------------------------------------------------------------------------
(* The menu, in a frame of the main thread.                                    *)

Ask == asked < Asks /\ asked' = asked + 1

AskImage(i) ==
    /\ at["main"] = "frame" /\ Ask
    /\ session.patient => /\ image.status = "poll" /\ imageQueue = <<>>
                          /\ at["data"] \notin {"pulled", "requested"}
    /\ PushImage(i)
    /\ UNCHANGED <<at, httpVars, session, enabled, code, threadInited>>

AskDownload(f) ==
    /\ at["main"] = "frame" /\ GoTo("main", "naming") /\ Ask
    /\ session.patient => http.status = "poll" /\ urlQueue = <<>>
    /\ NameDownload(f)
    /\ UNCHANGED <<imageVars, session, enabled, code, threadInited>>

DownloadAsked ==
    /\ at["main"] = "naming" /\ GoTo("main", "frame")
    /\ PushDownload(updaterPath)
    /\ UNCHANGED <<imageVars, runloopVars>>

\* EVENT_CMD_PREPARE_DUMMY: rarch_main_data_deinit, which joins no thread.
PrepareDummy ==
    /\ at["main"] = "frame" /\ threadInited
    /\ threadInited' = FALSE /\ code' = "deinit"
    /\ UNCHANGED <<at, imageVars, httpVars, session, enabled, asked>>

\* The setting: switched on once, or at any time.
Toggle ==
    /\ at["main"] = "frame" /\ enabled' = ~enabled
    /\ session.toggles \/ (session.patient /\ ~enabled)
    /\ UNCHANGED <<at, imageVars, httpVars, session, code, threadInited, asked>>

-----------------------------------------------------------------------------
(* rarch_main_data_iterate, once a frame.                                      *)

IterateThread ==
    /\ at["main"] = "frame"
    /\ IF enabled /\ code = "init"
       THEN at' = [main |-> "created", data |-> "starting"]
       ELSE GoTo("main", "upload")
    /\ UNCHANGED <<imageVars, httpVars, runloopVars>>

\* The thread is not told.
ThreadInit ==
    /\ at["main"] = "created" /\ GoTo("main", "upload")
    /\ threadInited' = TRUE /\ code' = "alive"
    /\ UNCHANGED <<imageVars, httpVars, session, enabled, asked>>

IterateUpload ==
    /\ UploadIterate
    /\ UNCHANGED <<httpVars, runloopVars>>

\* Once there is a thread it is alive for good.
IterateTasks ==
    /\ at["main"] = "uploaded"
    /\ GoTo("main", IF enabled /\ code # "init" THEN "frame" ELSE "file")
    /\ UNCHANGED <<imageVars, httpVars, runloopVars>>

Iterate == IterateThread \/ ThreadInit \/ IterateUpload \/ IterateTasks

-----------------------------------------------------------------------------
(* data_thread_loop.                                                           *)

ThreadStart ==
    /\ at["data"] = "starting"
    /\ GoTo("data", IF threadInited THEN "file" ELSE "asleep")
    /\ UNCHANGED <<imageVars, httpVars, runloopVars>>

\* A wait on a condition may end without a signal; nobody sends one.
SpuriousWakeup ==
    /\ at["data"] = "asleep" /\ GoTo("data", "starting")
    /\ UNCHANGED <<imageVars, httpVars, runloopVars>>

-----------------------------------------------------------------------------
\* data_runloop_iterate: one pass of each task.
FileTask(t) == FileIterate(t) /\ UNCHANGED <<httpVars, runloopVars>>
ImageTask(t) == ImageIterate(t) /\ UNCHANGED <<httpVars, runloopVars>>

DownloadTask(t) ==
    /\ at[t] = "http" /\ GoTo(t, IF t = "main" THEN "frame" ELSE "file")
    /\ HttpStep
    /\ UNCHANGED <<imageVars, runloopVars>>

Tasks(t) == FileTask(t) \/ ImageTask(t) \/ DownloadTask(t)

Menu ==
    \/ \E i \in Images : AskImage(i)
    \/ (\E f \in Files : AskDownload(f)) \/ DownloadAsked
    \/ PrepareDummy \/ Toggle

Next ==
    \/ Menu \/ Iterate \/ Tasks("main")
    \/ ThreadStart \/ SpuriousWakeup \/ Tasks("data")

Spec == Init /\ [][Next]_vars

\* Both threads run; files and connections that hold get to their end, and
\* so does the decoding.
Fairness ==
    /\ WF_vars(Iterate) /\ WF_vars(DownloadAsked) /\ WF_vars(ThreadStart)
    /\ \A t \in {"main", "data"} :
         /\ WF_vars(Tasks(t))
         /\ SF_vars(FileTask(t) /\ FileTransfer(TRUE))
         /\ SF_vars(ImageTask(t) /\ ImageProcess(TRUE))
         /\ SF_vars(DownloadTask(t) /\ HttpConnecting(TRUE))
         /\ SF_vars(DownloadTask(t) /\ HttpTransfer(TRUE))

FairSpec == Spec /\ Fairness

-----------------------------------------------------------------------------
Orderly == session.patient \/ ~session.threaded
Asleep == at["data"] = "asleep"

TypeOK ==
    /\ nbio.status \in {"poll", "transfer", "parse", "free"}
    /\ nbio.file \in Images \union {NoImage} /\ nbio.finished \in BOOLEAN
    /\ image.status \in {"poll", "transfer", "parse", "process", "processed", "free"}
    /\ image.handle \in {"none", "live", "freed"}
    /\ Len(fileQueue) <= 1 /\ Len(imageQueue) <= 1 /\ Len(urlQueue) <= 1
    /\ http.status \in {"poll", "connecting", "connected", "transfer", "parse"}
    /\ http.handle = "open" => http.url \in Files
    /\ threadInited => code = "alive"

(* No function of the image task works on a handle that is not there, or on    *)
(* one that is freed, though the status alone tells them when to.              *)
HandleThere ==
    /\ \A t \in {"main", "data"} : at[t] = "decoding" => image.handle = "live"
    /\ at["main"] = "uploading" => image.handle = "live"

(* The decoder reads straight from the buffer of the file task                 *)
(* (cb_nbio_generic): it is done with it before the file task frees it.        *)
BufferThere == ReadsFile => nbio.file = image.of

(* While the main thread converts, loads or frees an image, no task decodes    *)
(* into it, though the two share no lock.                                      *)
PixelsAlone ==
    ~ (at["data"] = "decoding" /\ at["main"] \in {"uploading", "freeing"})

(* "Can only deal with one image transfer at a time for now": while a file     *)
(* is on its way for the image task, that waits for it and polls for no other. *)
OneImageAtATime ==
    Orderly =>
      (nbio.status \in {"transfer", "parse"} \/ fileQueue # <<>> =>
         \/ image.status = "transfer"
         \/ \E t \in {"main", "data"} : at[t] = "requested")

(* A download is written under its own name, which it finds in                 *)
(* core_updater_path when it ends.  It is not when another was asked for.      *)
WrittenUnderOwnName == written.url = written.name

(* An image asked for while none is under way is shown, unless another is        *)
(* asked for or it cannot be loaded; a data thread that sleeps through its        *)
(* start never does anything.                                                 *)
ImageShown ==
    \A i \in Images :
      Orderly /\ image.status = "poll" /\ imageQueue = <<i>>
        ~> shown = i \/ imageQueue \notin {<<>>, <<i>>} \/ failed \/ Asleep

(* A download asked for while none is under way comes to its end.              *)
DownloadEnds ==
    \A f \in Files :
      http.status = "poll" /\ urlQueue = <<f>>
        ~> written.url = f \/ urlQueue \notin {<<>>, <<f>>} \/ broken \/ Asleep

(* net_http_update: "Returns true if it's done, or if something broke", so       *)
(* the transfer of a session that broke is over.                              *)
BrokenEnds == http.handle = "broken" ~> http.status # "transfer"

(* What the two threads hand to each other by status alone is there when it is   *)
(* used: the handle, the file's buffer, and for one image at a time.             *)
DataInv == TypeOK /\ HandleThere /\ BufferThere /\ OneImageAtATime
=============================================================================
