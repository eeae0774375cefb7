------------------------- MODULE DataRunloop_proofs -------------------------
(***************************************************************************)
(* Proofs about the data runloop, for every set of images and files and      *)
(* however often the menu asks: what the two threads hand to each other by    *)
(* status alone is there when it is used, and the main thread and a task      *)
(* never work on one image at once.                                          *)
(***************************************************************************)
EXTENDS DataRunloop, TLAPS

(* What the promises are made for: the setting is not switched off and on      *)
(* under a running data thread, and the decoder can always be started.  Of      *)
(* what is left out, toggles breaks OneRunner and a failing start HandleThere. *)
Steady ==
    /\ \A s \in Sessions : ~s.toggles
    /\ "start" \notin Faults

-----------------------------------------------------------------------------
(* The records, in full.                                                      *)

NbioType ==
    [status : {"poll", "transfer", "parse", "free"}, file : Images \union {NoImage},
     finished : BOOLEAN]

ImageType ==
    [status : {"poll", "transfer", "parse", "process", "processed", "free"},
     handle : {"none", "live", "freed"}, of : Images \union {NoImage},
     blocking : BOOLEAN, processing : BOOLEAN, finished : BOOLEAN, increment : BOOLEAN,
     cb : {"none", "decoded", "upload"}, ok : BOOLEAN]

HttpType ==
    [status : {"poll", "connecting", "connected", "transfer", "parse"},
     url : Files \union {NoFile}, handle : {"none", "open", "broken"}]

Records ==
    /\ nbio \in NbioType /\ image \in ImageType /\ http \in HttpType
    /\ enabled \in BOOLEAN
    /\ threadInited => code = "alive"

-----------------------------------------------------------------------------
(* Who runs the tasks: the data thread once there is one, else the main thread *)
(* between two frames.                                                       *)

Threads == {"main", "data"}
TaskPlaces == {"file", "image", "pulled", "requested", "decoding", "http"}
MainPlaces == {"frame", "naming", "created", "upload", "uploading", "freeing", "freed",
               "uploaded"} \union TaskPlaces
DataPlaces == {"none", "starting", "asleep"} \union TaskPlaces

OneRunner ==
    /\ at \in [Threads -> MainPlaces \union DataPlaces]
    /\ at["main"] \in MainPlaces /\ at["data"] \in DataPlaces
    /\ session \in Sessions
    /\ session.threaded /\ ~session.patient => enabled
    /\ ~session.threaded /\ ~session.patient => ~enabled
    /\ IF at["data"] = "none" THEN code = "init" /\ at["main"] # "created"
       ELSE enabled /\ (code # "init" \/ at["main"] = "created")
    /\ at["main"] \in TaskPlaces => at["data"] = "none"

-----------------------------------------------------------------------------
(* What is in the queues, of at most one entry each.                           *)

AtMostOne(S) == {<<>>} \union {<<x>> : x \in S}

Queues ==
    /\ fileQueue \in AtMostOne(Images) /\ imageQueue \in AtMostOne(Images)
    /\ pulled \in AtMostOne(Images) /\ urlQueue \in AtMostOne(Files)
    /\ at["main"] = "naming" => updaterPath \in Files
    /\ http.status # "poll" => http.url \in Files
    /\ http.handle = "open" => http.status \in {"transfer", "parse"}
    /\ \A t \in Threads : at[t] = "pulled" => pulled # <<>>

-----------------------------------------------------------------------------
(* The handle of the image.  Without one, increment or blocking keeps the      *)
(* decoder out; with one, no other file is on its way.                         *)

Handle ==
    /\ image.handle # "freed"
    /\ image.handle = "none" => image.blocking \/ ~image.increment
    /\ image.handle = "live" =>
         \/ nbio.status = "free"
         \/ nbio.status = "poll" /\ nbio.file = NoImage /\ fileQueue = <<>>
    /\ nbio.status = "free" => nbio.finished
    /\ image.status \in {"parse", "process", "processed"} => image.handle = "live"
    /\ image.status \in {"process", "processed"} => nbio.status = "poll"
    /\ image.status = "parse" /\ nbio.status = "free" =>
         \A t \in Threads : at[t] \notin TaskPlaces \ {"http", "file"}
    /\ image.status = "free" => image.blocking /\ (image.handle = "live" \/ at["main"] = "freed")
    /\ image.status = "free" =>
         /\ nbio.status \in {"poll", "free"}
         /\ fileQueue # <<>> => \E t \in Threads : at[t] = "requested"
    /\ at["main"] = "uploading" => image.status = "processed"
    /\ at["main"] = "freeing" => image.status = "free"
    /\ \A t \in Threads :
         /\ at[t] = "requested" => image.handle = "none"
         /\ at[t] = "decoding" => /\ image.handle = "live"
                                  /\ image.status \in {"transfer", "parse", "process", "poll"}

(* The decoder has read the buffer before the pass is over that filled it.      *)
Buffer ==
    ReadsFile =>
      /\ nbio.status = "free" /\ nbio.file = image.of
      /\ \E t \in Threads : at[t] \in {"image", "decoding"}

-----------------------------------------------------------------------------
(* One image at a time: from the request to the end of its decoding the status *)
(* is not "poll", and the file task works for it alone.                        *)

Alone ==
    /\ OneImageAtATime
    /\ image.status = "poll" => image.handle = "none"
    /\ nbio.status # "poll" => fileQueue = <<>>
    /\ nbio.status = "free" => ReadsFile \/ image.status = "parse"
    /\ at["main"] = "freed" => image.status = "free" /\ image.handle = "none"
    /\ \A t \in Threads :
         /\ at[t] = "requested" => image.status = "poll"
         /\ at[t] = "pulled" /\ image.handle = "none" => image.status = "poll"
    /\ session.patient => /\ imageQueue # <<>> => image.status = "poll"
                          /\ \A t \in Threads : at[t] \in {"pulled", "requested"} =>
                               image.status = "poll" /\ imageQueue = <<>>

RunloopInv == Records /\ OneRunner /\ Queues /\ Handle /\ Buffer /\ (Orderly => Alone)

\* What is taken from a queue is of its kind.
LEMMA HeadOf ==
    ASSUME NEW S, NEW q \in AtMostOne(S), q # <<>>
    PROVE  Head(q) \in S
  BY DEF AtMostOne

\* A queue never holds two.
LEMMA LengthOf ==
    ASSUME NEW S, NEW q \in AtMostOne(S)
    PROVE  Len(q) <= 1
<1>1. CASE q = <<>>
  BY <1>1
<1>2. ASSUME NEW x \in S, q = <<x>> PROVE Len(q) <= 1
  BY <1>2
<1>3. QED
  BY <1>1, <1>2 DEF AtMostOne

\* What cb_nbio_image_menu_* leaves of the image.
Parsed(starts) ==
    image' = [image EXCEPT
                !.handle = IF starts THEN "live" ELSE "freed",
                !.of = nbio.file, !.cb = "decoded", !.increment = TRUE,
                !.blocking = @ /\ ~starts, !.finished = @ /\ ~starts]

\* The decoder starts.
LEMMA Starts ==
    ASSUME Steady
    PROVE  Outcomes("start") = {TRUE}
  BY DEF Steady, Outcomes

\* The fields of a session, and that it does not toggle.
LEMMA SessionType ==
    ASSUME session \in Sessions, Steady
    PROVE  /\ session \in [threaded : BOOLEAN, patient : BOOLEAN, toggles : BOOLEAN]
           /\ ~session.toggles
  BY RunloopAssumption DEF Steady

\* The records keep their types; only queues put new names into them.
LEMMA RecordsStep ==
    ASSUME Records, Queues, [Next]_vars
    PROVE  Records'
<1> USE DEF Records
<1>1. ASSUME NEW i \in Images, AskImage(i) PROVE Records'
  BY <1>1 DEF AskImage, Ask, PushImage, httpVars
<1>2. ASSUME NEW f \in Files, AskDownload(f) PROVE Records'
  BY <1>2 DEF AskDownload, Ask, NameDownload, GoTo, imageVars
<1>3. CASE DownloadAsked
  BY <1>3 DEF DownloadAsked, PushDownload, GoTo, imageVars, runloopVars
<1>4. CASE PrepareDummy
  BY <1>4 DEF PrepareDummy, imageVars, httpVars
<1>5. CASE Toggle
  BY <1>5 DEF Toggle, imageVars, httpVars
<1>6. CASE IterateThread
  BY <1>6 DEF IterateThread, GoTo, imageVars, httpVars, runloopVars
<1>7. CASE ThreadInit
  BY <1>7 DEF ThreadInit, GoTo, imageVars, httpVars
<1>8. CASE IterateUpload /\ UploadEnter
  BY <1>8 DEF IterateUpload, UploadEnter, GoTo, imageVars, httpVars,
     runloopVars
<1>9. CASE IterateUpload /\ ImageUpload
  <2>1. nbio' \in NbioType
    BY <1>9 DEF ImageUpload, NbioType
  <2>2. image' \in ImageType
    BY <1>9 DEF ImageUpload, ImageType
  <2>3. QED
    BY <1>9, <2>1, <2>2 DEF IterateUpload, ImageUpload, httpVars,
       runloopVars
<1>10. CASE IterateUpload /\ ImageFree
  <2>1. image' \in ImageType
    BY <1>10 DEF ImageFree, ImageType
  <2>2. QED
    BY <1>10, <2>1 DEF IterateUpload, ImageFree, httpVars, runloopVars
<1>11. CASE IterateUpload /\ ImageFreed
  <2>1. image' \in ImageType
    BY <1>11 DEF ImageFreed, ImageType
  <2>2. QED
    BY <1>11, <2>1 DEF IterateUpload, ImageFreed, httpVars, runloopVars
<1>12. CASE IterateTasks
  BY <1>12 DEF IterateTasks, GoTo, imageVars, httpVars, runloopVars
<1>13. CASE ThreadStart
  BY <1>13 DEF ThreadStart, GoTo, imageVars, httpVars, runloopVars
<1>14. CASE SpuriousWakeup
  BY <1>14 DEF SpuriousWakeup, GoTo, imageVars, httpVars, runloopVars
<1>15. ASSUME NEW t \in Threads, FileTask(t) /\ FilePoll PROVE Records'
  <2>1. CASE UNCHANGED nbio
    BY <1>15, <2>1 DEF FileTask, FilePoll, httpVars, runloopVars
  <2>2. CASE /\ fileQueue # <<>>
             /\ nbio' = [status |-> "transfer", file |-> Head(fileQueue), finished |-> FALSE]
    <3>1. Head(fileQueue) \in Images
      BY <2>2, HeadOf DEF Queues
    <3>2. nbio' \in NbioType
      BY <2>2, <3>1 DEF NbioType
    <3>3. QED
      BY <1>15, <3>2 DEF FileTask, FilePoll, httpVars, runloopVars
  <2>3. QED
    BY <1>15, <2>1, <2>2 DEF FilePoll
<1>16. ASSUME NEW t \in Threads, NEW done \in BOOLEAN, FileTask(t) /\ FileTransfer(done)
       PROVE Records'
  <2>1. nbio' \in NbioType
    BY <1>16 DEF FileTransfer, NbioType
  <2>2. QED
    BY <1>16, <2>1 DEF FileTask, FileTransfer, httpVars, runloopVars
<1>17. ASSUME NEW t \in Threads, FileTask(t) /\ FileParse PROVE Records'
  <2>1. PICK starts \in BOOLEAN : /\ nbio' = [nbio EXCEPT !.status = "free", !.finished = starts]
                                 /\ Parsed(starts)
    BY <1>17 DEF FileParse, Outcomes, Parsed
  <2>2. nbio' \in NbioType
    BY <1>17, <2>1 DEF NbioType
  <2>3. image' \in ImageType
    <3>1. /\ image \in ImageType /\ nbio.file \in Images \union {NoImage}
          /\ image.blocking \in BOOLEAN /\ image.finished \in BOOLEAN
      BY DEF ImageType, NbioType
    <3>2. PICK h \in {"live", "freed"}, b \in BOOLEAN, e \in BOOLEAN :
            image' = [image EXCEPT !.handle = h, !.of = nbio.file, !.cb = "decoded",
                                   !.increment = TRUE, !.blocking = b, !.finished = e]
      BY ONLY <2>1, <3>1 DEF Parsed
    <3>3. QED
      BY ONLY <3>1, <3>2 DEF ImageType
  <2>4. QED
    <3>1. UNCHANGED <<http, enabled, threadInited, code>>
      BY <1>17 DEF FileTask, FileParse, httpVars, runloopVars
    <3>2. QED
      BY <2>2, <2>3, <3>1
<1>18. ASSUME NEW t \in Threads, FileTask(t) /\ FileFree PROVE Records'
  <2>1. CASE nbio.finished
    <3>1. nbio' = [status |-> "poll", file |-> NoImage, finished |-> FALSE]
      BY <1>18, <2>1 DEF FileFree
    <3>2. nbio' \in NbioType
      BY ONLY <3>1 DEF NbioType
    <3>3. QED
      BY <1>18, <3>2 DEF FileTask, FileFree, httpVars, runloopVars
  <2>2. CASE ~nbio.finished
    <3>1. nbio' \in NbioType
      BY <1>18, <2>2 DEF FileFree, NbioType
    <3>2. QED
      BY <1>18, <3>1 DEF FileTask, FileFree, httpVars, runloopVars
  <2>3. QED
    BY <2>1, <2>2
<1>19. ASSUME NEW t \in Threads, ImageTask(t) /\ ImageEnter(t) PROVE Records'
  BY <1>19 DEF ImageTask, ImageEnter, GoTo, httpVars, runloopVars
<1>20. ASSUME NEW t \in Threads, ImageTask(t) /\ ImagePulled(t) PROVE Records'
  BY <1>20 DEF ImageTask, ImagePulled, GoTo, httpVars, runloopVars
<1>21. ASSUME NEW t \in Threads, ImageTask(t) /\ ImageRequested(t)
       PROVE Records'
  <2>1. image' \in ImageType
    BY <1>21 DEF ImageRequested, ImageType
  <2>2. QED
    BY <1>21, <2>1 DEF ImageTask, ImageRequested, httpVars, runloopVars
<1>22. ASSUME NEW t \in Threads, ImageTask(t) /\ ImageDecode(t) PROVE Records'
  <2>1. CASE ImageTransfer
    BY <1>22, <2>1 DEF ImageTransfer, ImageDecode, ImageType, Outcomes,
       ImageTask, httpVars,
       runloopVars
  <2>2. CASE ImageParse
    BY <1>22, <2>2 DEF ImageParse, ImageDecode, ImageType, ImageTask,
       httpVars, runloopVars
  <2>3. ASSUME NEW done \in BOOLEAN, ImageProcess(done) PROVE Records'
    <3>1. UNCHANGED <<nbio, http, enabled, threadInited, code>>
      BY <1>22 DEF ImageTask, ImageDecode, httpVars, runloopVars
    <3>2. image' \in ImageType
      <4>1. PICK good \in BOOLEAN :
              image' = IF done THEN [image EXCEPT !.status = "processed", !.ok = good] ELSE image
        BY <2>3 DEF ImageProcess, Outcomes
      <4>2. image \in ImageType
        OBVIOUS
      <4>3. QED
        BY ONLY <4>1, <4>2 DEF ImageType
    <3>3. QED
      BY <3>1, <3>2
  <2>4. QED
    BY <1>22, <2>1, <2>2, <2>3 DEF ImageTask, ImageDecode
<1>23. ASSUME NEW t \in Threads, DownloadTask(t) PROVE Records'
  <2>1. CASE HttpPoll
    <3>1. http' \in HttpType
      BY <2>1, HeadOf DEF HttpPoll, HttpType, Queues
    <3>2. QED
      BY <1>23, <3>1 DEF DownloadTask, imageVars, runloopVars
  <2>2. ASSUME NEW done \in BOOLEAN, HttpConnecting(done) PROVE Records'
    BY <1>23, <2>2 DEF DownloadTask, imageVars, runloopVars,
       HttpConnecting, HttpType
  <2>3. CASE HttpConnected
    BY <1>23, <2>3 DEF DownloadTask, imageVars, runloopVars,
       HttpConnected, HttpType
  <2>4. ASSUME NEW done \in BOOLEAN, HttpTransfer(done) PROVE Records'
    BY <1>23, <2>4 DEF DownloadTask, imageVars, runloopVars,
       HttpTransfer, HttpType
  <2>5. CASE HttpParse
    BY <1>23, <2>5 DEF DownloadTask, imageVars, runloopVars, HttpParse,
       HttpType
  <2>6. QED
    BY <1>23, <2>1, <2>2, <2>3, <2>4, <2>5 DEF DownloadTask, HttpStep
<1>24. CASE UNCHANGED vars
  BY <1>24 DEF vars, imageVars, httpVars, runloopVars
<1>25. QED
  BY <1>1, <1>2, <1>3, <1>4, <1>5, <1>6, <1>7, <1>8, <1>9, <1>10, <1>11,
     <1>12, <1>13, <1>14, <1>15, <1>16, <1>17, <1>18, <1>19, <1>20, <1>21,
     <1>22, <1>23, <1>24
     DEF Next, Menu, Iterate, IterateUpload, UploadIterate, Tasks,
        FileTask, FileIterate,
         ImageTask, ImageIterate, Threads

\* One thread runs the tasks, whoever prepares or frees what.
LEMMA RunnerStep ==
    ASSUME Records, OneRunner, Queues, Steady, [Next]_vars
    PROVE  OneRunner'
<1> USE SessionType DEF OneRunner, Threads, MainPlaces, DataPlaces,
     TaskPlaces
<1>1. ASSUME NEW i \in Images, AskImage(i) PROVE OneRunner'
  BY <1>1 DEF AskImage, Ask, PushImage, httpVars
<1>2. ASSUME NEW f \in Files, AskDownload(f) PROVE OneRunner'
  BY <1>2 DEF AskDownload, Ask, NameDownload, GoTo, imageVars
<1>3. CASE DownloadAsked
  BY <1>3 DEF DownloadAsked, PushDownload, GoTo, imageVars, runloopVars
<1>4. CASE PrepareDummy
  BY <1>4 DEF PrepareDummy, imageVars, httpVars, Records
<1>5. CASE Toggle
  BY <1>5 DEF Toggle, imageVars, httpVars
<1>6. CASE IterateThread
  BY <1>6 DEF IterateThread, GoTo, imageVars, httpVars, runloopVars
<1>7. CASE ThreadInit
  BY <1>7 DEF ThreadInit, GoTo, imageVars, httpVars
<1>8. CASE IterateUpload /\ UploadEnter
  BY <1>8 DEF IterateUpload, UploadEnter, GoTo, imageVars, httpVars,
     runloopVars
<1>9. CASE IterateUpload /\ ImageUpload
  BY <1>9 DEF IterateUpload, ImageUpload, GoTo, httpVars, runloopVars
<1>10. CASE IterateUpload /\ ImageFree
  BY <1>10 DEF IterateUpload, ImageFree, GoTo, httpVars, runloopVars
<1>11. CASE IterateUpload /\ ImageFreed
  BY <1>11 DEF IterateUpload, ImageFreed, GoTo, httpVars, runloopVars
<1>12. CASE IterateTasks
  BY <1>12 DEF IterateTasks, GoTo, imageVars, httpVars, runloopVars
<1>13. CASE ThreadStart
  BY <1>13 DEF ThreadStart, GoTo, imageVars, httpVars, runloopVars
<1>14. CASE SpuriousWakeup
  BY <1>14 DEF SpuriousWakeup, GoTo, imageVars, httpVars, runloopVars
<1>15. ASSUME NEW t \in Threads, FileTask(t) /\ FilePoll PROVE OneRunner'
  BY <1>15 DEF FileTask, FileIterate, FilePoll, GoTo, httpVars, runloopVars
<1>16. ASSUME NEW t \in Threads, NEW done \in BOOLEAN, FileTask(t) /\ FileTransfer(done)
       PROVE OneRunner'
  BY <1>16 DEF FileTask, FileIterate, FileTransfer, GoTo, httpVars,
     runloopVars
<1>17. ASSUME NEW t \in Threads, FileTask(t) /\ FileParse PROVE OneRunner'
  BY <1>17 DEF FileTask, FileIterate, FileParse, GoTo, httpVars, runloopVars
<1>18. ASSUME NEW t \in Threads, FileTask(t) /\ FileFree PROVE OneRunner'
  BY <1>18 DEF FileTask, FileIterate, FileFree, GoTo, httpVars, runloopVars
<1>19. ASSUME NEW t \in Threads, ImageTask(t) /\ ImageEnter(t) PROVE OneRunner'
  BY <1>19 DEF ImageTask, ImageEnter, GoTo, httpVars, runloopVars
<1>20. ASSUME NEW t \in Threads, ImageTask(t) /\ ImagePulled(t) PROVE OneRunner'
  BY <1>20 DEF ImageTask, ImagePulled, GoTo, httpVars, runloopVars
<1>21. ASSUME NEW t \in Threads, ImageTask(t) /\ ImageRequested(t)
       PROVE OneRunner'
  BY <1>21 DEF ImageTask, ImageRequested, GoTo, httpVars, runloopVars
<1>22. ASSUME NEW t \in Threads, ImageTask(t) /\ ImageDecode(t) PROVE OneRunner'
  BY <1>22 DEF ImageTask, ImageDecode, ImageTransfer, ImageParse,
     ImageProcess, GoTo, httpVars, runloopVars
<1>23. ASSUME NEW t \in Threads, DownloadTask(t) PROVE OneRunner'
  BY <1>23 DEF DownloadTask, HttpStep, HttpPoll, HttpConnecting,
     HttpConnected, HttpTransfer, HttpParse, GoTo, imageVars, runloopVars
<1>24. CASE UNCHANGED vars
  BY <1>24 DEF vars, imageVars, httpVars, runloopVars
<1>25. QED
  BY <1>1, <1>2, <1>3, <1>4, <1>5, <1>6, <1>7, <1>8, <1>9, <1>10, <1>11,
     <1>12, <1>13, <1>14, <1>15, <1>16, <1>17, <1>18, <1>19, <1>20, <1>21,
     <1>22, <1>23, <1>24
     DEF Next, Menu, Iterate, IterateUpload, UploadIterate, Tasks,
        FileTask, FileIterate,
         ImageTask, ImageIterate, Threads

\* The queues hold one entry of their kind at most.
LEMMA QueuesStep ==
    ASSUME Records, OneRunner, Queues, [Next]_vars
    PROVE  Queues'
<1> USE DEF Records, HttpType, OneRunner, Queues, AtMostOne, Threads,
     TaskPlaces
<1>1. ASSUME NEW i \in Images, AskImage(i) PROVE Queues'
  BY <1>1 DEF AskImage, Ask, PushImage, httpVars
<1>2. ASSUME NEW f \in Files, AskDownload(f) PROVE Queues'
  BY <1>2 DEF AskDownload, Ask, NameDownload, GoTo, imageVars
<1>3. CASE DownloadAsked
  BY <1>3 DEF DownloadAsked, PushDownload, GoTo, imageVars, runloopVars
<1>4. CASE PrepareDummy
  BY <1>4 DEF PrepareDummy, imageVars, httpVars
<1>5. CASE Toggle
  BY <1>5 DEF Toggle, imageVars, httpVars
<1>6. CASE IterateThread
  BY <1>6 DEF IterateThread, GoTo, imageVars, httpVars, runloopVars
<1>7. CASE ThreadInit
  BY <1>7 DEF ThreadInit, GoTo, imageVars, httpVars
<1>8. CASE IterateUpload /\ UploadEnter
  BY <1>8 DEF IterateUpload, UploadEnter, GoTo, imageVars, httpVars,
     runloopVars
<1>9. CASE IterateUpload /\ ImageUpload
  BY <1>9 DEF IterateUpload, ImageUpload, GoTo, httpVars, runloopVars
<1>10. CASE IterateUpload /\ ImageFree
  BY <1>10 DEF IterateUpload, ImageFree, GoTo, httpVars, runloopVars
<1>11. CASE IterateUpload /\ ImageFreed
  BY <1>11 DEF IterateUpload, ImageFreed, GoTo, httpVars, runloopVars
<1>12. CASE IterateTasks
  BY <1>12 DEF IterateTasks, GoTo, imageVars, httpVars, runloopVars
<1>13. CASE ThreadStart
  BY <1>13 DEF ThreadStart, GoTo, imageVars, httpVars, runloopVars
<1>14. CASE SpuriousWakeup
  BY <1>14 DEF SpuriousWakeup, GoTo, imageVars, httpVars, runloopVars
<1>15. ASSUME NEW t \in Threads, FileTask(t) /\ FilePoll PROVE Queues'
  BY <1>15 DEF FileTask, FileIterate, FilePoll, GoTo, httpVars, runloopVars
<1>16. ASSUME NEW t \in Threads, NEW done \in BOOLEAN, FileTask(t) /\ FileTransfer(done)
       PROVE Queues'
  BY <1>16 DEF FileTask, FileIterate, FileTransfer, GoTo, httpVars,
     runloopVars
<1>17. ASSUME NEW t \in Threads, FileTask(t) /\ FileParse PROVE Queues'
  BY <1>17 DEF FileTask, FileIterate, FileParse, GoTo, httpVars, runloopVars
<1>18. ASSUME NEW t \in Threads, FileTask(t) /\ FileFree PROVE Queues'
  BY <1>18 DEF FileTask, FileIterate, FileFree, GoTo, httpVars, runloopVars
<1>19. ASSUME NEW t \in Threads, ImageTask(t) /\ ImageEnter(t) PROVE Queues'
  BY <1>19 DEF ImageTask, ImageEnter, GoTo, httpVars, runloopVars
<1>20. ASSUME NEW t \in Threads, ImageTask(t) /\ ImagePulled(t) PROVE Queues'
  BY <1>20 DEF ImageTask, ImagePulled, GoTo, httpVars, runloopVars
<1>21. ASSUME NEW t \in Threads, ImageTask(t) /\ ImageRequested(t) PROVE Queues'
  BY <1>21 DEF ImageTask, ImageRequested, GoTo, httpVars, runloopVars
<1>22. ASSUME NEW t \in Threads, ImageTask(t) /\ ImageDecode(t) PROVE Queues'
  BY <1>22 DEF ImageTask, ImageDecode, ImageTransfer, ImageParse,
     ImageProcess, GoTo, httpVars, runloopVars
<1>23. ASSUME NEW t \in Threads, DownloadTask(t) PROVE Queues'
  <2>1. /\ UNCHANGED <<fileQueue, imageQueue, pulled>>
        /\ at' = [at EXCEPT ![t] = IF t = "main" THEN "frame" ELSE "file"]
    BY <1>23 DEF DownloadTask, GoTo, imageVars
  <2>2. \A s \in Threads : at'[s] = "pulled" => pulled' # <<>>
    BY <2>1
  <2>3. CASE HttpPoll
    <3>1. urlQueue # <<>> => Head(urlQueue) \in Files
      BY HeadOf
    <3>2. \/ UNCHANGED http
          \/ Head(urlQueue) \in Files /\ http.handle = "none"
             /\ http' = [http EXCEPT !.status = "connecting", !.url = Head(urlQueue)]
      BY <2>3, <3>1 DEF HttpPoll
    <3>3. /\ http'.status # "poll" => http'.url \in Files
          /\ http'.handle = "open" => http'.status \in {"transfer", "parse"}
      BY <3>2
    <3>4. QED
      BY <2>1, <2>2, <2>3, <3>3 DEF HttpPoll
  <2>4. ASSUME NEW done \in BOOLEAN, HttpConnecting(done) PROVE Queues'
    BY <2>1, <2>2, <2>4 DEF HttpConnecting
  <2>5. CASE HttpConnected
    BY <2>1, <2>2, <2>5 DEF HttpConnected
  <2>6. ASSUME NEW done \in BOOLEAN, HttpTransfer(done) PROVE Queues'
    BY <2>1, <2>2, <2>6 DEF HttpTransfer
  <2>7. CASE HttpParse
    BY <2>1, <2>2, <2>7 DEF HttpParse
  <2>8. QED
    BY <1>23, <2>3, <2>4, <2>5, <2>6, <2>7 DEF DownloadTask, HttpStep
<1>24. CASE UNCHANGED vars
  BY <1>24 DEF vars, imageVars, httpVars, runloopVars
<1>25. QED
  BY <1>1, <1>2, <1>3, <1>4, <1>5, <1>6, <1>7, <1>8, <1>9, <1>10, <1>11,
     <1>12, <1>13, <1>14, <1>15, <1>16, <1>17, <1>18, <1>19, <1>20, <1>21,
     <1>22, <1>23, <1>24
     DEF Next, Menu, Iterate, IterateUpload, UploadIterate, Tasks,
        FileTask, FileIterate,
         ImageTask, ImageIterate, Threads

\* The handle follows the status. Only the task that runs and the main thread
\* change them, each at statuses the other leaves alone.
LEMMA HandleStep ==
    ASSUME Records, OneRunner, Queues, Handle, Steady, [Next]_vars
    PROVE  Handle'
<1> USE Starts DEF Records, NbioType, ImageType, OneRunner, Queues,
     Handle, AtMostOne, Threads, TaskPlaces, Decodes, ReadsFile
<1>1. ASSUME NEW i \in Images, AskImage(i) PROVE Handle'
  BY <1>1 DEF AskImage, Ask, PushImage, httpVars
<1>2. ASSUME NEW f \in Files, AskDownload(f) PROVE Handle'
  BY <1>2 DEF AskDownload, Ask, NameDownload, GoTo, imageVars
<1>3. CASE DownloadAsked
  BY <1>3 DEF DownloadAsked, PushDownload, GoTo, imageVars, runloopVars
<1>4. CASE PrepareDummy
  BY <1>4 DEF PrepareDummy, imageVars, httpVars
<1>5. CASE Toggle
  BY <1>5 DEF Toggle, imageVars, httpVars
<1>6. CASE IterateThread
  BY <1>6 DEF IterateThread, GoTo, imageVars, httpVars, runloopVars
<1>7. CASE ThreadInit
  BY <1>7 DEF ThreadInit, GoTo, imageVars, httpVars
<1>8. CASE IterateUpload /\ UploadEnter
  BY <1>8 DEF IterateUpload, UploadEnter, GoTo, imageVars, httpVars,
     runloopVars
<1>9. CASE IterateUpload /\ ImageUpload
  <2>1. CASE image.cb = "upload" /\ image.ok
    <3>1. /\ image' = [image EXCEPT !.status = "free", !.processing = FALSE,
                                    !.blocking = TRUE, !.finished = TRUE]
          /\ nbio' = [nbio EXCEPT !.finished = TRUE]
          /\ UNCHANGED <<fileQueue, imageQueue, pulled, session, asked>>
          /\ at["main"] = "uploading" /\ at' = [at EXCEPT !["main"] = "uploaded"]
      BY <1>9, <2>1 DEF IterateUpload, ImageUpload, GoTo, runloopVars
    <3>2. /\ image'.status = "free" /\ image'.blocking /\ image'.finished
          /\ image'.handle = image.handle /\ image'.of = image.of
          /\ nbio'.status = nbio.status /\ nbio'.file = nbio.file /\ nbio'.finished
      BY <3>1
    <3>3. /\ at'["main"] = "uploaded" /\ at'["data"] = at["data"]
      BY <3>1
    <3>4. QED
      BY <3>1, <3>2, <3>3
  <2>2. CASE ~ (image.cb = "upload" /\ image.ok)
    BY <1>9, <2>2 DEF IterateUpload, ImageUpload, GoTo, httpVars, runloopVars
  <2>3. QED
    BY <2>1, <2>2
<1>10. CASE IterateUpload /\ ImageFree
  BY <1>10 DEF IterateUpload, ImageFree, GoTo, httpVars, runloopVars
<1>11. CASE IterateUpload /\ ImageFreed
  BY <1>11 DEF IterateUpload, ImageFreed, GoTo, httpVars, runloopVars
<1>12. CASE IterateTasks
  BY <1>12 DEF IterateTasks, GoTo, imageVars, httpVars, runloopVars
<1>13. CASE ThreadStart
  BY <1>13 DEF ThreadStart, GoTo, imageVars, httpVars, runloopVars
<1>14. CASE SpuriousWakeup
  BY <1>14 DEF SpuriousWakeup, GoTo, imageVars, httpVars, runloopVars
<1>15. ASSUME NEW t \in Threads, FileTask(t) /\ FilePoll PROVE Handle'
  BY <1>15 DEF FileTask, FileIterate, FilePoll, GoTo, httpVars, runloopVars
<1>16. ASSUME NEW t \in Threads, NEW done \in BOOLEAN, FileTask(t) /\ FileTransfer(done)
       PROVE Handle'
  BY <1>16 DEF FileTask, FileIterate, FileTransfer, GoTo, httpVars,
     runloopVars
<1>17. ASSUME NEW t \in Threads, FileTask(t) /\ FileParse PROVE Handle'
  <2>1. PICK starts \in Outcomes("start") :
          /\ nbio' = [nbio EXCEPT !.status = "free", !.finished = starts]
          /\ Parsed(starts)
    BY <1>17 DEF FileParse, Parsed
  <2>2. starts = TRUE
    BY Starts
  <2>3. /\ nbio.status = "parse"
        /\ nbio' = [nbio EXCEPT !.status = "free", !.finished = TRUE]
        /\ UNCHANGED fileQueue
        /\ Parsed(TRUE)
    BY <1>17, <2>1, <2>2 DEF FileParse
  <2>4. /\ at[t] = "file" /\ at' = [at EXCEPT ![t] = "image"]
        /\ UNCHANGED session
    BY <1>17 DEF FileTask, FileIterate, GoTo, runloopVars
  <2>5. nbio'.status = "free" /\ nbio'.finished
    BY <2>3
  <2>6. image'.handle = "live" /\ image'.status = image.status
    BY <2>3 DEF Parsed
  <2>7. image.handle = "none"
    BY <2>3
  <2>8. image.status \notin {"parse", "process", "processed"}
    BY <2>7
  <2>9. image.status # "free"
    BY <2>3
  <2>10. QED
    BY <2>3, <2>4, <2>5, <2>6, <2>8, <2>9
<1>18. ASSUME NEW t \in Threads, FileTask(t) /\ FileFree PROVE Handle'
  BY <1>18 DEF FileTask, FileIterate, FileFree, GoTo, httpVars, runloopVars
<1>19. ASSUME NEW t \in Threads, ImageTask(t) /\ ImageEnter(t) PROVE Handle'
  BY <1>19 DEF ImageTask, ImageEnter, GoTo, httpVars, runloopVars
<1>20. ASSUME NEW t \in Threads, ImageTask(t) /\ ImagePulled(t) PROVE Handle'
  BY <1>20 DEF ImageTask, ImagePulled, GoTo, httpVars, runloopVars
<1>21. ASSUME NEW t \in Threads, ImageTask(t) /\ ImageRequested(t) PROVE Handle'
  BY <1>21 DEF ImageTask, ImageRequested, GoTo, httpVars, runloopVars
<1>22. ASSUME NEW t \in Threads, ImageTask(t) /\ ImageDecode(t) PROVE Handle'
  <2>1. /\ at[t] = "decoding" /\ at' = [at EXCEPT ![t] = "http"]
        /\ UNCHANGED <<nbio, fileQueue, session>>
    BY <1>22 DEF ImageTask, ImageDecode, GoTo, runloopVars
  <2>2. CASE ImageTransfer
    BY <2>1, <2>2 DEF ImageTransfer
  <2>3. CASE ImageParse
    BY <2>1, <2>3 DEF ImageParse
  <2>4. ASSUME NEW done \in BOOLEAN, ImageProcess(done) PROVE Handle'
    BY <2>1, <2>4 DEF ImageProcess
  <2>5. QED
    BY <1>22, <2>2, <2>3, <2>4 DEF ImageTask, ImageDecode
<1>23. ASSUME NEW t \in Threads, DownloadTask(t) PROVE Handle'
  BY <1>23 DEF DownloadTask, HttpStep, HttpPoll, HttpConnecting,
     HttpConnected, HttpTransfer, HttpParse, GoTo, imageVars, runloopVars
<1>24. CASE UNCHANGED vars
  BY <1>24 DEF vars, imageVars, httpVars, runloopVars
<1>25. QED
  BY <1>1, <1>2, <1>3, <1>4, <1>5, <1>6, <1>7, <1>8, <1>9, <1>10, <1>11,
     <1>12, <1>13, <1>14, <1>15, <1>16, <1>17, <1>18, <1>19, <1>20, <1>21,
     <1>22, <1>23, <1>24
     DEF Next, Menu, Iterate, IterateUpload, UploadIterate, Tasks,
        FileTask, FileIterate,
         ImageTask, ImageIterate, Threads

\* Only FileParse starts the reading, in the pass that ends it.
LEMMA BufferStep ==
    ASSUME Records, OneRunner, Handle, Buffer, Steady, [Next]_vars
    PROVE  Buffer'
<1> USE Starts DEF Records, NbioType, ImageType, OneRunner, Handle,
     Buffer, Threads, TaskPlaces, Decodes, ReadsFile
<1>1. ASSUME NEW i \in Images, AskImage(i) PROVE Buffer'
  BY <1>1 DEF AskImage, Ask, PushImage, httpVars
<1>2. ASSUME NEW f \in Files, AskDownload(f) PROVE Buffer'
  BY <1>2 DEF AskDownload, Ask, NameDownload, GoTo, imageVars
<1>3. CASE DownloadAsked
  BY <1>3 DEF DownloadAsked, PushDownload, GoTo, imageVars, runloopVars
<1>4. CASE PrepareDummy
  BY <1>4 DEF PrepareDummy, imageVars, httpVars
<1>5. CASE Toggle
  BY <1>5 DEF Toggle, imageVars, httpVars
<1>6. CASE IterateThread
  BY <1>6 DEF IterateThread, GoTo, imageVars, httpVars, runloopVars
<1>7. CASE ThreadInit
  BY <1>7 DEF ThreadInit, GoTo, imageVars, httpVars
<1>8. CASE IterateUpload /\ UploadEnter
  BY <1>8 DEF IterateUpload, UploadEnter, GoTo, imageVars, httpVars,
     runloopVars
<1>9. CASE IterateUpload /\ ImageUpload
  BY <1>9 DEF IterateUpload, ImageUpload, GoTo, httpVars, runloopVars
<1>10. CASE IterateUpload /\ ImageFree
  BY <1>10 DEF IterateUpload, ImageFree, GoTo, httpVars, runloopVars
<1>11. CASE IterateUpload /\ ImageFreed
  BY <1>11 DEF IterateUpload, ImageFreed, GoTo, httpVars, runloopVars
<1>12. CASE IterateTasks
  BY <1>12 DEF IterateTasks, GoTo, imageVars, httpVars, runloopVars
<1>13. CASE ThreadStart
  BY <1>13 DEF ThreadStart, GoTo, imageVars, httpVars, runloopVars
<1>14. CASE SpuriousWakeup
  BY <1>14 DEF SpuriousWakeup, GoTo, imageVars, httpVars, runloopVars
<1>15. ASSUME NEW t \in Threads, FileTask(t) /\ FilePoll PROVE Buffer'
  BY <1>15 DEF FileTask, FileIterate, FilePoll, GoTo, httpVars, runloopVars
<1>16. ASSUME NEW t \in Threads, NEW done \in BOOLEAN, FileTask(t) /\ FileTransfer(done)
       PROVE Buffer'
  BY <1>16 DEF FileTask, FileIterate, FileTransfer, GoTo, httpVars,
     runloopVars
<1>17. ASSUME NEW t \in Threads, FileTask(t) /\ FileParse PROVE Buffer'
  <2>1. PICK starts \in Outcomes("start") :
          /\ nbio' = [nbio EXCEPT !.status = "free", !.finished = starts]
          /\ Parsed(starts)
    BY <1>17 DEF FileParse, Parsed
  <2>2. starts = TRUE
    BY Starts
  <2>3. /\ nbio.status = "parse"
        /\ nbio'.status = "free" /\ nbio'.file = nbio.file
        /\ UNCHANGED <<fileQueue, imageQueue>>
    BY <1>17, <2>1, <2>2 DEF FileParse
  <2>4. /\ image'.status = image.status /\ image'.handle = "live"
        /\ image'.of = nbio.file /\ image'.increment
        /\ ~image'.blocking /\ ~image'.finished
    BY <2>1, <2>2 DEF Parsed
  <2>5. /\ at[t] = "file" /\ at' = [at EXCEPT ![t] = "image"]
        /\ UNCHANGED session
    BY <1>17 DEF FileTask, FileIterate, GoTo, runloopVars
  <2>6. QED
    BY <2>3, <2>4, <2>5
<1>18. ASSUME NEW t \in Threads, FileTask(t) /\ FileFree PROVE Buffer'
  BY <1>18 DEF FileTask, FileIterate, FileFree, GoTo, httpVars, runloopVars
<1>19. ASSUME NEW t \in Threads, ImageTask(t) /\ ImageEnter(t) PROVE Buffer'
  BY <1>19 DEF ImageTask, ImageEnter, GoTo, httpVars, runloopVars
<1>20. ASSUME NEW t \in Threads, ImageTask(t) /\ ImagePulled(t) PROVE Buffer'
  BY <1>20 DEF ImageTask, ImagePulled, GoTo, httpVars, runloopVars
<1>21. ASSUME NEW t \in Threads, ImageTask(t) /\ ImageRequested(t) PROVE Buffer'
  BY <1>21 DEF ImageTask, ImageRequested, GoTo, httpVars, runloopVars
<1>22. ASSUME NEW t \in Threads, ImageTask(t) /\ ImageDecode(t) PROVE Buffer'
  <2>1. image'.status # "transfer"
    BY <1>22 DEF ImageTask, ImageDecode, ImageTransfer, ImageParse,
       ImageProcess
  <2>2. QED
    BY <2>1
<1>23. ASSUME NEW t \in Threads, DownloadTask(t) PROVE Buffer'
  BY <1>23 DEF DownloadTask, HttpStep, HttpPoll, HttpConnecting,
     HttpConnected, HttpTransfer, HttpParse, GoTo, imageVars, runloopVars
<1>24. CASE UNCHANGED vars
  BY <1>24 DEF vars, imageVars, httpVars, runloopVars
<1>25. QED
  BY <1>1, <1>2, <1>3, <1>4, <1>5, <1>6, <1>7, <1>8, <1>9, <1>10, <1>11,
     <1>12, <1>13, <1>14, <1>15, <1>16, <1>17, <1>18, <1>19, <1>20, <1>21,
     <1>22, <1>23, <1>24
     DEF Next, Menu, Iterate, IterateUpload, UploadIterate, Tasks,
        FileTask, FileIterate,
         ImageTask, ImageIterate, Threads

\* One request at a time, from the poll of the queue to the end of the decoding.
LEMMA AloneStep ==
    ASSUME Records, OneRunner, Queues, Handle, Buffer, Orderly, Alone, Steady, [Next]_vars
    PROVE  Alone'
<1> USE Starts, SessionType DEF Records, NbioType, ImageType, OneRunner,
     Queues, Handle, Buffer, Orderly, Alone, OneImageAtATime, AtMostOne,
     Threads, TaskPlaces, Decodes, ReadsFile
<1>1. ASSUME NEW i \in Images, AskImage(i) PROVE Alone'
  BY <1>1 DEF AskImage, Ask, PushImage, httpVars
<1>2. ASSUME NEW f \in Files, AskDownload(f) PROVE Alone'
  BY <1>2 DEF AskDownload, Ask, NameDownload, GoTo, imageVars
<1>3. CASE DownloadAsked
  BY <1>3 DEF DownloadAsked, PushDownload, GoTo, imageVars, runloopVars
<1>4. CASE PrepareDummy
  BY <1>4 DEF PrepareDummy, imageVars, httpVars
<1>5. CASE Toggle
  BY <1>5 DEF Toggle, imageVars, httpVars
<1>6. CASE IterateThread
  BY <1>6 DEF IterateThread, GoTo, imageVars, httpVars, runloopVars
<1>7. CASE ThreadInit
  BY <1>7 DEF ThreadInit, GoTo, imageVars, httpVars
<1>8. CASE IterateUpload /\ UploadEnter
  BY <1>8 DEF IterateUpload, UploadEnter, GoTo, imageVars, httpVars,
     runloopVars
<1>9. CASE IterateUpload /\ ImageUpload
  <2>1. CASE image.cb = "upload" /\ image.ok
    <3>1. /\ image' = [image EXCEPT !.status = "free", !.processing = FALSE,
                                    !.blocking = TRUE, !.finished = TRUE]
          /\ nbio' = [nbio EXCEPT !.finished = TRUE]
          /\ UNCHANGED <<fileQueue, imageQueue, pulled, session, asked>>
          /\ at["main"] = "uploading" /\ at' = [at EXCEPT !["main"] = "uploaded"]
      BY <1>9, <2>1 DEF IterateUpload, ImageUpload, GoTo, runloopVars
    <3>2. /\ image'.status = "free" /\ image'.blocking /\ image'.finished
          /\ image'.handle = image.handle /\ image'.of = image.of
          /\ nbio'.status = nbio.status /\ nbio'.file = nbio.file /\ nbio'.finished
      BY <3>1
    <3>3. /\ at'["main"] = "uploaded" /\ at'["data"] = at["data"]
      BY <3>1
    <3>4. QED
      BY <3>1, <3>2, <3>3
  <2>2. CASE ~ (image.cb = "upload" /\ image.ok)
    BY <1>9, <2>2 DEF IterateUpload, ImageUpload, GoTo, httpVars, runloopVars
  <2>3. QED
    BY <2>1, <2>2
<1>10. CASE IterateUpload /\ ImageFree
  BY <1>10 DEF IterateUpload, ImageFree, GoTo, httpVars, runloopVars
<1>11. CASE IterateUpload /\ ImageFreed
  BY <1>11 DEF IterateUpload, ImageFreed, GoTo, httpVars, runloopVars
<1>12. CASE IterateTasks
  BY <1>12 DEF IterateTasks, GoTo, imageVars, httpVars, runloopVars
<1>13. CASE ThreadStart
  BY <1>13 DEF ThreadStart, GoTo, imageVars, httpVars, runloopVars
<1>14. CASE SpuriousWakeup
  BY <1>14 DEF SpuriousWakeup, GoTo, imageVars, httpVars, runloopVars
<1>15. ASSUME NEW t \in Threads, FileTask(t) /\ FilePoll PROVE Alone'
  BY <1>15 DEF FileTask, FileIterate, FilePoll, GoTo, httpVars, runloopVars
<1>16. ASSUME NEW t \in Threads, NEW done \in BOOLEAN, FileTask(t) /\ FileTransfer(done)
       PROVE Alone'
  BY <1>16 DEF FileTask, FileIterate, FileTransfer, GoTo, httpVars,
     runloopVars
<1>17. ASSUME NEW t \in Threads, FileTask(t) /\ FileParse PROVE Alone'
  <2>1. PICK starts \in Outcomes("start") :
          /\ nbio' = [nbio EXCEPT !.status = "free", !.finished = starts]
          /\ Parsed(starts)
    BY <1>17 DEF FileParse, Parsed
  <2>2. starts = TRUE
    BY Starts
  <2>3. /\ nbio.status = "parse"
        /\ nbio'.status = "free" /\ nbio'.file = nbio.file
        /\ UNCHANGED <<fileQueue, imageQueue>>
    BY <1>17, <2>1, <2>2 DEF FileParse
  <2>4. /\ image'.status = image.status /\ image'.handle = "live"
        /\ image'.of = nbio.file /\ image'.increment
        /\ ~image'.blocking /\ ~image'.finished
    BY <2>1, <2>2 DEF Parsed
  <2>5. /\ at[t] = "file" /\ at' = [at EXCEPT ![t] = "image"]
        /\ UNCHANGED session
    BY <1>17 DEF FileTask, FileIterate, GoTo, runloopVars
  <2>6. image.status = "transfer"
    BY <2>3, <2>5
  <2>7. QED
    BY <2>3, <2>4, <2>5, <2>6
<1>18. ASSUME NEW t \in Threads, FileTask(t) /\ FileFree PROVE Alone'
  BY <1>18 DEF FileTask, FileIterate, FileFree, GoTo, httpVars, runloopVars
<1>19. ASSUME NEW t \in Threads, ImageTask(t) /\ ImageEnter(t) PROVE Alone'
  BY <1>19 DEF ImageTask, ImageEnter, GoTo, httpVars, runloopVars
<1>20. ASSUME NEW t \in Threads, ImageTask(t) /\ ImagePulled(t) PROVE Alone'
  BY <1>20 DEF ImageTask, ImagePulled, GoTo, httpVars, runloopVars
<1>21. ASSUME NEW t \in Threads, ImageTask(t) /\ ImageRequested(t) PROVE Alone'
  BY <1>21 DEF ImageTask, ImageRequested, GoTo, httpVars, runloopVars
<1>22. ASSUME NEW t \in Threads, ImageTask(t) /\ ImageDecode(t) PROVE Alone'
  <2>1. /\ at[t] = "decoding" /\ at' = [at EXCEPT ![t] = "http"]
        /\ UNCHANGED <<nbio, fileQueue, imageQueue, session>>
    BY <1>22 DEF ImageTask, ImageDecode, GoTo, runloopVars
  <2>2. CASE ImageTransfer
    BY <2>1, <2>2 DEF ImageTransfer
  <2>3. CASE ImageParse
    BY <2>1, <2>3 DEF ImageParse
  <2>4. ASSUME NEW done \in BOOLEAN, ImageProcess(done) PROVE Alone'
    BY <2>1, <2>4 DEF ImageProcess
  <2>5. QED
    BY <1>22, <2>2, <2>3, <2>4 DEF ImageTask, ImageDecode
<1>23. ASSUME NEW t \in Threads, DownloadTask(t) PROVE Alone'
  BY <1>23 DEF DownloadTask, HttpStep, HttpPoll, HttpConnecting,
     HttpConnected, HttpTransfer, HttpParse, GoTo, imageVars, runloopVars
<1>24. CASE UNCHANGED vars
  BY <1>24 DEF vars, imageVars, httpVars, runloopVars
<1>25. QED
  BY <1>1, <1>2, <1>3, <1>4, <1>5, <1>6, <1>7, <1>8, <1>9, <1>10, <1>11,
     <1>12, <1>13, <1>14, <1>15, <1>16, <1>17, <1>18, <1>19, <1>20, <1>21,
     <1>22, <1>23, <1>24
     DEF Next, Menu, Iterate, IterateUpload, UploadIterate, Tasks,
        FileTask, FileIterate,
         ImageTask, ImageIterate, Threads

-----------------------------------------------------------------------------
\* Every step keeps the invariant, part by part.
LEMMA RunloopInductive ==
    ASSUME Steady, RunloopInv, [Next]_vars
    PROVE  RunloopInv'
<1> USE DEF RunloopInv
<1>1. Records' /\ OneRunner' /\ Queues'
  BY RecordsStep, RunnerStep, QueuesStep
<1>2. Handle' /\ Buffer'
  BY HandleStep, BufferStep
<1>3. Orderly' = Orderly
  BY DEF Next, vars, runloopVars, Menu, Iterate, Tasks, AskImage,
     AskDownload, DownloadAsked,
         PrepareDummy, Toggle, IterateThread, ThreadInit, IterateUpload, IterateTasks,
         ThreadStart, SpuriousWakeup, FileTask, ImageTask, DownloadTask, Orderly
<1>4. Orderly => Alone'
  BY AloneStep
<1>5. QED
  BY <1>1, <1>2, <1>3, <1>4

\* The invariant holds when the program starts.
LEMMA RunloopStarts ==
    ASSUME Init
    PROVE  RunloopInv
<1> USE DEF Init
<1>1. Records
  <2>1. nbio \in NbioType
    BY DEF InitImage, NbioType
  <2>2. image \in ImageType
    BY DEF InitImage, ImageType
  <2>3. http \in HttpType
    BY DEF InitHttp, HttpType
  <2>4. enabled \in BOOLEAN
    BY RunloopAssumption
  <2>5. QED
    BY <2>1, <2>2, <2>3, <2>4 DEF Records
<1>2. OneRunner
  <2>1. at \in [Threads -> MainPlaces \union DataPlaces]
    BY DEF Threads, MainPlaces, DataPlaces
  <2>2. at["main"] = "frame" /\ at["data"] = "none"
    OBVIOUS
  <2>3. QED
    BY <2>1, <2>2, RunloopAssumption DEF OneRunner, MainPlaces,
       DataPlaces, TaskPlaces
<1>3. /\ at["main"] = "frame" /\ at["data"] = "none"
      /\ nbio.status = "poll" /\ fileQueue = <<>> /\ imageQueue = <<>>
      /\ image.status = "poll" /\ image.handle = "none" /\ ~image.increment
  BY DEF InitImage
<1>4. Queues
  BY <1>3 DEF InitImage, InitHttp, Queues, AtMostOne, Threads
<1>5. Handle
  BY <1>3 DEF Handle, Threads
<1>6. Buffer
  BY <1>3 DEF Buffer, ReadsFile
<1>7. Alone
  BY <1>3 DEF Alone, OneImageAtATime, Threads
<1>8. QED
  BY <1>1, <1>2, <1>4, <1>5, <1>6, <1>7 DEF RunloopInv

(* The data runloop keeps its invariant, in every session in which the setting  *)
(* is left on once it is on and the decoder can be started.                     *)
THEOREM RunloopInvariant ==
    ASSUME Steady
    PROVE  Spec => []RunloopInv
<1>1. RunloopInv /\ [Next]_vars => RunloopInv'
  BY RunloopInductive
<1>2. QED
  BY <1>1, RunloopStarts, PTL DEF Spec

(* cb_image_menu_*, cb_nbio_generic and the image task read what another step     *)
(* left: the handle is live whenever one of them works on it, the decoder is      *)
(* done with the buffer before it is freed, and one image is loaded at a time.    *)
THEOREM DataIsThere ==
    ASSUME Steady
    PROVE  Spec => []DataInv
<1>1. RunloopInv => DataInv
  <2> SUFFICES ASSUME RunloopInv PROVE DataInv
    OBVIOUS
  <2> USE DEF RunloopInv
  <2>1. nbio \in NbioType /\ image \in ImageType /\ http \in HttpType
    BY DEF Records
  <2>2. Len(fileQueue) <= 1 /\ Len(imageQueue) <= 1 /\ Len(urlQueue) <= 1
    BY LengthOf DEF Queues
  <2>3. TypeOK
    <3>1. nbio.status \in {"poll", "transfer", "parse", "free"}
          /\ nbio.file \in Images \union {NoImage} /\ nbio.finished \in BOOLEAN
      BY <2>1 DEF NbioType
    <3>2. /\ image.status \in {"poll", "transfer", "parse", "process", "processed", "free"}
          /\ image.handle \in {"none", "live", "freed"}
      BY <2>1 DEF ImageType
    <3>3. http.status \in {"poll", "connecting", "connected", "transfer", "parse"}
      BY <2>1 DEF HttpType
    <3>4. http.handle = "open" => http.url \in Files
      BY DEF Queues
    <3>5. QED
      BY <2>2, <3>1, <3>2, <3>3, <3>4 DEF TypeOK, Records
  <2>4. HandleThere
    BY DEF HandleThere, Handle, Threads
  <2>5. BufferThere
    BY DEF BufferThere, Buffer
  <2>6. OneImageAtATime
    BY DEF Alone, OneImageAtATime
  <2>7. QED
    BY <2>3, <2>4, <2>5, <2>6 DEF DataInv
<1>2. QED
  BY <1>1, RunloopInvariant, PTL

(* The main thread converts, loads and frees an image without the lock           *)
(* (rarch_main_data_nbio_image_upload_iterate); the status keeps the task off.    *)
THEOREM PixelsStayAlone ==
    ASSUME Steady
    PROVE  Spec => []PixelsAlone
<1>1. RunloopInv => PixelsAlone
  BY DEF RunloopInv, PixelsAlone, Handle, Threads
<1>2. QED
  BY <1>1, RunloopInvariant, PTL

=============================================================================
