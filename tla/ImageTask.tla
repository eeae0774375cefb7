----------------------------- MODULE ImageTask -----------------------------
(***************************************************************************)
(* Loading an image for the menu (src/tasks/task_file_transfer.c): a task     *)
(* that reads files, a task that decodes images out of what it read, and the   *)
(* main thread, which hands the finished image to the menu.  The threads      *)
(* share no lock: whose turn it is follows from the status of the image.       *)
(* DataRunloop puts the component to work.                                    *)
(*                                                                         *)
(* Abstractions.  An image is its path.  Reading a file and decoding an image  *)
(* take any number of passes.  Once a file is there the scan of its chunks      *)
(* takes one pass: it makes up to half as many turns as the file has bytes,    *)
(* and a chunk has twelve.                                                    *)
(***************************************************************************)
EXTENDS Naturals, Sequences

CONSTANTS
    Images,  \* the images the menu may ask for
    Faults   \* what may go wrong: "open", "start", "decode", "process", ...

NoImage == "no image"
ASSUME ImageAssumption == NoImage \notin Images

VARIABLES
    at,          \* where the threads "main" and "data" are
    nbio,        \* the file task: its status, the file held, is_finished
    image,       \* the image task: status, handle, flags, callback, result
    fileQueue,   \* nbio->msg_queue
    imageQueue,  \* nbio->image.msg_queue
    pulled,      \* what a poll of imageQueue returned
    shown,       \* the image the menu was given last
    failed       \* history: an image could not be loaded

imageVars == <<nbio, image, fileQueue, imageQueue, pulled, shown, failed>>

GoTo(t, place) == at' = [at EXCEPT ![t] = place]

\* What may break breaks or does not; the rest goes well.
Outcomes(fault) == IF fault \in Faults THEN {TRUE, FALSE} ELSE {TRUE}

\* rarch_main_data_nbio_init
InitImage ==
    /\ nbio = [status |-> "poll", file |-> NoImage, finished |-> FALSE]
    /\ image = [status |-> "poll", handle |-> "none", of |-> NoImage, blocking |-> FALSE,
                processing |-> FALSE, finished |-> FALSE, increment |-> FALSE,
                cb |-> "none", ok |-> TRUE]
    /\ fileQueue = <<>> /\ imageQueue = <<>> /\ pulled = <<>>
    /\ shown = NoImage /\ failed = FALSE

\* rarch_main_data_msg_queue_push: every caller has what still waits dropped.
PushImage(i) ==
    /\ imageQueue' = <<i>>
    /\ UNCHANGED <<nbio, image, fileQueue, pulled, shown, failed>>

-----------------------------------------------------------------------------
(* The file task: rarch_main_data_nbio_iterate.                                *)

\* What is pulled is lost while a file is held, or when it cannot be opened.
FilePoll ==
    /\ nbio.status = "poll"
    /\ fileQueue' = <<>>
    /\ \E opens \in Outcomes("open") :
         IF fileQueue # <<>> /\ nbio.file = NoImage /\ opens
         THEN /\ nbio' = [status |-> "transfer", file |-> Head(fileQueue), finished |-> FALSE]
              /\ UNCHANGED failed
         ELSE UNCHANGED nbio /\ failed' = (failed \/ fileQueue # <<>>)
    /\ UNCHANGED <<image, imageQueue, pulled, shown>>

FileTransfer(done) ==
    /\ nbio.status = "transfer"
    /\ nbio' = [nbio EXCEPT !.status = IF done /\ ~nbio.finished THEN "parse" ELSE @]
    /\ UNCHANGED <<image, fileQueue, imageQueue, pulled, shown, failed>>

\* The file is let go as soon as the decoder was told of it.
FileParseMutant ==
    /\ nbio.status = "parse"
    /\ nbio' = [status |-> "poll", file |-> NoImage, finished |-> FALSE]
    /\ image' = [image EXCEPT
                   !.handle = "live", !.of = nbio.file, !.cb = "decoded", !.increment = TRUE,
                   !.blocking = FALSE, !.finished = FALSE]
    /\ UNCHANGED <<fileQueue, imageQueue, pulled, shown, failed>>

\* cb_nbio_image_menu_*: the image may be decoded from now on.
FileParse ==
    /\ nbio.status = "parse"
    /\ \E starts \in Outcomes("start") :
         /\ nbio' = [nbio EXCEPT !.status = "free", !.finished = starts]
         /\ image' = [image EXCEPT
                        !.handle = IF starts THEN "live" ELSE "freed",
                        !.of = nbio.file, !.cb = "decoded", !.increment = TRUE,
                        !.blocking = @ /\ ~starts, !.finished = @ /\ ~starts]
         /\ failed' = (failed \/ ~starts)
    /\ UNCHANGED <<fileQueue, imageQueue, pulled, shown>>

FileFree ==
    /\ nbio.status = "free"
    /\ IF nbio.finished
       THEN /\ nbio' = [status |-> "poll", file |-> NoImage, finished |-> FALSE]
            /\ fileQueue' = <<>>
       ELSE nbio' = [nbio EXCEPT !.status = "poll"] /\ UNCHANGED fileQueue
    /\ UNCHANGED <<image, imageQueue, pulled, shown, failed>>

FileIterate(t) ==
    /\ at[t] = "file" /\ GoTo(t, "image")
    /\ FilePoll \/ (\E done \in BOOLEAN : FileTransfer(done)) \/ FileParse \/ FileFree

-----------------------------------------------------------------------------
(* The image task: rarch_main_data_nbio_image_iterate.                         *)

\* It decodes what the file task has read, while that still holds it.
ReadsFile == /\ image.status = "transfer" /\ ~image.blocking
             /\ ~image.finished /\ image.increment

Decodes == ReadsFile \/ image.status \in {"parse", "process"}

\* The statuses of the main thread are worked on here, too.
ImageEnterMutant(t) ==
    /\ at[t] = "image"
    /\ IF image.status = "poll" /\ imageQueue # <<>>
       THEN GoTo(t, "pulled") /\ pulled' = imageQueue /\ imageQueue' = <<>>
       ELSE GoTo(t, IF image.status # "poll" THEN "decoding" ELSE "http")
            /\ UNCHANGED <<pulled, imageQueue>>
    /\ UNCHANGED <<nbio, image, fileQueue, shown, failed>>

\* The statuses of the main thread count as "poll" here (default).
ImageEnter(t) ==
    /\ at[t] = "image"
    /\ \/ Decodes /\ GoTo(t, "decoding") /\ UNCHANGED <<imageQueue, pulled>>
       \/ /\ image.status = "transfer" /\ ~ReadsFile
          /\ GoTo(t, "http") /\ UNCHANGED <<imageQueue, pulled>>
       \/ /\ image.status \in {"poll", "processed", "free"}
          /\ pulled' = imageQueue /\ imageQueue' = <<>>
          /\ GoTo(t, IF imageQueue = <<>> THEN "http" ELSE "pulled")
    /\ UNCHANGED <<nbio, image, fileQueue, shown, failed>>

\* "Can only deal with one image transfer at a time for now"
ImagePulled(t) ==
    /\ at[t] = "pulled"
    /\ IF image.handle = "none"
       THEN GoTo(t, "requested") /\ fileQueue' = pulled
       ELSE GoTo(t, "http") /\ UNCHANGED fileQueue
    /\ pulled' = <<>>
    /\ UNCHANGED <<nbio, image, imageQueue, shown, failed>>

ImageRequested(t) ==
    /\ at[t] = "requested" /\ GoTo(t, "http")
    /\ image' = [image EXCEPT !.status = "transfer"]
    /\ UNCHANGED <<nbio, fileQueue, imageQueue, pulled, shown, failed>>

ImageTransfer ==
    /\ image.status = "transfer"
    /\ \E whole \in Outcomes("decode") :
         /\ image' = [image EXCEPT !.status = "parse", !.ok = whole]
         /\ failed' = (failed \/ ~whole)

\* cb_image_menu_*: where chunks are missing this is tried for ever.
ImageParse ==
    /\ image.status = "parse"
    /\ image' = IF image.ok
                THEN [image EXCEPT !.status = "process", !.processing = TRUE,
                                   !.finished = FALSE, !.cb = "upload"]
                ELSE image
    /\ UNCHANGED failed

\* The status passes the pixels on, last of all.
ImageProcess(done) ==
    /\ image.status = "process"
    /\ \E good \in Outcomes("process") :
         /\ image' = IF done THEN [image EXCEPT !.status = "processed", !.ok = good] ELSE image
         /\ failed' = (failed \/ (done /\ ~good))

ImageDecode(t) ==
    /\ at[t] = "decoding" /\ GoTo(t, "http")
    /\ ImageTransfer \/ ImageParse \/ (\E done \in BOOLEAN : ImageProcess(done))
    /\ UNCHANGED <<nbio, fileQueue, imageQueue, pulled, shown>>

ImageIterate(t) == ImageEnter(t) \/ ImagePulled(t) \/ ImageRequested(t) \/ ImageDecode(t)

-----------------------------------------------------------------------------
(* The main thread: rarch_main_data_nbio_image_upload_iterate.                 *)

UploadEnter ==
    /\ at["main"] = "upload"
    /\ GoTo("main", CASE image.status = "processed" -> "uploading"
                      [] image.status = "free" -> "freeing"
                      [] OTHER -> "uploaded")
    /\ UNCHANGED imageVars

\* cb_image_menu_*_upload, tried for ever where decoding went wrong.
ImageUpload ==
    /\ at["main"] = "uploading" /\ GoTo("main", "uploaded")
    /\ IF image.cb = "upload" /\ image.ok
       THEN /\ image' = [image EXCEPT !.status = "free", !.processing = FALSE,
                                      !.blocking = TRUE, !.finished = TRUE]
            /\ nbio' = [nbio EXCEPT !.finished = TRUE]
            /\ shown' = image.of
       ELSE UNCHANGED <<image, nbio, shown>>
    /\ UNCHANGED <<fileQueue, imageQueue, pulled, failed>>

\* The handle is freed and kept.
ImageFreeMutant ==
    /\ at["main"] = "freeing" /\ GoTo("main", "freed")
    /\ image' = [image EXCEPT !.handle = "freed"]
    /\ imageQueue' = <<>>
    /\ UNCHANGED <<nbio, fileQueue, pulled, shown, failed>>

\* rarch_main_data_image_iterate_parse_free: what waits is dropped.
ImageFree ==
    /\ at["main"] = "freeing" /\ GoTo("main", "freed")
    /\ image' = [image EXCEPT !.handle = "none"]
    /\ imageQueue' = <<>>
    /\ UNCHANGED <<nbio, fileQueue, pulled, shown, failed>>

ImageFreed ==
    /\ at["main"] = "freed" /\ GoTo("main", "uploaded")
    /\ image' = [image EXCEPT !.status = "poll"]
    /\ UNCHANGED <<nbio, fileQueue, imageQueue, pulled, shown, failed>>

UploadIterate == UploadEnter \/ ImageUpload \/ ImageFree \/ ImageFreed

=============================================================================
