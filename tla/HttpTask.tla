------------------------------ MODULE HttpTask ------------------------------
(***************************************************************************)
(* Downloading (src/tasks/task_http.c over src/libretro-common/net/           *)
(* net_http.c): one transfer at a time, taken from a queue of URLs that the     *)
(* menu fills.  DataRunloop puts the component to work.                        *)
(*                                                                         *)
(* Abstractions.  A URL is the name of the file it leads to.  Connecting and    *)
(* receiving take any number of passes; the answer's contents, and its         *)
(* decoding (chunks, lengths), are left out.                                  *)
(***************************************************************************)
EXTENDS Naturals, Sequences

CONSTANTS
    Files,       \* what the menu may have downloaded
    HttpFaults   \* what may go wrong: "url", "connect", "transfer", "status"

NoFile == "no file"
ASSUME HttpAssumption == NoFile \notin Files

VARIABLES
    http,        \* status, the URL under way, the session's handle
    urlQueue,    \* http->msg_queue
    updaterPath, \* core_updater_path: what a download is to be called
    written,     \* the last download written, and the name it was given
    broken       \* history: a download could not be made

httpVars == <<http, urlQueue, updaterPath, written, broken>>

Goes(fault) == IF fault \in HttpFaults THEN {TRUE, FALSE} ELSE {TRUE}

\* rarch_main_data_http_init
InitHttp ==
    /\ http = [status |-> "poll", url |-> NoFile, handle |-> "none"]
    /\ urlQueue = <<>>
    /\ updaterPath = NoFile
    /\ written = [url |-> NoFile, name |-> NoFile]
    /\ broken = FALSE

\* action_ok_download_generic names the file, then asks for it.
NameDownload(f) ==
    /\ updaterPath' = f
    /\ UNCHANGED <<http, urlQueue, written, broken>>

PushDownload(f) ==
    /\ urlQueue' = <<f>>
    /\ UNCHANGED <<http, updaterPath, written, broken>>

-----------------------------------------------------------------------------
\* rarch_main_data_http_iterate_poll: a URL net_http does not know is dropped.
HttpPoll ==
    /\ http.status = "poll"
    /\ urlQueue' = <<>>
    /\ \E known \in Goes("url") :
         IF urlQueue # <<>> /\ http.handle = "none" /\ known
         THEN /\ http' = [http EXCEPT !.status = "connecting", !.url = Head(urlQueue)]
              /\ UNCHANGED broken
         ELSE UNCHANGED http /\ broken' = (broken \/ urlQueue # <<>>)
    /\ UNCHANGED <<updaterPath, written>>

\* net_http_connection_iterate looks at one more letter of the URL.
HttpConnecting(found) ==
    /\ http.status = "connecting"
    /\ http' = [http EXCEPT !.status = IF found THEN "connected" ELSE @]
    /\ UNCHANGED <<urlQueue, updaterPath, written, broken>>

\* Also without a session the next thing is to transfer.
HttpConnected ==
    /\ http.status = "connected"
    /\ \E connects \in Goes("connect") :
         /\ http' = [http EXCEPT !.status = "transfer",
                                 !.handle = IF connects THEN "open" ELSE "none"]
         /\ broken' = (broken \/ ~connects)
    /\ UNCHANGED <<urlQueue, updaterPath, written>>

\* net_http_update, which reports a session that broke as one that goes on.
HttpTransfer(done) ==
    /\ http.status = "transfer"
    /\ \E holds \in Goes("transfer") :
         LET open == http.handle = "open"
         IN /\ http' = [http EXCEPT
                          !.handle = IF open /\ ~holds THEN "broken" ELSE @,
                          !.status = IF open /\ holds /\ done THEN "parse" ELSE @]
            /\ broken' = (broken \/ (open /\ ~holds))
    /\ UNCHANGED <<urlQueue, updaterPath, written>>

\* The session is deleted, but still taken for one under way.
HttpParseMutant ==
    /\ http.status = "parse"
    /\ \E found \in Goes("status") :
         written' = IF found THEN [url |-> http.url, name |-> updaterPath] ELSE written
    /\ http' = [http EXCEPT !.status = "poll"]
    /\ urlQueue' = <<>>
    /\ UNCHANGED <<updaterPath, broken>>

\* rarch_main_data_http_iterate_transfer_parse: what waits is dropped.
HttpParse ==
    /\ http.status = "parse"
    /\ \E found \in Goes("status") :
         /\ written' = IF found THEN [url |-> http.url, name |-> updaterPath] ELSE written
         /\ broken' = (broken \/ ~found)
    /\ http' = [status |-> "poll", url |-> NoFile, handle |-> "none"]
    /\ urlQueue' = <<>>
    /\ UNCHANGED updaterPath

HttpStep ==
    \/ HttpPoll \/ HttpConnected \/ HttpParse
    \/ \E done \in BOOLEAN : HttpConnecting(done) \/ HttpTransfer(done)

=============================================================================
