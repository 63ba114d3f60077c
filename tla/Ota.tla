-------------------------------- MODULE Ota --------------------------------
(***************************************************************************)
(* Updating the firmware from the web page: the request handler that       *)
(* writes the image it receives to flash, the monitor task it reports to,  *)
(* the one-shot timer that restarts the device, the handler that answers   *)
(* the page's questions, the page, and the boot loader.                    *)
(*                                                                         *)
(*   handler   http_server_OTA_update_handler, in the HTTP server task     *)
(*   status    http_server_OTA_status_handler, in the same task            *)
(*   monitor   http_server_monitor, a task of lower priority that reads    *)
(*             a queue of QueueSize messages                               *)
(*   timer     fw_update_reset, served by the timer task of the system     *)
(*   page      webpage/app.js, in a browser                                *)
(*                                                                         *)
(* The HTTP server is one task: while an upload is handled, questions of   *)
(* the page wait.  The flash, the image verification (esp_ota_end,         *)
(* esp_ota_set_boot_partition), the restart and the boot loader are the    *)
(* platform's; they are modelled from how this code uses them.  The power  *)
(* may fail at any time.                                                   *)
(***************************************************************************)
EXTENDS Naturals, Sequences

CONSTANTS Image,        \* complete, bootable firmware images
          FactoryImage, \* the image the device was delivered with
          Broken,       \* what an erased or partly written partition holds
          NoImage,      \* stands for "none" where an image may be named
          Chunks,       \* number of pieces a request body arrives in
          QueueSize,    \* length of the monitor's queue
          MaxEvents,    \* progress events the page raises in one upload
          MaxLeaks      \* bound of the OTA handles left open by failures

ASSUME OtaAssumption ==
  /\ FactoryImage \in Image
  /\ Broken \notin Image
  /\ NoImage \notin Image \union {Broken}
  /\ Chunks \in Nat \ {0}
  /\ QueueSize \in Nat \ {0}
  /\ MaxEvents \in Nat
  /\ MaxLeaks \in Nat

VARIABLES
  flash,     \* what each application partition holds
  boot,      \* the partition the OTA data select for the next boot
  running,   \* the partition the running image was loaded from
  pc,        \* where the update handler is; "idle" between requests
  recvLen,   \* recv_len: what the last httpd_req_recv returned
  begun,     \* is_req_body_started; the OTA handle is set from then on
  content,   \* the file in the request body: an image, or Broken
  left,      \* pieces of the request body still to come
  leaked,    \* OTA handles opened and never closed
  queue,     \* http_server_monitor_queue
  monitor,   \* where the monitor task is
  status,    \* g_fw_update_status
  armed,     \* a reset timer is running
  events,    \* progress events the page has still to raise
  asked,     \* a question of the page waits for an answer
  page,      \* what the page shows
  promised,  \* history: the image last reported as installed
  erased     \* history: an update partition was erased since that report

flashVars  == <<flash, boot, running>>
uploadVars == <<pc, recvLen, begun, content, left, leaked>>
statusVars == <<queue, monitor, status, armed>>
pageVars   == <<events, asked, page>>
historyVars == <<promised, erased>>
vars == <<flashVars, uploadVars, statusVars, pageVars, historyVars>>

Partition == {"ota_0", "ota_1"}

PENDING    == "OTA_UPDATE_PENDING"
SUCCESSFUL == "OTA_UPDATE_SUCCESSFUL"
FAILED     == "OTA_UPDATE_FAILED"

FlashTypeOK == /\ flash \in [Partition -> Image \union {Broken}]
               /\ boot \in Partition
               /\ running \in Partition
               /\ promised \in Image \union {NoImage}
               /\ erased \in BOOLEAN

UploadTypeOK ==
  /\ pc \in {"idle", "receive", "test", "end", "set_boot", "success", "failure"}
  /\ recvLen \in {"none", "data", "zero", "timeout"}
  /\ begun \in BOOLEAN
  /\ content \in Image \union {Broken}
  /\ left \in 0 .. Chunks
  /\ leaked \in 0 .. MaxLeaks

StatusTypeOK == /\ queue \in Seq({SUCCESSFUL, FAILED})
                /\ Len(queue) <= QueueSize
                /\ monitor \in {"wait", "set_timer"}
                /\ status \in {PENDING, SUCCESSFUL, FAILED}
                /\ armed \in BOOLEAN

PageTypeOK == /\ events \in 0 .. MaxEvents
              /\ asked \in BOOLEAN
              /\ page \in {"form", "uploading", "complete", "error"}

\* Every variable has its type, and the queue is never longer than it can be.
TypeOK == FlashTypeOK /\ UploadTypeOK /\ StatusTypeOK /\ PageTypeOK

Other(p) == CHOOSE q \in Partition : q # p

\* Mutant: the partition after the one selected for the next boot.
AfterBootPartition == Other(boot)
\* esp_ota_get_next_update_partition(NULL): the partition that is not running.
UpdatePartition == Other(running)

Init == /\ flash = [p \in Partition |-> IF p = "ota_0" THEN FactoryImage ELSE Broken]
        /\ boot = "ota_0" /\ running = "ota_0"
        /\ pc = "idle" /\ recvLen = "none" /\ begun = FALSE
        /\ content = Broken /\ left = 0 /\ leaked = 0
        /\ queue = <<>> /\ monitor = "wait" /\ status = PENDING /\ armed = FALSE
        /\ events = 0 /\ asked = FALSE /\ page = "form"
        /\ promised = NoImage /\ erased = FALSE
-----------------------------------------------------------------------------
(***************************************************************************)
(* The update handler.                                                     *)
(***************************************************************************)

\* The HTTP server takes the request up.
Accept ==
  /\ pc = "idle" /\ left > 0
  /\ pc' = "receive" /\ recvLen' = "none" /\ begun' = FALSE
  /\ UNCHANGED <<flashVars, content, left, leaked, statusVars, pageVars, historyVars>>

\* The first piece of data: esp_ota_begin erases the update partition.  It may
\* fail before it has, or in the middle of it; the handler then returns without a
\* word to the monitor.
BeginFails ==
  /\ pc = "receive" /\ left > 0 /\ ~begun
  /\ \/ UNCHANGED <<flash, erased>>
     \/ flash' = [flash EXCEPT ![UpdatePartition] = Broken] /\ erased' = TRUE
  /\ pc' = "idle" /\ left' = 0
  /\ UNCHANGED <<boot, running, recvLen, begun, content, leaked, statusVars, pageVars, promised>>

\* A piece of data: the partition holds the image once the last one is written.
\* The result of esp_ota_write is not looked at, and it may have failed.
Receive ==
  /\ pc = "receive" /\ left > 0
  /\ begun' = TRUE
  /\ left' = left - 1
  /\ \E c \in {content, Broken} :
       /\ content' = c
       /\ flash' = [flash EXCEPT ![UpdatePartition] = IF left = 1 THEN c ELSE Broken]
  /\ erased' = TRUE
  /\ recvLen' = "data" /\ pc' = "test"
  /\ UNCHANGED <<boot, running, leaked, statusVars, pageVars, promised>>

\* Nothing is left of the body, or the browser has closed the connection.
ReceiveNothing ==
  /\ pc = "receive" /\ begun
  /\ recvLen' = "zero" /\ pc' = "test"
  /\ UNCHANGED <<flashVars, begun, content, left, leaked, statusVars, pageVars, historyVars>>

\* Nothing has come for recv_wait_timeout seconds: continue.
ReceiveTimeout ==
  /\ pc = "receive" /\ left > 0
  /\ recvLen' = "timeout" /\ pc' = "test"
  /\ UNCHANGED <<flashVars, begun, content, left, leaked, statusVars, pageVars, historyVars>>

\* Any other error: the handler returns.  It neither closes the OTA handle nor
\* tells the monitor.
ReceiveError ==
  /\ pc = "receive"
  /\ leaked' = IF begun /\ leaked < MaxLeaks THEN leaked + 1 ELSE leaked
  /\ pc' = "idle" /\ left' = 0
  /\ UNCHANGED <<flashVars, recvLen, begun, content, statusVars, pageVars, historyVars>>

\* Mutant: a timeout is retried as often as it happens.
GoesOnAfterTimeout == recvLen # "zero"
\* while (recv_len > 0 && content_received < content_length).  The length of
\* the form around the file is counted in the latter and not in the former, so
\* it is the former condition that ends the loop.
GoesOn == recvLen = "data"

\* The end of the loop body, where a continue leads as well.
Test ==
  /\ pc = "test"
  /\ pc' = IF GoesOn THEN "receive" ELSE "end"
  /\ UNCHANGED <<flashVars, recvLen, begun, content, left, leaked, statusVars, pageVars, historyVars>>

\* esp_ota_end closes the handle and verifies the image.  Before the first data
\* the handle has no value yet: it may name a handle that was leaked, or none.
End ==
  /\ pc = "end"
  /\ \/ /\ begun
        /\ pc' = IF flash[UpdatePartition] # Broken THEN "set_boot" ELSE "failure"
        /\ UNCHANGED leaked
     \/ /\ ~begun /\ leaked > 0
        /\ pc' = IF flash[UpdatePartition] # Broken THEN "set_boot" ELSE "failure"
        /\ leaked' = leaked - 1
     \/ /\ ~begun
        /\ pc' = "failure"
        /\ UNCHANGED leaked
  /\ UNCHANGED <<flashVars, recvLen, begun, content, left, statusVars, pageVars, historyVars>>

\* Mutant: the result of esp_ota_set_boot_partition is not looked at.
FlashSuccessfulAnyway(written) == "success"
\* flash_successful, from the result of esp_ota_set_boot_partition.
FlashSuccessful(written) == IF written THEN "success" ELSE "failure"

\* esp_ota_set_boot_partition, which may fail to write the OTA data.
SetBoot ==
  /\ pc = "set_boot"
  /\ \E written \in BOOLEAN :
       /\ boot' = IF written THEN UpdatePartition ELSE boot
       /\ pc' = FlashSuccessful(written)
  /\ UNCHANGED <<flash, running, recvLen, begun, content, left, leaked, statusVars, pageVars,
                 historyVars>>

\* Mutant: the message does not depend on the outcome.
GoodNews == SUCCESSFUL
\* The message for the monitor.
Message == IF pc = "success" THEN SUCCESSFUL ELSE FAILED

\* Mutant: the message is queued without waiting.
NoWait == TRUE
\* xQueueSend waits for room in the queue, however long that takes.
QueueHasRoom == Len(queue) < QueueSize

Report ==
  /\ pc \in {"success", "failure"}
  /\ QueueHasRoom
  /\ queue' = Append(queue, Message)
  /\ \/ pc = "success" /\ promised' = flash[UpdatePartition] /\ erased' = FALSE
     \/ pc = "failure" /\ UNCHANGED historyVars
  /\ pc' = "idle" /\ left' = 0
  /\ UNCHANGED <<flashVars, recvLen, begun, content, leaked, monitor, status, armed, pageVars>>
-----------------------------------------------------------------------------
(***************************************************************************)
(* The monitor task and the timer.                                         *)
(***************************************************************************)
MonitorReceive ==
  /\ monitor = "wait"
  /\ queue # <<>>
  /\ status' = Head(queue)
  /\ queue' = Tail(queue)
  /\ monitor' = IF Head(queue) = SUCCESSFUL THEN "set_timer" ELSE "wait"
  /\ UNCHANGED <<flashVars, uploadVars, armed, pageVars, historyVars>>

\* Mutant: the test of the status is the wrong way round.
ResetUndue == status # SUCCESSFUL
ResetDue == status = SUCCESSFUL

\* http_server_fw_update_reset_timer.  Every success starts a timer of its own;
\* the first to expire restarts the device.
SetTimer ==
  /\ monitor = "set_timer"
  /\ armed' = (armed \/ ResetDue)
  /\ monitor' = "wait"
  /\ UNCHANGED <<flashVars, uploadVars, queue, status, pageVars, historyVars>>
-----------------------------------------------------------------------------
(***************************************************************************)
(* The page.                                                               *)
(***************************************************************************)

\* btnUpdate: the page posts a file, complete or not.
Post(c) ==
  /\ pc = "idle" /\ left = 0
  /\ content' = c /\ left' = Chunks
  /\ page' = "uploading" /\ events' = MaxEvents
  /\ UNCHANGED <<flashVars, pc, recvLen, begun, leaked, statusVars, asked, historyVars>>

\* updateProgress: the page asks for the status whenever the browser reports
\* that some more of the file was sent, and at no other time.
Progress ==
  /\ events > 0
  /\ events' = events - 1
  /\ asked' = TRUE
  /\ UNCHANGED <<flashVars, uploadVars, statusVars, page, historyVars>>

\* The HTTP server task has come back from the update handler.
CanAnswer == pc = "idle"

\* http_server_OTA_status_handler, and getUpdateStatus on its answer.
Answer ==
  /\ asked /\ CanAnswer
  /\ asked' = FALSE
  /\ page' = CASE status = SUCCESSFUL -> "complete"
               [] status = FAILED     -> "error"
               [] OTHER               -> page
  /\ UNCHANGED <<flashVars, uploadVars, statusVars, events, historyVars>>

\* The user loads the page again, or the page itself does after a count-down.
Reload ==
  /\ page' = "form" /\ events' = 0 /\ asked' = FALSE
  /\ UNCHANGED <<flashVars, uploadVars, statusVars, historyVars>>
-----------------------------------------------------------------------------
(***************************************************************************)
(* Starting the device.                                                    *)
(***************************************************************************)

\* The boot loader takes the selected partition if it holds an image, else the
\* other one.  It leaves the OTA data alone.
BootFrom(f) == IF f[boot] # Broken THEN boot ELSE Other(boot)

\* Everything in memory is lost, and the browser's connections with it.
Forget ==
  /\ pc' = "idle" /\ recvLen' = "none" /\ begun' = FALSE
  /\ content' = Broken /\ left' = 0 /\ leaked' = 0
  /\ queue' = <<>> /\ monitor' = "wait" /\ status' = PENDING /\ armed' = FALSE
  /\ asked' = FALSE /\ events' = 0

Restart == /\ running' = BootFrom(flash)
           /\ Forget
           /\ UNCHANGED <<flash, boot, page, historyVars>>

\* http_server_fw_update_reset_callback, in a task of its own: the handler may
\* be anywhere.
TimerExpires == armed /\ Restart

\* The first piece lacks the blank line that ends the form's header, or is
\* empty: strstr finds nothing.  The partition is erased, and esp_ota_write is
\* given an address and a length that make no sense: the device panics.
NoBlankLine ==
  /\ pc = "receive" /\ left > 0 /\ ~begun
  /\ flash' = [flash EXCEPT ![UpdatePartition] = Broken]
  /\ running' = BootFrom(flash')
  /\ erased' = TRUE
  /\ Forget
  /\ UNCHANGED <<boot, page, promised>>

\* The power fails and returns.
PowerCycle == Restart

Handler == \/ Accept \/ BeginFails \/ Receive \/ ReceiveNothing \/ ReceiveTimeout
           \/ ReceiveError \/ Test \/ End \/ SetBoot \/ Report
Monitor == MonitorReceive \/ SetTimer

Next == \/ \E c \in Image \union {Broken} : Post(c)
        \/ Handler
        \/ Monitor
        \/ TimerExpires
        \/ Progress \/ Answer \/ Reload
        \/ NoBlankLine \/ PowerCycle

Spec == Init /\ [][Next]_vars

\* What the code's scheduling gives: httpd_req_recv returns within its timeout,
\* the tasks run, a timer that was started expires.  The HTTP server goes round
\* all its connections, so that an upload after the other cannot keep a question
\* waiting for ever.  Nothing makes the user post, ask or reload.
Fairness == /\ WF_vars(Handler)
            /\ WF_vars(Monitor)
            /\ WF_vars(TimerExpires)
            /\ SF_vars(Answer)

FairSpec == Spec /\ Fairness
-----------------------------------------------------------------------------
\* Whatever is uploaded, however it fails and whenever the power fails, the
\* partition the device runs from holds a complete image: an upload never
\* touches it, and a restart never leaves the device without one.
RunningIsIntact == flash[running] # Broken

\* A success that the page may be told of is never about the image already
\* running: until the restart, the partition selected for the next boot is the
\* other one, even while further uploads come and fail.
SuccessAwaitsRestart ==
  status = SUCCESSFUL \/ (\E i \in DOMAIN queue : queue[i] = SUCCESSFUL) => boot # running

\* The restart that a reported success has set off runs the very image that was
\* reported, unless the update partition has been erased since the report; what
\* an upload that came in between leaves of the new image is then not promised.
RestartRunsPromised ==
  [][armed /\ ~armed' => flash'[running'] = promised' \/ erased']_vars

\* The page is told to count down only to a restart that is on its way, from a
\* partition that is not running yet and that holds the image reported, unless
\* an update partition has been erased since: the page cannot see that.
CountDownIsToRestart ==
  [][page # "complete" /\ page' = "complete" =>
       /\ boot # running /\ (armed \/ monitor = "set_timer")
       /\ flash[boot] = promised \/ erased]_vars

\* The steps that lead to a success have been taken: the image is verified
\* before its partition is selected, and selected before it is reported.
StepsTaken == /\ pc = "set_boot" => flash[UpdatePartition] # Broken
              /\ pc = "success" => boot = UpdatePartition /\ flash[boot] # Broken

\* From the report of a success to the restart, the partition selected is not the
\* running one and holds the image reported, or was erased since.
SuccessIsKept ==
  status = SUCCESSFUL \/ armed \/ (\E i \in DOMAIN queue : queue[i] = SUCCESSFUL) =>
    boot # running /\ (flash[boot] = promised \/ erased)

SuccessIsTimed == status = SUCCESSFUL => armed \/ monitor = "set_timer"

\* What every step preserves.
IInv == /\ TypeOK
        /\ RunningIsIntact
        /\ StepsTaken
        /\ SuccessIsKept
        /\ SuccessIsTimed

\* A reported success leads to a restart, whatever is uploaded in between.
SuccessRestarts == status = SUCCESSFUL ~> status = PENDING

\* An upload always comes to an end, also when the browser goes silent.
UploadEnds == pc # "idle" ~> pc = "idle"

\* The page's question is answered, or lost with a restart or a reload.
QuestionAnswered == asked ~> ~asked

\* http_server.c:264 "Retry receiving if timeout occurred": after a timeout the
\* handler receives again.
TimeoutIsRetried == [][pc = "test" /\ recvLen = "timeout" => pc' \in {"receive", "idle"}]_vars
=============================================================================
