------------------------------ MODULE OtaProofs ------------------------------
(***************************************************************************)
(* Theorems about the firmware update, for every set of images, every      *)
(* number of pieces an upload arrives in and every length of the queue.    *)
(***************************************************************************)
EXTENDS Ota, TLAPS

\* There are two partitions.
LEMMA OtherPartition ==
  /\ Other("ota_0") = "ota_1" /\ Other("ota_1") = "ota_0"
  /\ \A p \in Partition : Other(p) \in Partition /\ Other(p) # p
                          /\ \A q \in Partition : q = p \/ q = Other(p)
<1>1. Other("ota_0") = "ota_1" /\ Other("ota_1") = "ota_0"
  BY DEF Other, Partition
<1> QED
  BY <1>1 DEF Partition

\* The boot loader finds a complete image whenever the device was running one.
LEMMA BootLoaderFindsImage ==
  ASSUME NEW f, boot \in Partition, NEW p \in Partition, f[p] # Broken
  PROVE  /\ BootFrom(f) \in Partition
         /\ f[BootFrom(f)] # Broken
         /\ f[boot] # Broken => BootFrom(f) = boot
BY OtherPartition DEF BootFrom
-----------------------------------------------------------------------------
\* The steps that change what is in flash, what is selected, what runs or what
\* was promised, and what else they do to it.
LEMMA FlashSteps ==
  ASSUME [Next]_vars
  PROVE  UNCHANGED <<flashVars, historyVars>> \/ BeginFails \/ Receive \/ SetBoot
         \/ Report \/ Restart \/ NoBlankLine
BY DEF Next, Post, Handler, Accept, ReceiveNothing, ReceiveTimeout,
       ReceiveError, Test, End, Monitor, MonitorReceive, SetTimer, TimerExpires,
       Progress, Answer, Reload, PowerCycle, vars

\* The types of the flash, the boot selection and the promise are preserved, and
\* so is the intact running image.
LEMMA FlashStep ==
  ASSUME IInv, [Next]_vars
  PROVE  FlashTypeOK' /\ RunningIsIntact'
<1> USE OtaAssumption, OtherPartition
        DEF IInv, TypeOK, FlashTypeOK, RunningIsIntact
<1>0. UpdatePartition \in Partition /\ UpdatePartition # running
      /\ (boot = running \/ boot = UpdatePartition)
  BY DEF UpdatePartition
<1>1. CASE UNCHANGED <<flashVars, historyVars>>
  BY <1>1 DEF flashVars, historyVars
<1>2. CASE Receive \/ BeginFails
  <2>1. /\ flash' \in [Partition -> Image \union {Broken}]
        /\ boot' = boot /\ running' = running
        /\ \A p \in Partition : p # UpdatePartition => flash'[p] = flash[p]
    BY <1>0, <1>2 DEF Receive, BeginFails, UploadTypeOK
  <2>2. promised' = promised
    BY <1>2 DEF Receive, BeginFails
  <2>3. erased' \in BOOLEAN
    BY <1>2 DEF Receive, BeginFails
  <2> QED
    BY <1>0, <2>1, <2>2, <2>3
<1>3. CASE SetBoot
  BY <1>0, <1>3 DEF SetBoot, historyVars
<1>4. CASE Report
  <2>1. flash' = flash /\ boot' = boot /\ running' = running
    BY <1>4 DEF Report, flashVars
  <2>2. CASE pc = "success"
    <3>1. promised' = flash[UpdatePartition] /\ erased' = FALSE /\ boot = UpdatePartition
          /\ flash[boot] # Broken
      BY <1>4, <2>2 DEF Report, StepsTaken
    <3> QED
      BY <2>1, <3>1
  <2>3. CASE pc # "success"
    BY <1>4, <2>1, <2>3 DEF Report, historyVars
  <2> QED
    BY <2>2, <2>3
<1>5. CASE Restart
  <2>1. /\ flash' = flash /\ boot' = boot /\ running' = BootFrom(flash)
        /\ promised' = promised /\ erased' = erased
    BY <1>5 DEF Restart, historyVars
  <2>2. BootFrom(flash) \in Partition /\ flash[BootFrom(flash)] # Broken
    BY BootLoaderFindsImage
  <2> QED
    BY <2>1, <2>2
<1>6. CASE NoBlankLine
  <2>1. /\ flash' \in [Partition -> Image \union {Broken}]
        /\ boot' = boot /\ running' = BootFrom(flash')
        /\ \A p \in Partition : p # UpdatePartition => flash'[p] = flash[p]
        /\ promised' = promised /\ erased' = TRUE
    BY <1>0, <1>6 DEF NoBlankLine
  <2>2. BootFrom(flash') \in Partition /\ flash'[BootFrom(flash')] # Broken
    BY <1>0, <2>1, BootLoaderFindsImage
  <2> QED
    BY <1>0, <2>1, <2>2
<1> QED
  BY <1>1, <1>2, <1>3, <1>4, <1>5, <1>6, FlashSteps

\* The types of the upload's variables are preserved, and the steps to a success
\* are taken in their order.
LEMMA UploadStep ==
  ASSUME IInv, [Next]_vars
  PROVE  UploadTypeOK' /\ StepsTaken'
<1> USE OtaAssumption, OtherPartition
        DEF IInv, TypeOK, FlashTypeOK, UploadTypeOK, StepsTaken
<1>0. UpdatePartition \in Partition /\ UpdatePartition # running
      /\ (boot = running \/ boot = UpdatePartition)
  BY DEF UpdatePartition
<1>1. CASE UNCHANGED <<flashVars, uploadVars>>
  BY <1>1 DEF flashVars, uploadVars, UpdatePartition
<1>2. ASSUME NEW c \in Image \union {Broken}, Post(c) PROVE UploadTypeOK' /\ StepsTaken'
  BY <1>2 DEF Post
<1>3. CASE Accept
  BY <1>3 DEF Accept
<1>4. CASE BeginFails
  BY <1>4 DEF BeginFails
<1>5. CASE Receive
  BY <1>0, <1>5 DEF Receive
<1>6. CASE ReceiveNothing
  BY <1>6 DEF ReceiveNothing
<1>7. CASE ReceiveTimeout
  BY <1>7 DEF ReceiveTimeout
<1>8. CASE ReceiveError
  BY <1>8 DEF ReceiveError
<1>9. CASE Test
  BY <1>9 DEF Test
<1>10. CASE End
  <2>1. UploadTypeOK'
    BY <1>10 DEF End
  <2>2. pc' # "success" /\ (pc' = "set_boot" => flash[UpdatePartition] # Broken)
    BY <1>10 DEF End
  <2>3. flash' = flash /\ running' = running
    BY <1>10 DEF End, flashVars
  <2> QED
    BY <2>1, <2>2, <2>3 DEF UpdatePartition
<1>11. CASE SetBoot
  <2>1. UploadTypeOK'
    BY <1>11 DEF SetBoot, FlashSuccessful
  <2>2. flash' = flash /\ running' = running /\ flash[UpdatePartition] # Broken
    BY <1>11 DEF SetBoot
  <2>3. pc' # "set_boot" /\ (pc' = "success" => boot' = UpdatePartition)
    BY <1>11 DEF SetBoot, FlashSuccessful
  <2> QED
    BY <2>1, <2>2, <2>3 DEF UpdatePartition
<1>12. CASE Report
  BY <1>12 DEF Report
<1>13. ASSUME Forget PROVE UploadTypeOK' /\ StepsTaken'
  <2>1. begun' \in BOOLEAN
    BY <1>13 DEF Forget
  <2>2. left' \in 0 .. Chunks /\ leaked' \in 0 .. MaxLeaks
    BY <1>13 DEF Forget
  <2>3. pc' = "idle" /\ recvLen' = "none" /\ content' = Broken
    BY <1>13 DEF Forget
  <2> QED
    BY <2>1, <2>2, <2>3
<1> QED
  BY <1>1, <1>2, <1>3, <1>4, <1>5, <1>6, <1>7, <1>8, <1>9, <1>10, <1>11, <1>12, <1>13
  DEF Next, Handler, Monitor, MonitorReceive, SetTimer, TimerExpires, Restart,
      Progress, Answer, Reload, NoBlankLine, PowerCycle, vars

\* The steps that change the monitor's queue, the status or the timer.
LEMMA StatusSteps ==
  ASSUME [Next]_vars
  PROVE  UNCHANGED statusVars \/ Report \/ MonitorReceive \/ SetTimer \/ Forget
BY DEF Next, Post, Handler, Accept, BeginFails, Receive, ReceiveNothing,
       ReceiveTimeout, ReceiveError, Test, End, SetBoot, Monitor, TimerExpires,
       Restart, Progress, Answer, Reload, NoBlankLine, PowerCycle, vars

\* While the other partition is selected and holds the image reported, or was
\* erased, it takes a restart or a report to change that: an installation selects
\* the partition that is selected already.
LEMMA SelectionSteps ==
  ASSUME IInv, [Next]_vars, boot # running, flash[boot] = promised \/ erased
  PROVE  \/ boot' # running' /\ (flash'[boot'] = promised' \/ erased')
         \/ Report
         \/ Forget
<1>1. CASE UNCHANGED <<flashVars, historyVars>>
  BY <1>1 DEF flashVars, historyVars
<1>2. CASE Receive \/ BeginFails
  BY <1>2 DEF Receive, BeginFails
<1>3. CASE SetBoot
  <2>1. boot = UpdatePartition
    BY OtherPartition DEF UpdatePartition, IInv, TypeOK, FlashTypeOK
  <2>2. boot' = boot /\ UNCHANGED <<flash, running, promised, erased>>
    BY <1>3, <2>1 DEF SetBoot, historyVars
  <2> QED
    BY <2>2
<1> QED
  BY <1>1, <1>2, <1>3, FlashSteps DEF Restart, NoBlankLine

\* The types of the monitor's variables are preserved, and a success is followed
\* by the timer.
LEMMA StatusStep ==
  ASSUME IInv, [Next]_vars
  PROVE  StatusTypeOK' /\ SuccessIsTimed'
<1> USE OtaAssumption
<1>1. StatusTypeOK /\ SuccessIsTimed
  BY DEF IInv, TypeOK
<1>2. CASE Forget
  <2>1. queue' = <<>> /\ monitor' = "wait" /\ status' = PENDING
    BY <1>2 DEF Forget
  <2>2. armed' \in BOOLEAN
    BY <1>2 DEF Forget
  <2>3. queue' \in Seq({SUCCESSFUL, FAILED}) /\ Len(queue') <= QueueSize
    BY <2>1
  <2> QED
    BY <2>1, <2>2, <2>3 DEF StatusTypeOK, SuccessIsTimed, PENDING, SUCCESSFUL
<1>3. CASE UNCHANGED statusVars
  BY <1>1, <1>3 DEF statusVars, StatusTypeOK, SuccessIsTimed
<1>4. CASE Report
  <2>1. UNCHANGED <<monitor, status, armed>>
    BY <1>4 DEF Report
  <2>2. queue' \in Seq({SUCCESSFUL, FAILED}) /\ Len(queue') <= QueueSize
    BY <1>1, <1>4 DEF Report, Message, QueueHasRoom, StatusTypeOK
  <2> QED
    BY <1>1, <2>1, <2>2 DEF StatusTypeOK, SuccessIsTimed
<1>5. CASE MonitorReceive
  <2>1. armed' = armed
    BY <1>5 DEF MonitorReceive
  <2>2. /\ queue' \in Seq({SUCCESSFUL, FAILED})
        /\ Len(queue') <= QueueSize
        /\ status' \in {SUCCESSFUL, FAILED}
    BY <1>1, <1>5 DEF MonitorReceive, StatusTypeOK
  <2>3. monitor' \in {"wait", "set_timer"}
        /\ (status' = SUCCESSFUL => monitor' = "set_timer")
    BY <1>5 DEF MonitorReceive
  <2> QED
    BY <1>1, <2>1, <2>2, <2>3 DEF StatusTypeOK, SuccessIsTimed
<1>6. CASE SetTimer
  <2>1. UNCHANGED <<queue, status>>
    BY <1>6 DEF SetTimer
  <2>2. armed' = (armed \/ ResetDue) /\ monitor' = "wait"
    BY <1>6 DEF SetTimer
  <2> QED
    BY <1>1, <2>1, <2>2 DEF StatusTypeOK, SuccessIsTimed, ResetDue
<1> QED
  BY <1>2, <1>3, <1>4, <1>5, <1>6, StatusSteps

\* A success is waiting, known or acted upon.
SuccessKnown == status = SUCCESSFUL \/ armed \/ (\E i \in DOMAIN queue : queue[i] = SUCCESSFUL)

\* No step but the report of a success makes one known that was not.
LEMMA SuccessSteps ==
  ASSUME IInv, [Next]_vars, SuccessKnown'
  PROVE  (SuccessKnown /\ ~Forget) \/ (Report /\ pc = "success")
<1>1. CASE Forget
  BY <1>1 DEF Forget, SuccessKnown, PENDING, SUCCESSFUL
<1>2. CASE UNCHANGED statusVars /\ ~Forget
  BY <1>2 DEF statusVars, SuccessKnown
<1>3. CASE Report /\ pc # "success" /\ ~Forget
  <2>1. UNCHANGED <<status, armed>>
    BY <1>3 DEF Report
  <2>2. \A i \in DOMAIN queue' : \/ i \in DOMAIN queue /\ queue'[i] = queue[i]
                                \/ queue'[i] = FAILED
    BY <1>3 DEF Report, Message, IInv, TypeOK, StatusTypeOK
  <2> QED
    BY <1>3, <2>1, <2>2 DEF SuccessKnown, SUCCESSFUL, FAILED
<1>4. CASE MonitorReceive /\ ~Forget
  <2>1. /\ armed' = armed
        /\ \A i \in DOMAIN queue' : i + 1 \in DOMAIN queue /\ queue'[i] = queue[i + 1]
        /\ 1 \in DOMAIN queue /\ status' = queue[1]
    BY <1>4 DEF MonitorReceive, IInv, TypeOK, StatusTypeOK
  <2> QED
    BY <1>4, <2>1 DEF SuccessKnown
<1>5. CASE SetTimer /\ ~Forget
  BY <1>5 DEF SetTimer, ResetDue, SuccessKnown
<1> QED
  BY <1>1, <1>2, <1>3, <1>4, <1>5, StatusSteps

\* From its report to the restart, a success is about the other partition, which
\* holds the image reported unless it was erased since.
LEMMA SuccessStep ==
  ASSUME IInv, [Next]_vars
  PROVE  SuccessIsKept'
<1> SUFFICES ASSUME SuccessKnown'
             PROVE  boot' # running' /\ (flash'[boot'] = promised' \/ erased')
  BY DEF SuccessIsKept, SuccessKnown
<1>1. CASE Report
  <2>1. UNCHANGED <<flash, boot, running>>
    BY <1>1 DEF Report, flashVars
  <2>2. CASE pc = "success"
    <3>1. promised' = flash[UpdatePartition] /\ boot = UpdatePartition
      BY <1>1, <2>2 DEF Report, IInv, StepsTaken
    <3>2. UpdatePartition # running
      BY OtherPartition DEF UpdatePartition, IInv, TypeOK, FlashTypeOK
    <3> QED
      BY <2>1, <3>1, <3>2
  <2>3. CASE pc # "success"
    <3>1. UNCHANGED <<promised, erased>>
      BY <1>1, <2>3 DEF Report, historyVars
    <3> QED
      BY <2>1, <2>3, <3>1, SuccessSteps DEF IInv, SuccessIsKept, SuccessKnown
  <2> QED
    BY <2>2, <2>3
<1>2. CASE ~Report
  BY <1>2, SuccessSteps, SelectionSteps DEF IInv, SuccessIsKept, SuccessKnown
<1> QED
  BY <1>1, <1>2

\* The types of the page's variables are preserved.
LEMMA PageStep ==
  ASSUME PageTypeOK, [Next]_vars
  PROVE  PageTypeOK'
<1> USE OtaAssumption DEF PageTypeOK
<1>1. CASE UNCHANGED pageVars
  BY <1>1 DEF pageVars
<1>2. ASSUME NEW c \in Image \union {Broken}, Post(c) PROVE PageTypeOK'
  BY <1>2 DEF Post
<1>3. CASE Progress
  BY <1>3 DEF Progress
<1>4. CASE Answer
  BY <1>4 DEF Answer
<1>5. CASE Reload \/ Restart \/ NoBlankLine
  <2>1. asked' \in BOOLEAN
    BY <1>5 DEF Reload, Restart, NoBlankLine, Forget
  <2>2. events' \in 0 .. MaxEvents
    BY <1>5 DEF Reload, Restart, NoBlankLine, Forget
  <2>3. page' \in {"form", page}
    BY <1>5 DEF Reload, Restart, NoBlankLine
  <2> QED
    BY <2>1, <2>2, <2>3
<1> QED
  BY <1>1, <1>2, <1>3, <1>4, <1>5
  DEF Next, Handler, Accept, BeginFails, Receive, ReceiveNothing, ReceiveTimeout,
      ReceiveError, Test, End, SetBoot, Report, Monitor, MonitorReceive, SetTimer,
      TimerExpires, PowerCycle, vars
-----------------------------------------------------------------------------
\* The inductive invariant holds in every reachable state.
THEOREM InductiveInvariant == Spec => []IInv
<1>1. Init => IInv
  <2> SUFFICES ASSUME Init PROVE IInv
    OBVIOUS
  <2> USE OtaAssumption DEF Init
  <2>1. FlashTypeOK /\ RunningIsIntact
    <3>1. erased \in BOOLEAN
      OBVIOUS
    <3> QED
      BY <3>1 DEF FlashTypeOK, RunningIsIntact, Partition
  <2>2. UploadTypeOK /\ StepsTaken
    <3>1. begun \in BOOLEAN
      OBVIOUS
    <3>2. left \in 0 .. Chunks /\ leaked \in 0 .. MaxLeaks
      OBVIOUS
    <3> QED
      BY <3>1, <3>2 DEF UploadTypeOK, StepsTaken
  <2>3. StatusTypeOK
    <3>1. armed \in BOOLEAN
      OBVIOUS
    <3>2. queue \in Seq({SUCCESSFUL, FAILED}) /\ Len(queue) <= QueueSize
      OBVIOUS
    <3> QED
      BY <3>1, <3>2 DEF StatusTypeOK
  <2>4. SuccessIsKept /\ SuccessIsTimed
    BY DEF SuccessIsKept, SuccessIsTimed, PENDING, SUCCESSFUL
  <2>5. PageTypeOK
    <3>1. asked \in BOOLEAN
      OBVIOUS
    <3>2. events \in 0 .. MaxEvents /\ page \in {"form", "uploading", "complete", "error"}
      OBVIOUS
    <3> QED
      BY <3>1, <3>2 DEF PageTypeOK
  <2> QED
    BY <2>1, <2>2, <2>3, <2>4, <2>5 DEF IInv, TypeOK
<1>2. IInv /\ [Next]_vars => IInv'
  BY FlashStep, UploadStep, StatusStep, SuccessStep, PageStep DEF IInv, TypeOK
<1> QED
  BY <1>1, <1>2, PTL DEF Spec

\* Every variable keeps its type, and the queue its length.
THEOREM TypeCorrect == Spec => []TypeOK
BY InductiveInvariant, PTL DEF IInv

\* The partition the device runs from always holds a complete image.
THEOREM RunningStaysIntact == Spec => []RunningIsIntact
BY InductiveInvariant, PTL DEF IInv

\* A success is only known while the next boot is from the other partition.
THEOREM SuccessIsAhead == Spec => []SuccessAwaitsRestart
<1>1. IInv => SuccessAwaitsRestart
  BY DEF IInv, SuccessIsKept, SuccessAwaitsRestart
<1> QED
  BY <1>1, InductiveInvariant, PTL

\* A restart that a reported success has set off brings the image that was
\* reported, unless the update partition has been erased since.
THEOREM RestartKeepsPromiseUnlessErased == Spec => RestartRunsPromised
<1>1. IInv /\ [Next]_vars =>
        [armed /\ ~armed' => flash'[running'] = promised' \/ erased']_vars
  <2> SUFFICES ASSUME IInv, Next, armed, ~armed', ~erased'
               PROVE  flash'[running'] = promised'
    OBVIOUS
  <2>1. Restart
    BY StatusSteps
    DEF Next, Post, Handler, Accept, BeginFails, Receive, ReceiveNothing,
        ReceiveTimeout, ReceiveError, Test, End, SetBoot, Report, Monitor,
        MonitorReceive, SetTimer, TimerExpires, Progress, Answer, Reload,
        NoBlankLine, PowerCycle, statusVars
  <2>2. UNCHANGED <<flash, boot, promised, erased>> /\ running' = BootFrom(flash)
    BY <2>1 DEF Restart, historyVars
  <2>3. flash[boot] = promised /\ promised # Broken
    BY <2>2, OtaAssumption DEF IInv, SuccessIsKept, TypeOK, FlashTypeOK
  <2> QED
    BY <2>2, <2>3 DEF BootFrom
<1> QED
  BY <1>1, InductiveInvariant, PTL DEF Spec, RestartRunsPromised

\* The page counts down only to a restart that is on its way, from the partition
\* that holds the image reported, unless one was erased since.
THEOREM CountsDownToRestart == Spec => CountDownIsToRestart
<1>1. IInv /\ [Next]_vars =>
        [page # "complete" /\ page' = "complete" =>
           /\ boot # running /\ (armed \/ monitor = "set_timer")
           /\ flash[boot] = promised \/ erased]_vars
  <2> SUFFICES ASSUME IInv, Next, page # "complete", page' = "complete"
               PROVE  /\ boot # running /\ (armed \/ monitor = "set_timer")
                      /\ flash[boot] = promised \/ erased
    OBVIOUS
  <2>1. Answer
    BY DEF Next, Post, Handler, Accept, BeginFails, Receive, ReceiveNothing,
           ReceiveTimeout, ReceiveError, Test, End, SetBoot, Report, Monitor,
           MonitorReceive, SetTimer, TimerExpires, Restart, Progress, Reload,
           NoBlankLine, PowerCycle, pageVars
  <2>2. status = SUCCESSFUL
    BY <2>1 DEF Answer
  <2> QED
    BY <2>2 DEF IInv, SuccessIsKept, SuccessIsTimed
<1> QED
  BY <1>1, InductiveInvariant, PTL DEF Spec, CountDownIsToRestart
=============================================================================
