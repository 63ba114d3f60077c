----------------------------- MODULE Transceiver -----------------------------
(***************************************************************************)
(* The radio driver with both of its directions (ra01s.c): setting the     *)
(* chip up (LoRaBegin, LoRaConfig, GFSKConfig), LoRaSend and ReceiveMode,  *)
(* and beside them the task that polls for packets (LoRaReceive), which    *)
(* Receiver has in detail.  The station listens with GFSK; the emulator in *)
(* main.c sends with LoRa; a program that does both is what the driver is  *)
(* written for.                                                            *)
(*                                                                         *)
(* Chip and driver share three things: the chip's flags, which the task    *)
(* that receives clears as a whole, the beginning of the chip's buffer,    *)
(* where packets to be sent and packets received both start, and the       *)
(* chip's mode, of which txActive is the driver's idea.                    *)
(*                                                                         *)
(* Every transfer over SPI is a step, for other tasks run while it lasts.  *)
(* The packet given to the k-th call of LoRaSend is k.                     *)
(***************************************************************************)
EXTENDS Naturals, FiniteSets

CONSTANTS MaxCalls,   \* bound of the calls of LoRaSend
          Attempts    \* how often WriteCommand tries (nine times)

ASSUME TransceiverAssumption == MaxCalls \in Nat /\ Attempts \in Nat \ {0}

VARIABLES
  program,   \* the modem it asks for, and the tasks it has
  setup,     \* where the set-up is
  settings,  \* chip: packet type, modulation and packet parameters
  chip,      \* chip: its mode
  irq,       \* chip: the interrupt flags
  base,      \* chip: the packet at the beginning of the buffer, 0 for one received
  txActive,  \* driver: a transmission is under way
  txLost,    \* driver: calls that returned false
  tx,        \* the call the sending task is about to make
  sync,      \* SX126x_TXMODE_SYNC
  attempt,   \* attempts of WriteCommand at SetTx
  rx,        \* the call the receiving task is about to make
  calls,     \* history: calls of LoRaSend
  current,   \* history: the last call that was not refused
  told,      \* history: what each call returned
  carried,   \* history: what was on the air for each call
  spoiled,   \* history: calls whose bytes could not be written, or were received over
  robbed,    \* history: calls whose flags LoRaReceive cleared
  repeated   \* history: calls in which SetTx was commanded again

chipVars == <<settings, chip, irq, base>>
driverVars == <<txActive, txLost>>
callVars == <<tx, sync, attempt>>
historyVars == <<calls, current, told, carried, spoiled, robbed, repeated>>
vars == <<program, setup, chipVars, driverVars, callVars, rx, historyVars>>

Modems == {"GFSK", "LoRa"}
Programs == {[modem |-> "GFSK", tasks |-> {"rx"}],
             [modem |-> "LoRa", tasks |-> {"tx"}],
             [modem |-> "LoRa", tasks |-> {"rx", "tx"}]}
CallOrNone == 0 .. MaxCalls
Call == 1 .. MaxCalls
Nothing == MaxCalls + 1
Over == {"TX_DONE", "TIMEOUT"}
\* What SetPacketType leaves of parameters that are meant for a modem.
Taken(for, as) == [for |-> for, as |-> as]

Init == /\ program \in Programs /\ setup = "LoRaBegin"
        /\ settings = [type |-> "GFSK", modulation |-> Taken("none", "none"),
                       packet |-> Taken("none", "none"), length |-> 0]
        /\ chip = "STDBY" /\ irq = {} /\ base = 0
        /\ txActive = FALSE /\ txLost = 0
        /\ tx = "idle" /\ sync = FALSE /\ attempt = 0 /\ rx = "GetIrqStatus"
        /\ calls = 0 /\ current = 0 /\ spoiled = {} /\ robbed = {} /\ repeated = {}
        /\ told = [k \in Call |-> "none"] /\ carried = [k \in Call |-> Nothing]
-----------------------------------------------------------------------------
(***************************************************************************)
(* Setting up.                                                             *)
(***************************************************************************)
\* Mutant: the packet type is set when the modulation has been.
TypeAfterModulation(step) ==
  CASE step = "LoRaBegin"           -> "SetModulationParams"
    [] step = "SetModulationParams" -> "SetPacketType"
    [] step = "SetPacketType"       -> "SetPacketParams"
    [] step = "SetPacketParams"     -> "SetRx"
    [] OTHER                        -> "done"
\* The order of LoRaConfig and of GFSKConfig.
Then(step) ==
  CASE step = "LoRaBegin"           -> "SetPacketType"
    [] step = "SetPacketType"       -> "SetModulationParams"
    [] step = "SetModulationParams" -> "SetPacketParams"
    [] step = "SetPacketParams"     -> "SetRx"
    [] OTHER                        -> "done"

Setting(step) == /\ setup = step
                 /\ setup' = Then(step)
                 /\ UNCHANGED <<program, irq, base, driverVars, callVars, rx, historyVars>>

\* The chip answers with one of the sync words it may have, and is reset,
\* calibrated and given one base address for both directions.
LoRaBegin == Setting("LoRaBegin") /\ UNCHANGED <<settings, chip>>

\* It does not answer: ERR_INVALID_MODE, and app_main returns.
LoRaBeginFails ==
  /\ setup = "LoRaBegin"
  /\ setup' = "failed"
  /\ UNCHANGED <<program, chipVars, driverVars, callVars, rx, historyVars>>

SetPacketType == /\ Setting("SetPacketType")
                 /\ settings' = [settings EXCEPT !.type = program.modem]
                 /\ UNCHANGED chip

\* The chip takes the bytes for parameters of the type it is set to.
SetModulationParams ==
  /\ Setting("SetModulationParams")
  /\ settings' = [settings EXCEPT !.modulation = Taken(program.modem, settings.type)]
  /\ UNCHANGED chip

\* A length of 0 stands for the 0xFF of packets of any length.
SetPacketParams ==
  /\ Setting("SetPacketParams")
  /\ settings' = [settings EXCEPT !.packet = Taken(program.modem, settings.type), !.length = 0]
  /\ UNCHANGED chip

SetUpRx == Setting("SetRx") /\ chip' = "RX" /\ UNCHANGED settings

\* A command fails nine times, a transfer stays busy, or the chip is not in RX
\* when SetRx looks: LoRaError, out of which app_main does not come.
SetUpHangs ==
  /\ setup \in {"SetPacketType", "SetModulationParams", "SetPacketParams", "SetRx"}
  /\ setup' = "failed"
  /\ UNCHANGED <<program, chipVars, driverVars, callVars, rx, historyVars>>

SetUp == LoRaBegin \/ LoRaBeginFails \/ SetPacketType \/ SetModulationParams
         \/ SetPacketParams \/ SetUpRx \/ SetUpHangs
-----------------------------------------------------------------------------
(***************************************************************************)
(* The chip.                                                               *)
(***************************************************************************)
\* A packet comes, to the beginning of the buffer or further on.
Arrive ==
  /\ chip = "RX"
  /\ irq' = irq \union {"RX_DONE"}
  /\ base' \in {base, 0}
  /\ spoiled' = IF tx = "SetStandby" /\ base' # base THEN spoiled \union {current} ELSE spoiled
  /\ UNCHANGED <<program, setup, settings, chip, driverVars, callVars, rx,
                 calls, current, told, carried, robbed, repeated>>

TxDone ==
  /\ chip = "TX"
  /\ chip' = "STDBY" /\ irq' = irq \union {"TX_DONE"}
  /\ carried' = [carried EXCEPT ![current] = base]
  /\ UNCHANGED <<program, setup, settings, base, driverVars, callVars, rx,
                 calls, current, told, spoiled, robbed, repeated>>

TxTimeout ==
  /\ chip = "TX"
  /\ chip' = "STDBY" /\ irq' = irq \union {"TIMEOUT"}
  /\ UNCHANGED <<program, setup, settings, base, driverVars, callVars, rx, historyVars>>
-----------------------------------------------------------------------------
(***************************************************************************)
(* LoRaSend.                                                               *)
(***************************************************************************)
\* Where a task is in a call, and what else of it changes.
Sends(from, to) == tx = from /\ tx' = to /\ UNCHANGED <<program, setup, rx>>

NewCall == /\ setup = "done" /\ "tx" \in program.tasks
           /\ calls < MaxCalls
           /\ calls' = calls + 1

\* Mutant: a call is not refused while another is under way.
NeverRefused == FALSE
Refused == txActive

Accept ==
  /\ NewCall /\ ~Refused
  /\ Sends("idle", "SetPacketParams")
  /\ txActive' = TRUE /\ sync' \in BOOLEAN /\ attempt' = 0
  /\ current' = calls + 1
  /\ UNCHANGED <<chipVars, txLost, told, carried, spoiled, robbed, repeated>>

Refuse ==
  /\ NewCall /\ Refused
  /\ Sends("idle", "idle")
  /\ txLost' = txLost + 1
  /\ told' = [told EXCEPT ![calls + 1] = "refused"]
  /\ UNCHANGED <<chipVars, txActive, sync, attempt, current, carried, spoiled, robbed, repeated>>

\* PacketParams[3] = len, of parameters that LoRaConfig left in PacketParams.
SendPacketParams ==
  /\ Sends("SetPacketParams", "ClearIrqStatus")
  /\ settings' = [settings EXCEPT !.packet = Taken("LoRa", settings.type), !.length = current]
  /\ UNCHANGED <<chip, irq, base, driverVars, sync, attempt, historyVars>>

\* Mutant: the flags of the transmission before are left.
FlagsKept == irq
\* ClearIrqStatus(SX126X_IRQ_ALL)
FlagsCleared == {}

SendClear ==
  /\ Sends("ClearIrqStatus", "WriteBuffer")
  /\ irq' = FlagsCleared
  /\ UNCHANGED <<settings, chip, base, driverVars, sync, attempt, historyVars>>

\* When malloc returns NULL the buffer stays as it is, and LoRaSend goes on.
WriteBuffer ==
  /\ Sends("WriteBuffer", "SetStandby")
  /\ \/ base' = current /\ UNCHANGED spoiled
     \/ base' = base /\ spoiled' = spoiled \union {current}
  /\ UNCHANGED <<settings, chip, irq, driverVars, sync, attempt,
                 calls, current, told, carried, robbed, repeated>>

SetStandby ==
  /\ Sends("SetStandby", "SetTx")
  /\ chip' = "STDBY"
  /\ UNCHANGED <<settings, irq, base, driverVars, sync, attempt, historyVars>>

\* The chip sends.  WriteCommand may yet find a failure in the status that came
\* back, and command it once more.
SetTx ==
  /\ \/ Sends("SetTx", "GetStatus")
     \/ attempt < Attempts - 1 /\ Sends("SetTx", "SetTx")
  /\ chip' = "TX" /\ attempt' = attempt + 1
  /\ repeated' = IF attempt > 0 THEN repeated \union {current} ELSE repeated
  /\ UNCHANGED <<settings, irq, base, driverVars, sync,
                 calls, current, told, carried, spoiled, robbed>>

\* The status is asked for once more after it was as it should be: whoever has
\* finished by then is in the wrong state (ERR_INVALID_SETTX_STATE).  The answers
\* before the last one change nothing but the time it takes.
CheckStatus ==
  /\ \/ chip = "TX" /\ sync /\ Sends("GetStatus", "GetIrqStatus") /\ UNCHANGED told
     \/ /\ chip = "TX" /\ ~sync /\ Sends("GetStatus", "idle")
        /\ told' = [told EXCEPT ![current] = "begun"]
     \/ chip # "TX" /\ Sends("GetStatus", "LoRaError") /\ UNCHANGED told
  /\ UNCHANGED <<chipVars, driverVars, sync, attempt, calls, current, carried, spoiled, robbed, repeated>>

\* Mutant: the end of a transmission is waited for, not its timeout.
DoneOnly == {"TX_DONE"} \intersect irq # {}
\* TX_DONE or TIMEOUT
IsOver == Over \intersect irq # {}

\* The loop is left, and with it the transmission; the chip goes on to SetRx.
WaitIsOver ==
  /\ Sends("GetIrqStatus", "SetRx") /\ IsOver
  /\ txActive' = FALSE
  /\ told' = [told EXCEPT ![current] = IF "TX_DONE" \in irq THEN "true" ELSE "false"]
  /\ txLost' = IF "TX_DONE" \in irq THEN txLost ELSE txLost + 1
  /\ UNCHANGED <<chipVars, sync, attempt, calls, current, carried, spoiled, robbed, repeated>>

\* Mutant: the chip is only set to receive again when a packet was sent.
ListensIfSent == IF told[current] = "true" THEN "RX" ELSE chip
\* SetRx(0xFFFFFF)
Listening == "RX"

\* SetRx puts the chip, which a finished transmission left in standby, into standby,
\* then commands and looks: only the command changes anything.  That the chip is not
\* in RX when it looks is in Hang.
BackToRx ==
  /\ Sends("SetRx", "idle")
  /\ chip' = Listening
  /\ UNCHANGED <<settings, irq, base, driverVars, sync, attempt, historyVars>>

\* Nothing is asked of the chip when no transmission is under way.
ReceiveMode ==
  /\ Sends("idle", "ReceiveMode") /\ txActive
  /\ UNCHANGED <<chipVars, driverVars, sync, attempt, historyVars>>

StillSending ==
  /\ Sends("ReceiveMode", "idle") /\ ~IsOver
  /\ UNCHANGED <<chipVars, driverVars, sync, attempt, historyVars>>

\* The flags stay as they are.
Collected ==
  /\ Sends("ReceiveMode", "CollectSetRx") /\ IsOver
  /\ UNCHANGED <<chipVars, driverVars, sync, attempt, historyVars>>

CollectBackToRx ==
  /\ Sends("CollectSetRx", "idle")
  /\ chip' = "RX" /\ txActive' = FALSE
  /\ UNCHANGED <<settings, irq, base, txLost, sync, attempt, historyVars>>

\* A transfer that stays busy, or nine failures of a command: no way back.
Hang == /\ Sends(tx, "LoRaError") /\ tx \notin {"idle", "LoRaError"}
        /\ UNCHANGED <<chipVars, driverVars, sync, attempt, historyVars>>

\* A call that is under way goes on.
Sending == SendPacketParams \/ SendClear \/ WriteBuffer \/ SetStandby \/ SetTx
           \/ CheckStatus \/ WaitIsOver \/ BackToRx
           \/ StillSending \/ Collected \/ CollectBackToRx
-----------------------------------------------------------------------------
(***************************************************************************)
(* LoRaReceive.                                                            *)
(***************************************************************************)
Polls(from, to) == /\ setup = "done" /\ "rx" \in program.tasks
                   /\ rx = from /\ rx' = to
                   /\ UNCHANGED <<program, setup, settings, chip, base, driverVars, callVars,
                                  calls, current, told, carried, spoiled, repeated>>

Poll == /\ Polls("GetIrqStatus", "ClearIrqStatus")
        /\ "RX_DONE" \in irq
        /\ UNCHANGED <<irq, robbed>>

\* Whatever has been set since goes too.
ReceiveClear == /\ Polls("ClearIrqStatus", "GetIrqStatus")
                /\ irq' = {}
                /\ robbed' = IF IsOver THEN robbed \union {current} ELSE robbed

Next == SetUp \/ Arrive \/ TxDone \/ TxTimeout
        \/ Accept \/ Refuse \/ ReceiveMode \/ Sending \/ Hang
        \/ Poll \/ ReceiveClear

Spec == Init /\ [][Next]_vars

\* Calls that are under way go on; transmissions end, by the chip's own timer
\* if nothing else.  Nobody has to send, or to ask ReceiveMode.
FairSpec == Spec /\ WF_vars(Sending) /\ WF_vars(TxDone \/ TxTimeout)
-----------------------------------------------------------------------------
SetupSteps == {"LoRaBegin", "SetPacketType", "SetModulationParams", "SetPacketParams", "SetRx"}
InCall == {"SetPacketParams", "ClearIrqStatus", "WriteBuffer", "SetStandby", "SetTx",
           "GetStatus", "GetIrqStatus", "SetRx", "ReceiveMode", "CollectSetRx"}
ParametersFor == [for : Modems \union {"none"}, as : Modems \union {"none"}]

TypeOK == /\ program \in Programs
          /\ setup \in SetupSteps \union {"done", "failed"}
          /\ settings \in [type : Modems, modulation : ParametersFor,
                           packet : ParametersFor, length : CallOrNone]
          /\ chip \in {"STDBY", "RX", "TX"}
          /\ irq \subseteq {"RX_DONE", "TX_DONE", "TIMEOUT"}
          /\ base \in CallOrNone
          /\ txActive \in BOOLEAN /\ txLost \in 0 .. calls
          /\ tx \in InCall \union {"idle", "LoRaError"}
          /\ sync \in BOOLEAN /\ attempt \in 0 .. Attempts
          /\ rx \in {"GetIrqStatus", "ClearIrqStatus"}
          /\ calls \in CallOrNone /\ current \in 0 .. calls
          /\ told \in [Call -> {"none", "true", "begun", "false", "refused"}]
          /\ carried \in [Call -> 0 .. Nothing]
          /\ spoiled \subseteq Call /\ robbed \subseteq Call /\ repeated \subseteq Call

\* Whenever the chip receives or sends, its parameters are those of the modem
\* that the program asked for, and were taken as such; and while it sends they
\* have the length of the packet that is being sent.
ParametersMatch ==
  /\ chip \in {"RX", "TX"} =>
       /\ settings.type = program.modem
       /\ settings.modulation = Taken(program.modem, program.modem)
       /\ settings.packet = Taken(program.modem, program.modem)
  /\ chip = "TX" => settings.length = current

\* LoRaSend returns true of a packet that was on the air in that very call, and
\* not by a flag of an earlier one; when it returns false none was, unless
\* LoRaReceive cleared the flag that would have said so, or SetTx was repeated.
ReportsAreTrue ==
  \A k \in Call : /\ told[k] = "true" => carried[k] # Nothing
                  /\ told[k] = "refused" => carried[k] = Nothing
                  /\ told[k] = "false" => carried[k] = Nothing \/ k \in robbed \union repeated

\* What is on the air for a call is the packet given to it, if there was memory to
\* write it and nothing was received between the writing and the sending.  If not, it
\* is what the buffer had before: a packet received, or that of an earlier call, never
\* that of a call made later, which was refused.
CarriesItsOwnUnlessSpoiled ==
  \A k \in Call : \/ carried[k] \in {k, Nothing}
                  \/ carried[k] < k /\ k \in spoiled

\* The driver knows of every transmission, so that none is cut off by the next
\* call; only what a repeated attempt at SetTx began may end with SetRx.  And when
\* neither a call nor a transmission is under way the chip listens, however the
\* last call ended.
RadioAgrees ==
  /\ chip = "TX" => txActive \/ (tx \in {"SetRx", "LoRaError"} /\ current \in repeated)
  /\ setup = "done" /\ tx = "idle" /\ ~txActive => chip = "RX"

\* Nothing the driver does reaches the packet or its parameters while the packet
\* is on the air.
AirIsUndisturbed == [][chip = "TX" => UNCHANGED <<base, settings>>]_vars

\* ReceiveMode only says "still sending" of a transmission that is not over, as
\* refused calls leave the flags alone, unless LoRaReceive cleared them.
StillSendingIsTrue == [][StillSending => chip = "TX" \/ current \in robbed]_vars

\* A call ends, be it in LoRaError, unless LoRaReceive has cleared the flag it
\* waits for: then LoRaSend never returns.
CallEnds == tx \in InCall ~> tx \in {"idle", "LoRaError"} \/ current \in robbed
=============================================================================
