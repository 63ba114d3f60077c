-------------------------- MODULE TransceiverProofs --------------------------
(***************************************************************************)
(* What the driver says of its transmissions is true, for any number of    *)
(* calls of LoRaSend and of attempts at a command, whatever the task that  *)
(* receives does in between.                                               *)
(***************************************************************************)
EXTENDS Transceiver, TLAPS

\* The transfers before SetTx, and the part of a call in which a transmission
\* is, or is about to be, under way.
Before  == {"SetPacketParams", "ClearIrqStatus", "WriteBuffer", "SetStandby"}
Working == InCall \ {"SetRx"}
\* The transmission was begun and has not been collected.
Begun == tx \in {"GetStatus", "GetIrqStatus", "ReceiveMode"} \/ (tx = "idle" /\ txActive)

\* Nothing is sent before the chip is set up; who is in a call, and after an
\* asynchronous one, has a call that was not refused.
InOrderOfCalls ==
  /\ setup # "done" => tx = "idle" /\ chip = "STDBY" /\ ~txActive
  /\ tx \in Working => txActive
  /\ tx = "SetRx" => ~txActive
  /\ txActive \/ tx # "idle" => current # 0 /\ "tx" \in program.tasks
  /\ txActive => txLost < calls

Attempted == /\ tx \in Before => attempt = 0
             /\ tx = "SetTx" => attempt < Attempts

\* Each parameter is as the modem asks from the step of the set-up that sets it.
Configured ==
  /\ setup \in {"SetModulationParams", "SetPacketParams", "SetRx", "done"} =>
       settings.type = program.modem
  /\ setup \in {"SetPacketParams", "SetRx", "done"} =>
       settings.modulation = Taken(program.modem, program.modem)
  /\ setup \in {"SetRx", "done"} => settings.packet = Taken(program.modem, program.modem)
  /\ tx \in {"ClearIrqStatus", "WriteBuffer", "SetStandby", "SetTx"} \/ chip = "TX" =>
       settings.length = current

\* The chip's mode, as far as the driver's place tells it.
Tuned == /\ tx \in Before => chip = "RX"
         /\ tx \in {"SetTx", "SetRx", "CollectSetRx"} \/ Begun => chip # "RX"
         /\ tx = "SetTx" /\ attempt = 0 => chip # "TX"
         /\ RadioAgrees

\* What is sent is in the buffer from the step that writes it, and nothing of a later
\* call ever is.
Written ==
  /\ tx \in {"SetStandby", "SetTx"} \/ chip = "TX" => base = current \/ current \in spoiled
  /\ base <= current

\* The flags are about the current call from the step that clears them, and are
\* there when its packet was on the air, unless LoRaReceive took them away.
Flagged ==
  /\ IsOver => current # 0
  /\ "TX_DONE" \in irq /\ tx \notin {"SetPacketParams", "ClearIrqStatus", "LoRaError"} =>
       current # 0 /\ carried[current] # Nothing
  /\ tx \in Before => carried[current] = Nothing
  /\ txActive /\ carried[current] # Nothing => "TX_DONE" \in irq \/ current \in robbed
  /\ Begun => chip = "TX" \/ IsOver \/ current \in robbed
  /\ tx \in {"WriteBuffer", "SetStandby"} \/ (tx = "SetTx" /\ attempt = 0) => ~IsOver
  /\ tx \in {"SetTx", "GetStatus", "GetIrqStatus"} /\ IsOver /\ chip = "TX" =>
       current \in repeated

\* Nothing is known of calls to come; the current one was not refused.
Recorded ==
  /\ \A k \in Call : k > calls => told[k] = "none" /\ carried[k] = Nothing
  /\ current # 0 => told[current] # "refused"
  /\ txActive => told[current] \in {"none", "begun"}

\* What the driver and the chip are doing, and what is known of it.
Under   == InOrderOfCalls /\ Attempted /\ Configured /\ Tuned /\ Written
Account == Flagged /\ Recorded /\ ReportsAreTrue /\ CarriesItsOwnUnlessSpoiled

IInv == TypeOK /\ Under /\ Account
-----------------------------------------------------------------------------
USE TransceiverAssumption DEF Call, CallOrNone, Nothing, InCall, Before, Working,
    chipVars, driverVars, callVars, historyVars, Sends, Polls, Over, IsOver

\* Parameters of a modem are parameters, whatever they were taken for.
LEMMA TakenTyped == \A m, n \in Modems \union {"none"} : Taken(m, n) \in ParametersFor
BY DEF ParametersFor, Taken

LEMMA InitIInv == Init => IInv
<1> SUFFICES ASSUME Init PROVE IInv
  OBVIOUS
<1>1. TypeOK
  <2>1. settings \in [type : Modems, modulation : ParametersFor,
                     packet : ParametersFor, length : CallOrNone]
    BY TakenTyped DEF Init, Modems
  <2>2. /\ told \in [Call -> {"none", "true", "begun", "false", "refused"}]
        /\ carried \in [Call -> 0 .. Nothing]
    BY DEF Init
  <2>3. /\ base \in CallOrNone /\ txLost \in 0 .. calls /\ attempt \in 0 .. Attempts
        /\ calls \in CallOrNone /\ current \in 0 .. calls
        /\ irq \subseteq {"RX_DONE", "TX_DONE", "TIMEOUT"}
        /\ spoiled \subseteq Call /\ robbed \subseteq Call /\ repeated \subseteq Call
    BY DEF Init
  <2>4. /\ program \in Programs /\ setup \in SetupSteps \union {"done", "failed"}
        /\ chip \in {"STDBY", "RX", "TX"} /\ txActive \in BOOLEAN /\ sync \in BOOLEAN
        /\ tx \in InCall \union {"idle", "LoRaError"}
        /\ rx \in {"GetIrqStatus", "ClearIrqStatus"}
    BY DEF Init, SetupSteps
  <2> QED
    BY <2>1, <2>2, <2>3, <2>4 DEF TypeOK
<1>2. Under
  BY DEF Init, Under, InOrderOfCalls, Attempted, Configured, Tuned, RadioAgrees, Begun, Written
<1>3. Account
  BY DEF Init, Account, Flagged, Begun, Recorded, ReportsAreTrue, CarriesItsOwnUnlessSpoiled
<1> QED
  BY <1>1, <1>2, <1>3 DEF IInv

LEMMA LoRaBeginKeeps == IInv /\ LoRaBegin => IInv'
<1> SUFFICES ASSUME IInv, LoRaBegin PROVE IInv'
  OBVIOUS
<1> USE DEF IInv
<1>1. TypeOK'
  BY DEF LoRaBegin, Setting, Then, TypeOK, Under, InOrderOfCalls, Attempted, SetupSteps
<1>2. Under'
  BY DEF LoRaBegin, Setting, Then, TypeOK, Programs, Modems, Account, Flagged,
     Under, InOrderOfCalls, Attempted, Configured, Tuned, RadioAgrees, Begun, Written
<1>3. Account'
  BY DEF LoRaBegin, Setting, Then, TypeOK, Account, Flagged, Recorded, ReportsAreTrue, CarriesItsOwnUnlessSpoiled,
     Under, InOrderOfCalls, Attempted, Configured, Tuned, RadioAgrees, Begun, Written
<1> QED
  BY <1>1, <1>2, <1>3

LEMMA LoRaBeginFailsKeeps == IInv /\ LoRaBeginFails => IInv'
<1> SUFFICES ASSUME IInv, LoRaBeginFails PROVE IInv'
  OBVIOUS
<1> USE DEF IInv
<1>1. TypeOK'
  BY DEF LoRaBeginFails, TypeOK, Under, InOrderOfCalls, Attempted, SetupSteps
<1>2. Under'
  BY DEF LoRaBeginFails, TypeOK, Programs, Modems, Account, Flagged,
     Under, InOrderOfCalls, Attempted, Configured, Tuned, RadioAgrees, Begun, Written
<1>3. Account'
  BY DEF LoRaBeginFails, TypeOK, Account, Flagged, Recorded, ReportsAreTrue, CarriesItsOwnUnlessSpoiled,
     Under, InOrderOfCalls, Attempted, Configured, Tuned, RadioAgrees, Begun, Written
<1> QED
  BY <1>1, <1>2, <1>3

LEMMA SetPacketTypeKeeps == IInv /\ SetPacketType => IInv'
<1> SUFFICES ASSUME IInv, SetPacketType PROVE IInv'
  OBVIOUS
<1> USE DEF IInv
<1>1. TypeOK'
  <2>1. program.modem \in Modems
    BY TakenTyped DEF TypeOK, Programs, Modems
  <2>2. settings' \in [type : Modems, modulation : ParametersFor,
                      packet : ParametersFor, length : CallOrNone]
    BY <2>1 DEF SetPacketType, TypeOK
  <2> QED
    BY <2>2 DEF SetPacketType, Setting, Then, TypeOK, SetupSteps
<1>2. Under'
  BY DEF SetPacketType, Setting, Then, TypeOK, Programs, Modems, Account, Flagged,
     Under, InOrderOfCalls, Attempted, Configured, Tuned, RadioAgrees, Begun, Written
<1>3. Account'
  BY DEF SetPacketType, Setting, Then, TypeOK, Account, Flagged, Recorded, ReportsAreTrue, CarriesItsOwnUnlessSpoiled,
     Under, InOrderOfCalls, Attempted, Configured, Tuned, RadioAgrees, Begun, Written
<1> QED
  BY <1>1, <1>2, <1>3

LEMMA SetModulationParamsKeeps == IInv /\ SetModulationParams => IInv'
<1> SUFFICES ASSUME IInv, SetModulationParams PROVE IInv'
  OBVIOUS
<1> USE DEF IInv
<1>1. TypeOK'
  <2>1. Taken(program.modem, settings.type) \in ParametersFor
    BY TakenTyped DEF TypeOK, Programs, Modems
  <2>2. settings' \in [type : Modems, modulation : ParametersFor,
                      packet : ParametersFor, length : CallOrNone]
    BY <2>1 DEF SetModulationParams, TypeOK
  <2> QED
    BY <2>2 DEF SetModulationParams, Setting, Then, TypeOK, SetupSteps
<1>2. Under'
  BY DEF SetModulationParams, Setting, Then, TypeOK, Programs, Modems, Account, Flagged,
     Under, InOrderOfCalls, Attempted, Configured, Tuned, RadioAgrees, Begun, Written
<1>3. Account'
  BY DEF SetModulationParams, Setting, Then, TypeOK, Account, Flagged, Recorded, ReportsAreTrue, CarriesItsOwnUnlessSpoiled,
     Under, InOrderOfCalls, Attempted, Configured, Tuned, RadioAgrees, Begun, Written
<1> QED
  BY <1>1, <1>2, <1>3

LEMMA SetPacketParamsKeeps == IInv /\ SetPacketParams => IInv'
<1> SUFFICES ASSUME IInv, SetPacketParams PROVE IInv'
  OBVIOUS
<1> USE DEF IInv
<1>1. TypeOK'
  <2>1. Taken(program.modem, settings.type) \in ParametersFor /\ 0 \in CallOrNone
    BY TakenTyped DEF TypeOK, Programs, Modems
  <2>2. settings' \in [type : Modems, modulation : ParametersFor,
                      packet : ParametersFor, length : CallOrNone]
    BY <2>1 DEF SetPacketParams, TypeOK
  <2> QED
    BY <2>2 DEF SetPacketParams, Setting, Then, TypeOK, SetupSteps
<1>2. Under'
  BY DEF SetPacketParams, Setting, Then, TypeOK, Programs, Modems, Account, Flagged,
     Under, InOrderOfCalls, Attempted, Configured, Tuned, RadioAgrees, Begun, Written
<1>3. Account'
  BY DEF SetPacketParams, Setting, Then, TypeOK, Account, Flagged, Recorded, ReportsAreTrue, CarriesItsOwnUnlessSpoiled,
     Under, InOrderOfCalls, Attempted, Configured, Tuned, RadioAgrees, Begun, Written
<1> QED
  BY <1>1, <1>2, <1>3

LEMMA SetUpRxKeeps == IInv /\ SetUpRx => IInv'
<1> SUFFICES ASSUME IInv, SetUpRx PROVE IInv'
  OBVIOUS
<1> USE DEF IInv
<1>1. TypeOK'
  BY DEF SetUpRx, Setting, Then, TypeOK, Under, InOrderOfCalls, Attempted, SetupSteps
<1>2. Under'
  BY DEF SetUpRx, Setting, Then, TypeOK, Programs, Modems, Account, Flagged,
     Under, InOrderOfCalls, Attempted, Configured, Tuned, RadioAgrees, Begun, Written
<1>3. Account'
  BY DEF SetUpRx, Setting, Then, TypeOK, Account, Flagged, Recorded, ReportsAreTrue, CarriesItsOwnUnlessSpoiled,
     Under, InOrderOfCalls, Attempted, Configured, Tuned, RadioAgrees, Begun, Written
<1> QED
  BY <1>1, <1>2, <1>3

LEMMA SetUpHangsKeeps == IInv /\ SetUpHangs => IInv'
<1> SUFFICES ASSUME IInv, SetUpHangs PROVE IInv'
  OBVIOUS
<1> USE DEF IInv
<1>1. TypeOK'
  BY DEF SetUpHangs, TypeOK, Under, InOrderOfCalls, Attempted, SetupSteps
<1>2. Under'
  BY DEF SetUpHangs, TypeOK, Programs, Modems, Account, Flagged,
     Under, InOrderOfCalls, Attempted, Configured, Tuned, RadioAgrees, Begun, Written
<1>3. Account'
  BY DEF SetUpHangs, TypeOK, Account, Flagged, Recorded, ReportsAreTrue, CarriesItsOwnUnlessSpoiled,
     Under, InOrderOfCalls, Attempted, Configured, Tuned, RadioAgrees, Begun, Written
<1> QED
  BY <1>1, <1>2, <1>3

LEMMA ArriveKeeps == IInv /\ Arrive => IInv'
<1> SUFFICES ASSUME IInv, Arrive PROVE IInv'
  OBVIOUS
<1> USE DEF IInv
<1>1. TypeOK'
  BY DEF Arrive, TypeOK, Under, InOrderOfCalls, Attempted, SetupSteps
<1>2. Under'
  BY DEF Arrive, TypeOK, Programs, Modems, Account, Flagged,
     Under, InOrderOfCalls, Attempted, Configured, Tuned, RadioAgrees, Begun, Written
<1>3. Account'
  BY DEF Arrive, TypeOK, Account, Flagged, Recorded, ReportsAreTrue, CarriesItsOwnUnlessSpoiled,
     Under, InOrderOfCalls, Attempted, Configured, Tuned, RadioAgrees, Begun, Written
<1> QED
  BY <1>1, <1>2, <1>3

LEMMA TxDoneKeeps == IInv /\ TxDone => IInv'
<1> SUFFICES ASSUME IInv, TxDone PROVE IInv'
  OBVIOUS
<1> USE DEF IInv
<1>1. TypeOK'
  <2>1. base \in 0 .. Nothing
    BY DEF TypeOK
  <2>2. carried' \in [Call -> 0 .. Nothing]
    BY <2>1 DEF TxDone, TypeOK
  <2> QED
    BY <2>2 DEF TxDone, TypeOK
<1>2. Under'
  BY DEF TxDone, TypeOK, Programs, Modems, Account, Flagged,
     Under, InOrderOfCalls, Attempted, Configured, Tuned, RadioAgrees, Begun, Written
<1>3. Account'
  <2>1. "TX_DONE" \in irq' /\ Over \intersect irq' # {}
    BY DEF TxDone
  <2>2. chip = "TX" /\ current \in Call /\ current \in 1 .. calls
    BY DEF TxDone, TypeOK, Under, InOrderOfCalls, Tuned, RadioAgrees
  <2>3. Flagged'
    BY <2>1, <2>2 DEF TxDone, TypeOK, Account, Flagged, Under, InOrderOfCalls, Tuned, Begun
  <2>4. Recorded'
    BY <2>2 DEF TxDone, TypeOK, Account, Recorded
  <2>5. ReportsAreTrue'
    BY <2>2 DEF TxDone, TypeOK, Account, Flagged, Recorded, ReportsAreTrue,
       Under, Tuned, RadioAgrees
  <2>6. CarriesItsOwnUnlessSpoiled'
    BY <2>2 DEF TxDone, TypeOK, Account, CarriesItsOwnUnlessSpoiled, Under, Written
  <2> QED
    BY <2>3, <2>4, <2>5, <2>6 DEF Account
<1> QED
  BY <1>1, <1>2, <1>3

LEMMA TxTimeoutKeeps == IInv /\ TxTimeout => IInv'
<1> SUFFICES ASSUME IInv, TxTimeout PROVE IInv'
  OBVIOUS
<1> USE DEF IInv
<1>1. TypeOK'
  BY DEF TxTimeout, TypeOK, Under, InOrderOfCalls, Attempted, SetupSteps
<1>2. Under'
  BY DEF TxTimeout, TypeOK, Programs, Modems, Account, Flagged,
     Under, InOrderOfCalls, Attempted, Configured, Tuned, RadioAgrees, Begun, Written
<1>3. Account'
  <2>1. "TIMEOUT" \in irq' /\ Over \intersect irq' # {}
    BY DEF TxTimeout
  <2>2. chip = "TX" /\ current \in Call /\ current \in 1 .. calls
    BY DEF TxTimeout, TypeOK, Under, InOrderOfCalls, Tuned, RadioAgrees
  <2>3. Flagged'
    BY <2>1, <2>2 DEF TxTimeout, TypeOK, Account, Flagged, Under, InOrderOfCalls, Tuned, Begun
  <2>4. Recorded'
    BY <2>2 DEF TxTimeout, TypeOK, Account, Recorded
  <2>5. ReportsAreTrue'
    BY <2>2 DEF TxTimeout, TypeOK, Account, Flagged, Recorded, ReportsAreTrue,
       Under, Tuned, RadioAgrees
  <2>6. CarriesItsOwnUnlessSpoiled'
    BY <2>2 DEF TxTimeout, TypeOK, Account, CarriesItsOwnUnlessSpoiled, Under, Written
  <2> QED
    BY <2>3, <2>4, <2>5, <2>6 DEF Account
<1> QED
  BY <1>1, <1>2, <1>3

LEMMA AcceptKeeps == IInv /\ Accept => IInv'
<1> SUFFICES ASSUME IInv, Accept PROVE IInv'
  OBVIOUS
<1> USE DEF IInv
<1>1. TypeOK'
  BY DEF Accept, NewCall, Refused, TypeOK, Under, InOrderOfCalls, Attempted, SetupSteps
<1>2. Under'
  BY DEF Accept, NewCall, Refused, TypeOK, Programs, Modems, Account, Flagged,
     Under, InOrderOfCalls, Attempted, Configured, Tuned, RadioAgrees, Begun, Written
<1>3. Account'
  BY DEF Accept, NewCall, Refused, TypeOK, Account, Flagged, Recorded, ReportsAreTrue, CarriesItsOwnUnlessSpoiled,
     Under, InOrderOfCalls, Attempted, Configured, Tuned, RadioAgrees, Begun, Written
<1> QED
  BY <1>1, <1>2, <1>3

LEMMA RefuseKeeps == IInv /\ Refuse => IInv'
<1> SUFFICES ASSUME IInv, Refuse PROVE IInv'
  OBVIOUS
<1> USE DEF IInv
<1>1. TypeOK'
  BY DEF Refuse, NewCall, Refused, TypeOK, Under, InOrderOfCalls, Attempted, SetupSteps
<1>2. Under'
  BY DEF Refuse, NewCall, Refused, TypeOK, Programs, Modems, Account, Flagged,
     Under, InOrderOfCalls, Attempted, Configured, Tuned, RadioAgrees, Begun, Written
<1>3. Account'
  BY DEF Refuse, NewCall, Refused, TypeOK, Account, Flagged, Recorded, ReportsAreTrue, CarriesItsOwnUnlessSpoiled,
     Under, InOrderOfCalls, Attempted, Configured, Tuned, RadioAgrees, Begun, Written
<1> QED
  BY <1>1, <1>2, <1>3

LEMMA SendPacketParamsKeeps == IInv /\ SendPacketParams => IInv'
<1> SUFFICES ASSUME IInv, SendPacketParams PROVE IInv'
  OBVIOUS
<1> USE DEF IInv
<1>1. TypeOK'
  <2>1. Taken("LoRa", settings.type) \in ParametersFor /\ current \in CallOrNone
    BY TakenTyped DEF TypeOK, Programs, Modems
  <2>2. settings' \in [type : Modems, modulation : ParametersFor,
                      packet : ParametersFor, length : CallOrNone]
    BY <2>1 DEF SendPacketParams, TypeOK
  <2> QED
    BY <2>2 DEF SendPacketParams, TypeOK, SetupSteps
<1>2. Under'
  BY DEF SendPacketParams, TypeOK, Programs, Modems, Account, Flagged,
     Under, InOrderOfCalls, Attempted, Configured, Tuned, RadioAgrees, Begun, Written
<1>3. Account'
  BY DEF SendPacketParams, TypeOK, Account, Flagged, Recorded, ReportsAreTrue, CarriesItsOwnUnlessSpoiled,
     Under, InOrderOfCalls, Attempted, Configured, Tuned, RadioAgrees, Begun, Written
<1> QED
  BY <1>1, <1>2, <1>3

LEMMA SendClearKeeps == IInv /\ SendClear => IInv'
<1> SUFFICES ASSUME IInv, SendClear PROVE IInv'
  OBVIOUS
<1> USE DEF IInv
<1>1. TypeOK'
  BY DEF SendClear, FlagsCleared, TypeOK, Under, InOrderOfCalls, Attempted, SetupSteps
<1>2. Under'
  BY DEF SendClear, FlagsCleared, TypeOK, Programs, Modems, Account, Flagged,
     Under, InOrderOfCalls, Attempted, Configured, Tuned, RadioAgrees, Begun, Written
<1>3. Account'
  BY DEF SendClear, FlagsCleared, TypeOK, Account, Flagged, Recorded, ReportsAreTrue, CarriesItsOwnUnlessSpoiled,
     Under, InOrderOfCalls, Attempted, Configured, Tuned, RadioAgrees, Begun, Written
<1> QED
  BY <1>1, <1>2, <1>3

LEMMA WriteBufferKeeps == IInv /\ WriteBuffer => IInv'
<1> SUFFICES ASSUME IInv, WriteBuffer PROVE IInv'
  OBVIOUS
<1> USE DEF IInv
<1>1. TypeOK'
  <2>1. current \in Call /\ current \in CallOrNone
    BY DEF WriteBuffer, TypeOK, Under, InOrderOfCalls
  <2>2. spoiled' \subseteq Call /\ base' \in CallOrNone
    BY <2>1 DEF WriteBuffer, TypeOK
  <2> QED
    BY <2>2 DEF WriteBuffer, TypeOK
<1>2. Under'
  BY DEF WriteBuffer, TypeOK, Programs, Modems, Account, Flagged,
     Under, InOrderOfCalls, Attempted, Configured, Tuned, RadioAgrees, Begun, Written
<1>3. Account'
  BY DEF WriteBuffer, TypeOK, Account, Flagged, Recorded, ReportsAreTrue, CarriesItsOwnUnlessSpoiled,
     Under, InOrderOfCalls, Attempted, Configured, Tuned, RadioAgrees, Begun, Written
<1> QED
  BY <1>1, <1>2, <1>3

LEMMA SetStandbyKeeps == IInv /\ SetStandby => IInv'
<1> SUFFICES ASSUME IInv, SetStandby PROVE IInv'
  OBVIOUS
<1> USE DEF IInv
<1>1. TypeOK'
  BY DEF SetStandby, TypeOK, Under, InOrderOfCalls, Attempted, SetupSteps
<1>2. Under'
  BY DEF SetStandby, TypeOK, Programs, Modems, Account, Flagged,
     Under, InOrderOfCalls, Attempted, Configured, Tuned, RadioAgrees, Begun, Written
<1>3. Account'
  BY DEF SetStandby, TypeOK, Account, Flagged, Recorded, ReportsAreTrue, CarriesItsOwnUnlessSpoiled,
     Under, InOrderOfCalls, Attempted, Configured, Tuned, RadioAgrees, Begun, Written
<1> QED
  BY <1>1, <1>2, <1>3

LEMMA SetTxKeeps == IInv /\ SetTx => IInv'
<1> SUFFICES ASSUME IInv, SetTx PROVE IInv'
  OBVIOUS
<1> USE DEF IInv
<1>1. TypeOK'
  BY DEF SetTx, TypeOK, Under, InOrderOfCalls, Attempted, SetupSteps
<1>2. Under'
  BY DEF SetTx, TypeOK, Programs, Modems, Account, Flagged,
     Under, InOrderOfCalls, Attempted, Configured, Tuned, RadioAgrees, Begun, Written
<1>3. Account'
  BY DEF SetTx, TypeOK, Account, Flagged, Recorded, ReportsAreTrue, CarriesItsOwnUnlessSpoiled,
     Under, InOrderOfCalls, Attempted, Configured, Tuned, RadioAgrees, Begun, Written
<1> QED
  BY <1>1, <1>2, <1>3

LEMMA CheckStatusKeeps == IInv /\ CheckStatus => IInv'
<1> SUFFICES ASSUME IInv, CheckStatus PROVE IInv'
  OBVIOUS
<1> USE DEF IInv
<1>1. TypeOK'
  BY DEF CheckStatus, TypeOK, Under, InOrderOfCalls, Attempted, SetupSteps
<1>2. Under'
  BY DEF CheckStatus, TypeOK, Programs, Modems, Account, Flagged,
     Under, InOrderOfCalls, Attempted, Configured, Tuned, RadioAgrees, Begun, Written
<1>3. Account'
  BY DEF CheckStatus, TypeOK, Account, Flagged, Recorded, ReportsAreTrue, CarriesItsOwnUnlessSpoiled,
     Under, InOrderOfCalls, Attempted, Configured, Tuned, RadioAgrees, Begun, Written
<1> QED
  BY <1>1, <1>2, <1>3

LEMMA WaitIsOverKeeps == IInv /\ WaitIsOver => IInv'
<1> SUFFICES ASSUME IInv, WaitIsOver PROVE IInv'
  OBVIOUS
<1> USE DEF IInv
<1>1. TypeOK'
  <2>1. told' \in [Call -> {"none", "true", "begun", "false", "refused"}]
    BY DEF WaitIsOver, TypeOK
  <2>2. txLost' \in 0 .. calls
    BY DEF WaitIsOver, TypeOK, Under, InOrderOfCalls
  <2> QED
    BY <2>1, <2>2 DEF WaitIsOver, TypeOK
<1>2. Under'
  BY DEF WaitIsOver, TypeOK, Programs, Modems, Account, Flagged,
     Under, InOrderOfCalls, Attempted, Configured, Tuned, RadioAgrees, Begun, Written
<1>3. Account'
  BY DEF WaitIsOver, TypeOK, Account, Flagged, Recorded, ReportsAreTrue, CarriesItsOwnUnlessSpoiled,
     Under, InOrderOfCalls, Attempted, Configured, Tuned, RadioAgrees, Begun, Written
<1> QED
  BY <1>1, <1>2, <1>3

LEMMA BackToRxKeeps == IInv /\ BackToRx => IInv'
<1> SUFFICES ASSUME IInv, BackToRx PROVE IInv'
  OBVIOUS
<1> USE DEF IInv
<1>1. TypeOK'
  BY DEF BackToRx, Listening, TypeOK, Under, InOrderOfCalls, Attempted, SetupSteps
<1>2. Under'
  BY DEF BackToRx, Listening, TypeOK, Programs, Modems, Account, Flagged,
     Under, InOrderOfCalls, Attempted, Configured, Tuned, RadioAgrees, Begun, Written
<1>3. Account'
  BY DEF BackToRx, Listening, TypeOK, Account, Flagged, Recorded, ReportsAreTrue, CarriesItsOwnUnlessSpoiled,
     Under, InOrderOfCalls, Attempted, Configured, Tuned, RadioAgrees, Begun, Written
<1> QED
  BY <1>1, <1>2, <1>3

LEMMA ReceiveModeKeeps == IInv /\ ReceiveMode => IInv'
<1> SUFFICES ASSUME IInv, ReceiveMode PROVE IInv'
  OBVIOUS
<1> USE DEF IInv
<1>1. TypeOK'
  BY DEF ReceiveMode, TypeOK, Under, InOrderOfCalls, Attempted, SetupSteps
<1>2. Under'
  BY DEF ReceiveMode, TypeOK, Programs, Modems, Account, Flagged,
     Under, InOrderOfCalls, Attempted, Configured, Tuned, RadioAgrees, Begun, Written
<1>3. Account'
  BY DEF ReceiveMode, TypeOK, Account, Flagged, Recorded, ReportsAreTrue, CarriesItsOwnUnlessSpoiled,
     Under, InOrderOfCalls, Attempted, Configured, Tuned, RadioAgrees, Begun, Written
<1> QED
  BY <1>1, <1>2, <1>3

LEMMA StillSendingKeeps == IInv /\ StillSending => IInv'
<1> SUFFICES ASSUME IInv, StillSending PROVE IInv'
  OBVIOUS
<1> USE DEF IInv
<1>1. TypeOK'
  BY DEF StillSending, TypeOK, Under, InOrderOfCalls, Attempted, SetupSteps
<1>2. Under'
  BY DEF StillSending, TypeOK, Programs, Modems, Account, Flagged,
     Under, InOrderOfCalls, Attempted, Configured, Tuned, RadioAgrees, Begun, Written
<1>3. Account'
  BY DEF StillSending, TypeOK, Account, Flagged, Recorded, ReportsAreTrue, CarriesItsOwnUnlessSpoiled,
     Under, InOrderOfCalls, Attempted, Configured, Tuned, RadioAgrees, Begun, Written
<1> QED
  BY <1>1, <1>2, <1>3

LEMMA CollectedKeeps == IInv /\ Collected => IInv'
<1> SUFFICES ASSUME IInv, Collected PROVE IInv'
  OBVIOUS
<1> USE DEF IInv
<1>1. TypeOK'
  BY DEF Collected, TypeOK, Under, InOrderOfCalls, Attempted, SetupSteps
<1>2. Under'
  BY DEF Collected, TypeOK, Programs, Modems, Account, Flagged,
     Under, InOrderOfCalls, Attempted, Configured, Tuned, RadioAgrees, Begun, Written
<1>3. Account'
  BY DEF Collected, TypeOK, Account, Flagged, Recorded, ReportsAreTrue, CarriesItsOwnUnlessSpoiled,
     Under, InOrderOfCalls, Attempted, Configured, Tuned, RadioAgrees, Begun, Written
<1> QED
  BY <1>1, <1>2, <1>3

LEMMA CollectBackToRxKeeps == IInv /\ CollectBackToRx => IInv'
<1> SUFFICES ASSUME IInv, CollectBackToRx PROVE IInv'
  OBVIOUS
<1> USE DEF IInv
<1>1. TypeOK'
  BY DEF CollectBackToRx, TypeOK, Under, InOrderOfCalls, Attempted, SetupSteps
<1>2. Under'
  BY DEF CollectBackToRx, TypeOK, Programs, Modems, Account, Flagged,
     Under, InOrderOfCalls, Attempted, Configured, Tuned, RadioAgrees, Begun, Written
<1>3. Account'
  BY DEF CollectBackToRx, TypeOK, Account, Flagged, Recorded, ReportsAreTrue, CarriesItsOwnUnlessSpoiled,
     Under, InOrderOfCalls, Attempted, Configured, Tuned, RadioAgrees, Begun, Written
<1> QED
  BY <1>1, <1>2, <1>3

LEMMA HangKeeps == IInv /\ Hang => IInv'
<1> SUFFICES ASSUME IInv, Hang PROVE IInv'
  OBVIOUS
<1> USE DEF IInv
<1>1. TypeOK'
  BY DEF Hang, TypeOK, Under, InOrderOfCalls, Attempted, SetupSteps
<1>2. Under'
  BY DEF Hang, TypeOK, Programs, Modems, Account, Flagged,
     Under, InOrderOfCalls, Attempted, Configured, Tuned, RadioAgrees, Begun, Written
<1>3. Account'
  BY DEF Hang, TypeOK, Account, Flagged, Recorded, ReportsAreTrue, CarriesItsOwnUnlessSpoiled,
     Under, InOrderOfCalls, Attempted, Configured, Tuned, RadioAgrees, Begun, Written
<1> QED
  BY <1>1, <1>2, <1>3

LEMMA PollKeeps == IInv /\ Poll => IInv'
<1> SUFFICES ASSUME IInv, Poll PROVE IInv'
  OBVIOUS
<1> USE DEF IInv
<1>1. TypeOK'
  BY DEF Poll, TypeOK, Under, InOrderOfCalls, Attempted, SetupSteps
<1>2. Under'
  BY DEF Poll, TypeOK, Programs, Modems, Account, Flagged,
     Under, InOrderOfCalls, Attempted, Configured, Tuned, RadioAgrees, Begun, Written
<1>3. Account'
  BY DEF Poll, TypeOK, Account, Flagged, Recorded, ReportsAreTrue, CarriesItsOwnUnlessSpoiled,
     Under, InOrderOfCalls, Attempted, Configured, Tuned, RadioAgrees, Begun, Written
<1> QED
  BY <1>1, <1>2, <1>3

LEMMA ReceiveClearKeeps == IInv /\ ReceiveClear => IInv'
<1> SUFFICES ASSUME IInv, ReceiveClear PROVE IInv'
  OBVIOUS
<1> USE DEF IInv
<1>1. TypeOK'
  <2>1. IsOver => current \in Call
    BY DEF TypeOK, Account, Flagged
  <2>2. robbed' \subseteq Call
    BY <2>1 DEF ReceiveClear, TypeOK
  <2> QED
    BY <2>2 DEF ReceiveClear, TypeOK
<1>2. Under'
  BY DEF ReceiveClear, TypeOK, Programs, Modems, Account, Flagged,
     Under, InOrderOfCalls, Attempted, Configured, Tuned, RadioAgrees, Begun, Written
<1>3. Account'
  BY DEF ReceiveClear, TypeOK, Account, Flagged, Recorded, ReportsAreTrue, CarriesItsOwnUnlessSpoiled,
     Under, InOrderOfCalls, Attempted, Configured, Tuned, RadioAgrees, Begun, Written
<1> QED
  BY <1>1, <1>2, <1>3

LEMMA StutterKeeps == IInv /\ UNCHANGED vars => IInv'
<1> SUFFICES ASSUME IInv, UNCHANGED vars PROVE IInv'
  OBVIOUS
<1> USE DEF IInv, vars
<1>1. TypeOK'
  BY DEF TypeOK
<1>2. Under'
  BY DEF Under, InOrderOfCalls, Attempted, Configured, Tuned, RadioAgrees, Begun, Written
<1>3. Account'
  BY DEF Account, Flagged, Begun, Recorded, ReportsAreTrue, CarriesItsOwnUnlessSpoiled
<1> QED
  BY <1>1, <1>2, <1>3

LEMMA SpecIInv == Spec => []IInv
<1>1. IInv /\ [Next]_vars => IInv'
  <2> SUFFICES ASSUME IInv, [Next]_vars PROVE IInv'
    OBVIOUS
  <2>1. CASE SetUp
    BY <2>1, LoRaBeginKeeps, LoRaBeginFailsKeeps, SetPacketTypeKeeps,
       SetModulationParamsKeeps, SetPacketParamsKeeps, SetUpRxKeeps, SetUpHangsKeeps DEF SetUp
  <2>2. CASE Arrive \/ TxDone \/ TxTimeout
    BY <2>2, ArriveKeeps, TxDoneKeeps, TxTimeoutKeeps
  <2>3. CASE Accept \/ Refuse \/ ReceiveMode \/ Hang
    BY <2>3, AcceptKeeps, RefuseKeeps, ReceiveModeKeeps, HangKeeps
  <2>4. CASE Sending
    BY <2>4, SendPacketParamsKeeps, SendClearKeeps, WriteBufferKeeps, SetStandbyKeeps,
       SetTxKeeps, CheckStatusKeeps, WaitIsOverKeeps, BackToRxKeeps, StillSendingKeeps,
       CollectedKeeps, CollectBackToRxKeeps DEF Sending
  <2>5. CASE Poll \/ ReceiveClear
    BY <2>5, PollKeeps, ReceiveClearKeeps
  <2>6. CASE UNCHANGED vars
    BY <2>6, StutterKeeps
  <2> QED
    BY <2>1, <2>2, <2>3, <2>4, <2>5, <2>6 DEF Next
<1> QED
  BY <1>1, InitIInv, PTL DEF Spec
-----------------------------------------------------------------------------
\* Every variable has its type, and no more calls are counted as lost than were made.
THEOREM TypeCorrect == Spec => []TypeOK
<1>1. IInv => TypeOK
  BY DEF IInv
<1> QED
  BY <1>1, SpecIInv, PTL

\* The chip never receives or sends with parameters of another modem, or sends with
\* the length of another packet: LoRaConfig, GFSKConfig and LoRaSend set them in an
\* order in which each is taken for what it is.
THEOREM ParametersAlwaysMatch == Spec => []ParametersMatch
<1>1. IInv => ParametersMatch
  BY DEF IInv, Under, InOrderOfCalls, Configured, ParametersMatch, TypeOK
<1> QED
  BY <1>1, SpecIInv, PTL

\* What LoRaSend returned of a call is true of what was on the air.
THEOREM ReportsAlwaysTrue == Spec => []ReportsAreTrue
<1>1. IInv => ReportsAreTrue
  BY DEF IInv, Account
<1> QED
  BY <1>1, SpecIInv, PTL

\* A call puts its own packet on the air.  The one exception is the code's: when there
\* was no memory to write it, or another was received over it, what goes out is a packet
\* received or that of an earlier call, and even then never that of a later call.
THEOREM AlwaysCarriesItsOwnUnlessSpoiled == Spec => []CarriesItsOwnUnlessSpoiled
<1>1. IInv => CarriesItsOwnUnlessSpoiled
  BY DEF IInv, Account
<1> QED
  BY <1>1, SpecIInv, PTL

\* txActive and the chip's mode agree: no transmission is cut off by another call, and
\* the chip is left listening.
THEOREM RadioAlwaysAgrees == Spec => []RadioAgrees
<1>1. IInv => RadioAgrees
  BY DEF IInv, Under, Tuned
<1> QED
  BY <1>1, SpecIInv, PTL

\* Nothing the driver does reaches a packet that is on the air.
THEOREM AirAlwaysUndisturbed == Spec => AirIsUndisturbed
<1>1. IInv /\ [Next]_vars => [chip = "TX" => UNCHANGED <<base, settings>>]_vars
  <2> SUFFICES ASSUME IInv, Next, chip = "TX" PROVE UNCHANGED <<base, settings>>
    OBVIOUS
  <2>1. setup = "done" /\ tx \notin Before
    BY DEF IInv, TypeOK, Under, InOrderOfCalls, Tuned
  <2>2. ~SetUp /\ ~Arrive /\ ~SendPacketParams /\ ~WriteBuffer
    BY <2>1 DEF SetUp, LoRaBegin, LoRaBeginFails, SetPacketType, SetModulationParams,
                SetPacketParams, SetUpRx, SetUpHangs, Setting, Arrive, SendPacketParams, WriteBuffer
  <2>3. CASE TxDone \/ TxTimeout
    BY <2>3 DEF TxDone, TxTimeout
  <2>4. CASE Accept \/ Refuse \/ ReceiveMode \/ Hang \/ Poll \/ ReceiveClear
    BY <2>4 DEF Accept, Refuse, ReceiveMode, Hang, Poll, ReceiveClear
  <2>5. CASE Sending
    BY <2>2, <2>5 DEF Sending, SendClear, SetStandby, SetTx, CheckStatus, WaitIsOver,
                      BackToRx, StillSending, Collected, CollectBackToRx
  <2> QED
    BY <2>2, <2>3, <2>4, <2>5 DEF Next
<1> QED
  BY <1>1, SpecIInv, PTL DEF Spec, AirIsUndisturbed

\* ReceiveMode never waits for a transmission that is over, unless LoRaReceive took its
\* flag away.
THEOREM StillSendingAlwaysTrue == Spec => StillSendingIsTrue
<1>1. IInv /\ [Next]_vars => [StillSending => chip = "TX" \/ current \in robbed]_vars
  BY DEF IInv, Account, Flagged, Begun, StillSending
<1> QED
  BY <1>1, SpecIInv, PTL DEF Spec, StillSendingIsTrue
=============================================================================
