--------------------------- MODULE GroundStation ---------------------------
(***************************************************************************)
(* The way of a packet through the firmware as it is configured today: the *)
(* receiving task (Receiver) hands what it reads to ogn_decoder_decode,    *)
(* which keeps the positions in the table of OGN devices (DeviceStore).    *)
(* All of it runs in the one task, so a call of the decoder is one step;   *)
(* the chip and the clock go on meanwhile.                                 *)
(*                                                                         *)
(* A report of the table is a packet and the packet whose signal strength  *)
(* it was stored with: they need not be the same.                          *)
(***************************************************************************)
EXTENDS Receiver

CONSTANTS Device, ZeroDevice,   \* OGN addresses; that of zeroed memory
          Sender,               \* who sent each packet
          Sized,                \* the packets of 20 or 26 bytes
          OtherData,            \* the packets flagged as no position
          MaxDevices,           \* MAX_OGN_DEVICES
          MaxTime               \* bound of the clock

ASSUME StationAssumption == /\ ZeroDevice \in Device
                            /\ Sender \in [0 .. MaxPackets -> Device]
                            /\ Sized \subseteq Packet \ Short
                            /\ OtherData \subseteq Packet
                            /\ MaxDevices \in Nat \ {0}
                            /\ MaxTime \in Nat

VARIABLES store, now, last      \* see DeviceStore

storeVars == <<store, now, last>>
stationVars == <<vars, storeVars>>

\* Zeroed memory holds no packet.
NoPacket == [data |-> 0, rssi |-> 0]

Table == INSTANCE DeviceStore WITH Data <- Call, ZeroData <- NoPacket

StationInit == Init /\ Table!Init

\* Mutant: the signal strength of the last call is used again.
OldSignal == [data |-> data, rssi |-> IF decoded = <<>> THEN 0 ELSE decoded[1].rssi]
\* Mutant: two buffers, the first of which is not filled again.
OldBuffer == IF Len(decoded) < 2 THEN [data |-> data, rssi |-> rssi] ELSE decoded[1]
\* What the decoder is given: the buffer, and the signal strength.
Given == [data |-> data, rssi |-> rssi]

\* unpack_ogn_tracking: the length came with one packet, the bytes, should the
\* chip have overwritten it, with another.
Unpacks == seen \in Sized /\ Given.data \notin OtherData

\* ogn_decoder_decode.
DecodeAndStore ==
  /\ Decode
  /\ IF LongEnough(seen) /\ Unpacks THEN Table!Store(Sender[Given.data], Given)
                                    ELSE UNCHANGED storeVars

\* A restart loses the packets in the chip and in the tables.
StationRestart == /\ Table!Restart
                  /\ buffer' = [i \in 0 .. Places - 1 |-> 0] /\ rxDone' = FALSE
                  /\ pc' = "GetIrqStatus" /\ seen' = 0 /\ data' = 0 /\ rssi' = 0
                  /\ lost' = lost \union {latest}
                  /\ UNCHANGED <<latest, decoded>>

\* The steps of the task that leave the table alone.
TaskElsewhere == \/ GetIrqStatus \/ ClearIrqStatus \/ GetRxBufferStatus
                 \/ ReadBuffer \/ ReadBufferFails \/ GetPacketStatus \/ Delay

StationNext == \/ (Arrive \/ TaskElsewhere \/ Hang) /\ UNCHANGED storeVars
               \/ DecodeAndStore
               \/ Table!Tick /\ UNCHANGED vars
               \/ StationRestart

StationSpec == StationInit /\ [][StationNext]_stationVars

\* The task has the processor whenever its transfers and delays are over.
StationFairSpec == StationSpec /\ WF_stationVars(TaskElsewhere /\ UNCHANGED storeVars)
                               /\ WF_stationVars(DecodeAndStore)
-----------------------------------------------------------------------------
\* The table's records are of packets: who sent them, and a signal strength.
StationTypeOK == /\ TypeOK
                 /\ Table!TypeOK

\* A record of a device is of a packet that this device sent, and its signal
\* strength is not older than the packet: the pieces of a report, which are read
\* from the chip one after the other while packets arrive, still belong together.
RecordsAreWhole ==
  \A i \in DOMAIN store :
    store[i].timestamp # 0 => /\ store[i].device = Sender[store[i].data.data]
                              /\ store[i].data.rssi >= store[i].data.data

\* A device is never seen to go back to an earlier report, though packets are
\* read twice, and devices are evicted and come again.
NeverGoesBack ==
  [][\A i \in DOMAIN store :
       store'[i].timestamp # 0 =>
         store'[i].data.data >= last[store'[i].device].data.data]_stationVars

\* As long as the radio answers and there is memory, a position is in the table
\* sooner or later, unless another packet comes or the device restarts first:
\* the flags are cleared before the packet is read, so that none can arrive
\* unnoticed.
PositionIsStored ==
  \A p \in Sized \ OtherData :
    latest = p ~> \/ latest # p \/ p \in lost \/ pc = "LoRaError"
                  \/ \E i \in DOMAIN store : store[i].data.data = p
=============================================================================
