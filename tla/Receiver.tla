------------------------------ MODULE Receiver ------------------------------
(***************************************************************************)
(* The task that takes packets from the radio (lora_rx_task, rf.c) and the *)
(* radio chip it polls (LoRaReceive and what it calls, ra01s.c).           *)
(*                                                                         *)
(* The chip receives on its own, whatever the task is doing: every packet  *)
(* replaces what the chip says of "the last packet" (length, place in its  *)
(* buffer, signal strength), is written to the next place in the buffer,   *)
(* and sets the RX_DONE flag.  The task needs several transfers over SPI   *)
(* to take one packet, each of which lets other tasks run, so that packets *)
(* arrive between any two of them.                                         *)
(*                                                                         *)
(* Packets are numbered in the order they arrive; the number stands for    *)
(* the content, and for the signal strength it arrived with.               *)
(***************************************************************************)
EXTENDS Naturals, Sequences

CONSTANTS MaxPackets,   \* bound of the packets on the air
          Short,        \* the packets of fewer than 20 bytes
          Places        \* packets the chip's buffer holds before it wraps

ASSUME ReceiverAssumption ==
  /\ MaxPackets \in Nat
  /\ Short \subseteq 1 .. MaxPackets
  /\ Places \in Nat \ {0}

VARIABLES
  latest,    \* chip: the last packet received, 0 before the first
  buffer,    \* chip: the packet at each place of the data buffer
  rxDone,    \* chip: SX126X_IRQ_RX_DONE
  pc,        \* where the task is
  seen,      \* the packet GetRxBufferStatus told the length and offset of
  data,      \* the packet whose bytes are in buf
  rssi,      \* the packet whose signal strength is in rssi and snr
  decoded,   \* history: the calls of ogn_decoder_decode
  lost       \* history: the packets lost for want of memory, or with a restart

chipVars == <<latest, buffer, rxDone>>
taskVars == <<pc, seen, data, rssi>>
vars == <<chipVars, taskVars, decoded, lost>>

Packet == 1 .. MaxPackets
PacketOrNone == 0 .. MaxPackets
\* Packet after packet goes to the next place of the buffer, which wraps.
Place(p) == p % Places
Call == [data : PacketOrNone, rssi : PacketOrNone]

Steps == {"GetIrqStatus", "ClearIrqStatus", "GetRxBufferStatus", "ReadBuffer",
          "GetPacketStatus", "decode", "vTaskDelay"}

Init == /\ latest = 0 /\ buffer = [i \in 0 .. Places - 1 |-> 0] /\ rxDone = FALSE
        /\ pc = "GetIrqStatus" /\ seen = 0 /\ data = 0 /\ rssi = 0
        /\ decoded = <<>> /\ lost = {}

\* Mutant: the flags are cleared once the packet has been read.
ClearLast(step) ==
  CASE step = "GetIrqStatus"      -> "GetRxBufferStatus"
    [] step = "GetRxBufferStatus" -> "ReadBuffer"
    [] step = "ReadBuffer"        -> "ClearIrqStatus"
    [] step = "ClearIrqStatus"    -> "GetPacketStatus"
    [] OTHER                      -> "decode"
\* Mutant: the flags are never cleared.
ClearNever(step) ==
  CASE step = "GetIrqStatus"      -> "GetRxBufferStatus"
    [] step = "GetRxBufferStatus" -> "ReadBuffer"
    [] step = "ReadBuffer"        -> "GetPacketStatus"
    [] OTHER                      -> "decode"
\* Mutant: the signal strength is asked for before the packet.
StatusFirst(step) ==
  CASE step = "GetIrqStatus"      -> "ClearIrqStatus"
    [] step = "ClearIrqStatus"    -> "GetPacketStatus"
    [] step = "GetPacketStatus"   -> "GetRxBufferStatus"
    [] step = "GetRxBufferStatus" -> "ReadBuffer"
    [] OTHER                      -> "decode"
\* The order in which a packet is taken: LoRaReceive clears the flags before it
\* reads the packet, and lora_rx_task asks for the signal strength after it.
Then(step) ==
  CASE step = "GetIrqStatus"      -> "ClearIrqStatus"
    [] step = "ClearIrqStatus"    -> "GetRxBufferStatus"
    [] step = "GetRxBufferStatus" -> "ReadBuffer"
    [] step = "ReadBuffer"        -> "GetPacketStatus"
    [] OTHER                      -> "decode"
-----------------------------------------------------------------------------
\* The chip receives a packet, with or without a valid checksum: nothing looks
\* at the CRC_ERR flag.
Arrive ==
  /\ latest < MaxPackets
  /\ latest' = latest + 1
  /\ buffer' = [buffer EXCEPT ![Place(latest + 1)] = latest + 1]
  /\ rxDone' = TRUE
  /\ UNCHANGED <<taskVars, decoded, lost>>

GetIrqStatus ==
  /\ pc = "GetIrqStatus"
  /\ pc' = IF rxDone THEN Then(pc) ELSE "vTaskDelay"
  /\ UNCHANGED <<chipVars, seen, data, rssi, decoded, lost>>

ClearIrqStatus ==
  /\ pc = "ClearIrqStatus"
  /\ rxDone' = FALSE
  /\ pc' = Then(pc)
  /\ UNCHANGED <<latest, buffer, seen, data, rssi, decoded, lost>>

GetRxBufferStatus ==
  /\ pc = "GetRxBufferStatus"
  /\ seen' = latest
  /\ pc' = Then(pc)
  /\ UNCHANGED <<chipVars, data, rssi, decoded, lost>>

ReadBuffer ==
  /\ pc = "ReadBuffer"
  /\ data' = buffer[Place(seen)]
  /\ pc' = Then(pc)
  /\ UNCHANGED <<chipVars, seen, rssi, decoded, lost>>

\* malloc returns NULL: ReadBuffer says that nothing was received.
ReadBufferFails ==
  /\ pc = "ReadBuffer"
  /\ lost' = lost \union {seen}
  /\ pc' = "vTaskDelay"
  /\ UNCHANGED <<chipVars, seen, data, rssi, decoded>>

GetPacketStatus ==
  /\ pc = "GetPacketStatus"
  /\ rssi' = latest
  /\ pc' = Then(pc)
  /\ UNCHANGED <<chipVars, seen, data, decoded, lost>>

\* rxLen >= 20
LongEnough(p) == p \notin Short

Decode ==
  /\ pc = "decode"
  /\ decoded' = IF LongEnough(seen) THEN Append(decoded, [data |-> data, rssi |-> rssi])
                                    ELSE decoded
  /\ pc' = "vTaskDelay"
  /\ UNCHANGED <<chipVars, seen, data, rssi, lost>>

Delay ==
  /\ pc = "vTaskDelay"
  /\ pc' = "GetIrqStatus"
  /\ UNCHANGED <<chipVars, seen, data, rssi, decoded, lost>>

\* The chip stays busy, or nine attempts at a command fail: LoRaError never
\* returns, and the task with it.
Hang ==
  /\ pc \notin {"decode", "vTaskDelay", "LoRaError"}
  /\ pc' = "LoRaError"
  /\ UNCHANGED <<chipVars, seen, data, rssi, decoded, lost>>

Task == \/ GetIrqStatus \/ ClearIrqStatus \/ GetRxBufferStatus
        \/ ReadBuffer \/ ReadBufferFails \/ GetPacketStatus \/ Decode \/ Delay

Next == Arrive \/ Task \/ Hang

Spec == Init /\ [][Next]_vars
-----------------------------------------------------------------------------
\* Every variable has its type, and the decoder is not called for ever.
TypeOK == /\ latest \in PacketOrNone
          /\ buffer \in [0 .. Places - 1 -> PacketOrNone]
          /\ rxDone \in BOOLEAN
          /\ pc \in Steps \union {"LoRaError"}
          /\ seen \in PacketOrNone /\ data \in PacketOrNone /\ rssi \in PacketOrNone
          /\ decoded \in Seq(Call)
          /\ Len(decoded) <= 2 * latest
          /\ lost \subseteq PacketOrNone

\* Packets reach the decoder in the order they were on the air, whatever
\* arrives while one is read, and none of them a third time: one that arrives
\* between the clearing of the flags and the reading of the buffer is read twice.
InOrder ==
  \A i, j \in DOMAIN decoded :
    /\ i < j     => decoded[i].data <= decoded[j].data
    /\ i < j - 1 => decoded[i].data < decoded[j].data

\* The signal strength a packet is decoded with is its own or that of a packet
\* that came after it, never one left over from before.
SignalNotStale == \A i \in DOMAIN decoded : decoded[i].rssi >= decoded[i].data
=============================================================================
