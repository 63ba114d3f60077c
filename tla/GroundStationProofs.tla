------------------------- MODULE GroundStationProofs -------------------------
(***************************************************************************)
(* The way of a packet, for every number of packets and devices and every  *)
(* size of the chip's buffer and of the table: first the receiving task    *)
(* alone, then together with the decoder and the table.  The task's        *)
(* invariant is that of both, and the table, which in the firmware is      *)
(* written by the task only, behaves as DeviceStore says, so that what is  *)
(* proved about DeviceStore can be used.                                   *)
(***************************************************************************)
EXTENDS GroundStation, TLAPS

\* The packet of the i-th call of the decoder.
Nth(i) == decoded[i].data

AllAtMost(p) == \A i \in DOMAIN decoded : Nth(i) <= p
AllBelow(p)  == \A i \in DOMAIN decoded : Nth(i) < p
AtMostOnce(p) == \A i, j \in DOMAIN decoded : i < j => ~(Nth(i) = p /\ Nth(j) = p)

Types == /\ latest \in PacketOrNone
         /\ buffer \in [0 .. Places - 1 -> PacketOrNone]
         /\ rxDone \in BOOLEAN
         /\ pc \in Steps \union {"LoRaError"}
         /\ seen \in PacketOrNone /\ data \in PacketOrNone /\ rssi \in PacketOrNone
         /\ decoded \in Seq(Call)
         /\ lost \subseteq PacketOrNone

\* What is read is where the chip wrote it, or something that came later is.
BufferHolds ==
  /\ rxDone \/ pc = "GetRxBufferStatus" => buffer[Place(latest)] = latest
  /\ pc = "ReadBuffer" => buffer[Place(seen)] \in seen .. latest

Flagged == /\ rxDone => latest >= 1
           /\ pc = "ClearIrqStatus" => rxDone

\* What is being read is no older than all that was decoded, and was decoded
\* at most once.
Reading ==
  /\ AllAtMost(latest)
  /\ pc = "GetRxBufferStatus" => latest >= 1 /\ AtMostOnce(latest)
  /\ pc = "ReadBuffer" => seen \in 1 .. latest /\ AllAtMost(seen) /\ AtMostOnce(seen)
  /\ pc \in {"GetPacketStatus", "decode"} =>
       data \in 1 .. latest /\ AllAtMost(data) /\ AtMostOnce(data)
  /\ pc = "decode" => rssi >= data

\* A flag that is set after it was cleared is that of a packet which nobody has
\* decoded; a flag that leads to another reading, of one decoded at most once.
Fresh ==
  /\ pc \in {"vTaskDelay", "GetIrqStatus", "ClearIrqStatus"} /\ rxDone => AtMostOnce(latest)
  /\ pc \in {"GetRxBufferStatus", "ReadBuffer", "GetPacketStatus", "decode"} /\ rxDone =>
       AllBelow(latest)

\* Two calls for each packet at most, so far.
Counted ==
  \A i \in DOMAIN decoded :
    /\ i <= 2 * Nth(i)
    /\ i = 2 * Nth(i) => i > 1 /\ Nth(i - 1) = Nth(i)

Reader == Flagged /\ BufferHolds /\ Reading /\ Fresh
Calls  == InOrder /\ SignalNotStale /\ Counted
IInv   == Types /\ Reader /\ Calls
-----------------------------------------------------------------------------
LEMMA PlaceType == \A p \in Nat : Place(p) \in 0 .. Places - 1
BY ReceiverAssumption DEF Place

LEMMA CallsAreTyped ==
  ASSUME Types
  PROVE  /\ Len(decoded) \in Nat /\ DOMAIN decoded = 1 .. Len(decoded)
         /\ \A i \in DOMAIN decoded : Nth(i) \in Nat /\ decoded[i].rssi \in Nat
<1>1. decoded \in Seq(Call)
  BY DEF Types
<1>2. \A i \in DOMAIN decoded : decoded[i] \in Call
  BY <1>1
<1> QED
  BY <1>1, <1>2 DEF Call, PacketOrNone, Nth

LEMMA InitIInv == Init => IInv
<1> SUFFICES ASSUME Init PROVE IInv
  OBVIOUS
<1> USE DEF Init
<1>1. decoded = <<>> /\ DOMAIN decoded = {}
  OBVIOUS
<1>2. Types
  <2>1. 0 \in PacketOrNone
    BY ReceiverAssumption DEF PacketOrNone
  <2>2. pc \in Steps \union {"LoRaError"}
    BY DEF Steps
  <2>3. decoded \in Seq(Call)
    OBVIOUS
  <2>4. buffer \in [0 .. Places - 1 -> PacketOrNone]
    BY <2>1
  <2> QED
    BY <2>1, <2>2, <2>3, <2>4 DEF Types
<1>4. Reader
  BY <1>1 DEF Reader, Flagged, BufferHolds, Reading, Fresh, AllAtMost
<1>5. Calls
  BY <1>1 DEF Calls, InOrder, SignalNotStale, Counted
<1> QED
  BY <1>2, <1>4, <1>5 DEF IInv

\* A step that does not call the decoder leaves the history as it is.
LEMMA CallsKept == Calls /\ decoded' = decoded => Calls'
BY DEF Calls, InOrder, SignalNotStale, Counted, Nth

LEMMA ArriveKeeps == IInv /\ Arrive => IInv'
<1> SUFFICES ASSUME IInv, Arrive PROVE IInv'
  OBVIOUS
<1> USE DEF IInv
<1>1. /\ latest < MaxPackets /\ latest' = latest + 1 /\ rxDone' = TRUE
      /\ buffer' = [buffer EXCEPT ![Place(latest + 1)] = latest + 1]
      /\ pc' = pc /\ seen' = seen /\ data' = data /\ rssi' = rssi
      /\ decoded' = decoded /\ lost' = lost
  BY DEF Arrive, taskVars
<1>2. latest \in Nat /\ MaxPackets \in Nat /\ latest' \in PacketOrNone
  BY <1>1, ReceiverAssumption DEF Types, PacketOrNone
<1>3. Types'
  <2>1. buffer' \in [0 .. Places - 1 -> PacketOrNone]
    BY <1>1, <1>2 DEF Types
  <2> QED
    BY <1>1, <1>2, <2>1 DEF Types
<1>4. BufferHolds'
  <2>1. Place(latest + 1) \in 0 .. Places - 1
    BY <1>2, PlaceType
  <2>2. buffer'[Place(latest')] = latest'
    BY <1>1, <2>1 DEF Types
  <2>3. CASE pc # "ReadBuffer"
    BY <1>1, <2>2, <2>3 DEF BufferHolds
  <2>4. CASE pc = "ReadBuffer"
    <3>1. seen \in 1 .. latest /\ buffer[Place(seen)] \in seen .. latest
      BY <2>4 DEF Reader, Reading, BufferHolds
    <3>2. Place(seen) \in 0 .. Places - 1
      BY <1>2, <3>1, PlaceType
    <3>3. buffer'[Place(seen)] \in seen .. latest + 1
      BY <1>1, <1>2, <2>1, <3>1, <3>2 DEF Types
    <3>4. buffer'[Place(seen')] \in seen' .. latest'
      BY <1>1, <3>3
    <3> QED
      BY <1>1, <2>2, <2>4, <3>4 DEF BufferHolds, Place
  <2> QED
    BY <2>3, <2>4
<1>5. Reader'
  <2>1. \A i \in DOMAIN decoded : Nth(i) \in Nat
    BY CallsAreTyped
  <2>2. \A i \in DOMAIN decoded : Nth(i) < latest'
    BY <1>1, <1>2, <2>1 DEF Reader, Reading, AllAtMost
  <2>3. AllBelow(latest)' /\ AllAtMost(latest)' /\ AtMostOnce(latest)'
    BY <1>1, <1>2, <2>1, <2>2 DEF AllBelow, AllAtMost, AtMostOnce, Nth
  <2>4. Flagged'
    BY <1>1, <1>2 DEF Reader, Flagged
  <2>5. Fresh'
    BY <2>3 DEF Fresh
  <2>6. Reading'
    BY <1>1, <1>2, <2>3 DEF Reader, Reading, AllAtMost, AtMostOnce, Nth
  <2> QED
    BY <1>4, <2>4, <2>5, <2>6 DEF Reader
<1>6. Calls'
  BY <1>1, CallsKept
<1> QED
  BY <1>3, <1>5, <1>6

\* What is left to show of a step of the task that does not call the decoder.
LEMMA QuietStep ==
  ASSUME IInv, decoded' = decoded, Types', Reader' PROVE IInv'
BY CallsKept DEF IInv

LEMMA GetIrqStatusKeeps == IInv /\ GetIrqStatus => IInv'
<1> SUFFICES ASSUME IInv, GetIrqStatus PROVE IInv'
  OBVIOUS
<1>1. /\ pc = "GetIrqStatus" /\ pc' = IF rxDone THEN "ClearIrqStatus" ELSE "vTaskDelay"
      /\ latest' = latest /\ buffer' = buffer /\ rxDone' = rxDone
      /\ seen' = seen /\ data' = data /\ rssi' = rssi /\ decoded' = decoded /\ lost' = lost
  BY DEF GetIrqStatus, chipVars, Then
<1>2. Types'
  BY <1>1 DEF IInv, Types, Steps
<1>3. Reader'
  BY <1>1 DEF IInv, Reader, Flagged, BufferHolds, Place, Reading, Fresh, AllAtMost, AllBelow, AtMostOnce, Nth
<1> QED
  BY <1>1, <1>2, <1>3, QuietStep

LEMMA ClearIrqStatusKeeps == IInv /\ ClearIrqStatus => IInv'
<1> SUFFICES ASSUME IInv, ClearIrqStatus PROVE IInv'
  OBVIOUS
<1>1. /\ pc = "ClearIrqStatus" /\ pc' = "GetRxBufferStatus" /\ rxDone' = FALSE
      /\ latest' = latest /\ buffer' = buffer
      /\ seen' = seen /\ data' = data /\ rssi' = rssi /\ decoded' = decoded /\ lost' = lost
  BY DEF ClearIrqStatus, Then
<1>2. Types'
  BY <1>1 DEF IInv, Types, Steps
<1>3. Reader'
  BY <1>1 DEF IInv, Reader, Flagged, BufferHolds, Place, Reading, Fresh, AllAtMost, AllBelow, AtMostOnce, Nth
<1> QED
  BY <1>1, <1>2, <1>3, QuietStep

LEMMA GetRxBufferStatusKeeps == IInv /\ GetRxBufferStatus => IInv'
<1> SUFFICES ASSUME IInv, GetRxBufferStatus PROVE IInv'
  OBVIOUS
<1>1. /\ pc = "GetRxBufferStatus" /\ pc' = "ReadBuffer" /\ seen' = latest
      /\ latest' = latest /\ buffer' = buffer /\ rxDone' = rxDone
      /\ data' = data /\ rssi' = rssi /\ decoded' = decoded /\ lost' = lost
  BY DEF GetRxBufferStatus, chipVars, Then
<1>2. Types'
  BY <1>1 DEF IInv, Types, Steps
<1>3. latest \in Nat
  BY ReceiverAssumption DEF IInv, Types, PacketOrNone
<1>4. Reader'
  BY <1>1, <1>3 DEF IInv, Reader, Flagged, BufferHolds, Place, Reading, Fresh, AllAtMost, AllBelow, AtMostOnce, Nth
<1> QED
  BY <1>1, <1>2, <1>4, QuietStep

LEMMA ReadBufferKeeps == IInv /\ ReadBuffer => IInv'
<1> SUFFICES ASSUME IInv, ReadBuffer PROVE IInv'
  OBVIOUS
<1>1. /\ pc = "ReadBuffer" /\ pc' = "GetPacketStatus" /\ data' = buffer[Place(seen)]
      /\ latest' = latest /\ buffer' = buffer /\ rxDone' = rxDone
      /\ seen' = seen /\ rssi' = rssi /\ decoded' = decoded /\ lost' = lost
  BY DEF ReadBuffer, chipVars, Then
<1>2. /\ latest \in PacketOrNone /\ seen \in 1 .. latest /\ latest \in Nat
      /\ AllAtMost(seen) /\ AtMostOnce(seen)
  BY <1>1, ReceiverAssumption DEF IInv, Types, PacketOrNone, Reader, Reading
<1>3. data' \in seen .. latest
  BY <1>1, <1>2 DEF IInv, Reader, BufferHolds
<1>4. Types'
  <2>1. data' \in PacketOrNone
    BY <1>2, <1>3, ReceiverAssumption DEF PacketOrNone
  <2> QED
    BY <1>1, <2>1 DEF IInv, Types, Steps
<1>5. \A i \in DOMAIN decoded : Nth(i) \in Nat
  BY CallsAreTyped DEF IInv
<1>6. AllAtMost(data')
  BY <1>2, <1>3, <1>5 DEF AllAtMost
<1>7. AtMostOnce(data')
  <2>1. CASE data' = seen
    BY <1>2, <2>1
  <2>2. CASE data' > seen
    BY <1>2, <1>3, <1>5, <2>2 DEF AtMostOnce, AllAtMost
  <2> QED
    BY <1>2, <1>3, <2>1, <2>2
<1>8. Reading'
  <2>1. data' \in 1 .. latest'
    BY <1>1, <1>2, <1>3
  <2>2. AllAtMost(data)' /\ AtMostOnce(data)'
    BY <1>1, <1>6, <1>7 DEF AllAtMost, AtMostOnce, Nth
  <2>3. AllAtMost(latest)'
    BY <1>1 DEF IInv, Reader, Reading, AllAtMost, Nth
  <2> QED
    BY <1>1, <2>1, <2>2, <2>3 DEF Reading
<1>9. Flagged' /\ BufferHolds' /\ Fresh'
  BY <1>1 DEF IInv, Reader, Flagged, BufferHolds, Place, Fresh, AllBelow, Nth
<1> QED
  BY <1>1, <1>4, <1>8, <1>9, QuietStep DEF Reader

LEMMA ReadBufferFailsKeeps == IInv /\ ReadBufferFails => IInv'
<1> SUFFICES ASSUME IInv, ReadBufferFails PROVE IInv'
  OBVIOUS
<1>1. /\ pc = "ReadBuffer" /\ pc' = "vTaskDelay" /\ lost' = lost \union {seen}
      /\ latest' = latest /\ buffer' = buffer /\ rxDone' = rxDone
      /\ seen' = seen /\ data' = data /\ rssi' = rssi /\ decoded' = decoded
  BY DEF ReadBufferFails, chipVars
<1>2. Types'
  BY <1>1 DEF IInv, Types, Steps
<1>3. rxDone => AtMostOnce(latest)
  BY <1>1, CallsAreTyped, ReceiverAssumption
  DEF IInv, Types, PacketOrNone, Reader, Fresh, AllBelow, AtMostOnce
<1>4. Fresh'
  BY <1>1, <1>3 DEF Fresh, AtMostOnce, Nth
<1>5. Flagged' /\ BufferHolds' /\ Reading'
  BY <1>1 DEF IInv, Reader, Flagged, BufferHolds, Place, Reading, AllAtMost, Nth
<1> QED
  BY <1>1, <1>2, <1>4, <1>5, QuietStep DEF Reader

LEMMA GetPacketStatusKeeps == IInv /\ GetPacketStatus => IInv'
<1> SUFFICES ASSUME IInv, GetPacketStatus PROVE IInv'
  OBVIOUS
<1>1. /\ pc = "GetPacketStatus" /\ pc' = "decode" /\ rssi' = latest
      /\ latest' = latest /\ buffer' = buffer /\ rxDone' = rxDone
      /\ seen' = seen /\ data' = data /\ decoded' = decoded /\ lost' = lost
  BY DEF GetPacketStatus, chipVars, Then
<1>2. Types'
  BY <1>1 DEF IInv, Types, Steps
<1>3. latest \in Nat
  BY ReceiverAssumption DEF IInv, Types, PacketOrNone
<1>4. Reader'
  BY <1>1, <1>3 DEF IInv, Reader, Flagged, BufferHolds, Place, Reading, Fresh, AllAtMost, AllBelow, AtMostOnce, Nth
<1> QED
  BY <1>1, <1>2, <1>4, QuietStep

LEMMA DelayKeeps == IInv /\ Delay => IInv'
<1> SUFFICES ASSUME IInv, Delay PROVE IInv'
  OBVIOUS
<1>1. /\ pc = "vTaskDelay" /\ pc' = "GetIrqStatus"
      /\ latest' = latest /\ buffer' = buffer /\ rxDone' = rxDone
      /\ seen' = seen /\ data' = data /\ rssi' = rssi /\ decoded' = decoded /\ lost' = lost
  BY DEF Delay, chipVars
<1>2. Types'
  BY <1>1 DEF IInv, Types, Steps
<1>3. Reader'
  BY <1>1 DEF IInv, Reader, Flagged, BufferHolds, Place, Reading, Fresh, AllAtMost, AllBelow, AtMostOnce, Nth
<1> QED
  BY <1>1, <1>2, <1>3, QuietStep

LEMMA HangKeeps == IInv /\ Hang => IInv'
<1> SUFFICES ASSUME IInv, Hang PROVE IInv'
  OBVIOUS
<1>1. /\ pc' = "LoRaError"
      /\ latest' = latest /\ buffer' = buffer /\ rxDone' = rxDone
      /\ seen' = seen /\ data' = data /\ rssi' = rssi /\ decoded' = decoded /\ lost' = lost
  BY DEF Hang, chipVars
<1>2. Types'
  BY <1>1 DEF IInv, Types, Steps
<1>3. Reader'
  BY <1>1 DEF IInv, Reader, Flagged, BufferHolds, Place, Reading, Fresh, AllAtMost, Nth
<1> QED
  BY <1>1, <1>2, <1>3, QuietStep
-----------------------------------------------------------------------------
\* The call of the decoder, where a packet that is long enough is added to the
\* history: the only step in which the order of the packets is at stake.
LEMMA DecodeKeeps == IInv /\ Decode => IInv'
<1> SUFFICES ASSUME IInv, Decode PROVE IInv'
  OBVIOUS
<1> DEFINE call == [data |-> data, rssi |-> rssi]
<1>1. /\ pc = "decode" /\ pc' = "vTaskDelay"
      /\ latest' = latest /\ buffer' = buffer /\ rxDone' = rxDone
      /\ seen' = seen /\ data' = data /\ rssi' = rssi /\ lost' = lost
      /\ decoded' = IF LongEnough(seen) THEN Append(decoded, call) ELSE decoded
  BY DEF Decode, chipVars
<1>2. /\ latest \in Nat /\ data \in Nat /\ rssi \in Nat /\ call \in Call
      /\ decoded \in Seq(Call) /\ Len(decoded) \in Nat
      /\ DOMAIN decoded = 1 .. Len(decoded)
      /\ \A i \in DOMAIN decoded : Nth(i) \in Nat /\ decoded[i].rssi \in Nat
  BY CallsAreTyped, ReceiverAssumption DEF IInv, Types, PacketOrNone, Call
<1>3. /\ data \in 1 .. latest /\ AllAtMost(data) /\ AtMostOnce(data) /\ rssi >= data
      /\ rxDone => AllBelow(latest)
  BY <1>1 DEF IInv, Reader, Reading, Fresh
<1>4. Flagged' /\ BufferHolds'
  BY <1>1 DEF IInv, Reader, Flagged, BufferHolds, Place
<1>5. CASE decoded' = decoded
  <2>1. Types'
    BY <1>1, <1>5 DEF IInv, Types, Steps
  <2>2. rxDone => AtMostOnce(latest)
    BY <1>2, <1>3 DEF AllBelow, AtMostOnce
  <2>3. Fresh' /\ Reading'
    BY <1>1, <1>5, <2>2 DEF IInv, Reader, Fresh, Reading, AllAtMost, AtMostOnce, Nth
  <2> QED
    BY <1>1, <1>4, <1>5, <2>1, <2>3, QuietStep DEF Reader
<1>6. CASE decoded' = Append(decoded, call)
  <2>0. PICK n \in Nat : n = Len(decoded)
    BY <1>2
  <2>1. /\ decoded' \in Seq(Call) /\ Len(decoded') = n + 1 /\ DOMAIN decoded' = 1 .. n + 1
        /\ \A i \in 1 .. n : decoded'[i] = decoded[i]
        /\ decoded'[n + 1] = call
    <3> HIDE DEF call
    <3> QED
      BY <1>2, <1>6, <2>0
  <2>2. /\ \A i \in 1 .. n : decoded'[i].data = Nth(i)
        /\ decoded'[n + 1].data = data /\ decoded'[n + 1].rssi = rssi
    BY <2>1 DEF Nth
  <2>3. Types'
    BY <1>1, <2>1 DEF IInv, Types, Steps
  <2>5. Reading'
    <3>1. \A i \in DOMAIN decoded' : decoded'[i].data <= latest
      <4> SUFFICES ASSUME NEW i \in 1 .. n + 1 PROVE decoded'[i].data <= latest
        BY <2>1
      <4>1. CASE i = n + 1
        BY <1>2, <2>0, <1>3, <2>2, <4>1
      <4>2. CASE i \in 1 .. n
        BY <1>2, <2>0, <2>2, <4>2 DEF IInv, Reader, Reading, AllAtMost
      <4> QED
        BY <1>2, <2>0, <4>1, <4>2
    <3>2. AllAtMost(latest)'
      BY <1>1, <3>1 DEF AllAtMost, Nth
    <3> QED
      BY <1>1, <3>2 DEF Reading
  <2>6. Fresh'
    <3> SUFFICES ASSUME rxDone, NEW i \in 1 .. n + 1, NEW j \in 1 .. n + 1, i < j,
                        decoded'[i].data = latest, decoded'[j].data = latest
                 PROVE  FALSE
      <4>1. AtMostOnce(latest)' \/ ~rxDone'
        BY <1>1, <2>1 DEF AtMostOnce, Nth
      <4> QED
        BY <1>1, <4>1 DEF Fresh
    <3>1. i \in 1 .. n
      BY <1>2, <2>0
    <3> QED
      BY <1>2, <2>0, <1>3, <2>2, <3>1 DEF AllBelow
  <2>7. InOrder'
    <3> SUFFICES ASSUME NEW i \in 1 .. n + 1, NEW j \in 1 .. n + 1
                 PROVE  /\ i < j     => decoded'[i].data <= decoded'[j].data
                        /\ i < j - 1 => decoded'[i].data < decoded'[j].data
      BY <2>1 DEF InOrder, Nth
    <3>1. CASE i \in 1 .. n /\ j \in 1 .. n
      BY <1>2, <2>0, <2>2, <3>1 DEF IInv, Calls, InOrder, Nth
    <3>2. CASE i = n + 1
      BY <1>2, <2>0, <3>2
    <3>3. CASE i \in 1 .. n /\ j = n + 1
      <4>1. decoded'[i].data <= decoded'[j].data
        BY <1>2, <2>0, <1>3, <2>2, <3>3 DEF AllAtMost
      <4>2. ASSUME i < j - 1 PROVE Nth(i) < data
        <5>1. i \in 1 .. n /\ n \in 1 .. n /\ i < n
          BY <1>2, <2>0, <3>3, <4>2
        <5>2. Nth(i) <= Nth(n) /\ Nth(n) <= data /\ Nth(i) \in Nat /\ Nth(n) \in Nat
          BY <1>2, <2>0, <1>3, <5>1 DEF IInv, Calls, InOrder, AllAtMost, Nth
        <5>3. ~(Nth(i) = data /\ Nth(n) = data)
          BY <1>2, <2>0, <1>3, <5>1 DEF AtMostOnce
        <5> QED
          BY <1>2, <2>0, <5>2, <5>3
      <4> QED
        BY <2>2, <3>3, <4>1, <4>2
    <3> QED
      BY <1>2, <2>0, <3>1, <3>2, <3>3
  <2>8. SignalNotStale'
    <3> SUFFICES ASSUME NEW i \in 1 .. n + 1 PROVE decoded'[i].rssi >= decoded'[i].data
      BY <2>1 DEF SignalNotStale
    <3>1. CASE i = n + 1
      BY <1>3, <2>2, <3>1 DEF Nth
    <3>2. CASE i \in 1 .. n
      BY <1>2, <2>0, <2>1, <3>2 DEF IInv, Calls, SignalNotStale
    <3> QED
      BY <1>2, <2>0, <3>1, <3>2
  <2>9. Counted'
    <3> SUFFICES ASSUME NEW i \in 1 .. n + 1
                 PROVE  /\ i <= 2 * decoded'[i].data
                        /\ i = 2 * decoded'[i].data => i > 1 /\ decoded'[i - 1].data = decoded'[i].data
      BY <2>1 DEF Counted, Nth
    <3>1. CASE i \in 1 .. n
      <4>1. i > 1 => i - 1 \in 1 .. n
        BY <1>2, <2>0, <3>1
      <4>2. /\ i <= 2 * Nth(i)
            /\ i = 2 * Nth(i) => i > 1 /\ Nth(i - 1) = Nth(i)
        BY <1>2, <2>0, <3>1 DEF IInv, Calls, Counted
      <4> QED
        BY <2>2, <3>1, <4>1, <4>2
    <3>2. CASE i = n + 1 /\ n = 0
      BY <1>2, <2>0, <1>3, <2>2, <3>2
    <3>3. CASE i = n + 1 /\ n >= 1
      <4>1. /\ n \in 1 .. n /\ Nth(n) \in Nat /\ Nth(n) <= data
            /\ n <= 2 * Nth(n)
            /\ n = 2 * Nth(n) => n > 1 /\ Nth(n - 1) = Nth(n)
        BY <1>2, <2>0, <1>3, <3>3 DEF IInv, Calls, Counted, AllAtMost
      <4>2. CASE Nth(n) < data
        BY <1>2, <2>0, <2>2, <3>3, <4>1, <4>2
      <4>3. CASE Nth(n) = data
        <5>1. n # 2 * Nth(n)
          <6> SUFFICES ASSUME n > 1, Nth(n - 1) = data PROVE FALSE
            BY <4>1, <4>3
          <6>1. n - 1 \in DOMAIN decoded /\ n \in DOMAIN decoded /\ n - 1 < n
            BY <1>2, <2>0
          <6> QED
            BY <1>3, <4>3, <6>1 DEF AtMostOnce
        <5>2. decoded'[n].data = Nth(n) /\ decoded'[n + 1].data = data /\ i - 1 = n
          BY <1>2, <2>0, <2>2, <3>3, <4>1
        <5>3. n <= 2 * data /\ n # 2 * data
          BY <4>1, <4>3, <5>1
        <5>4. i <= 2 * data
          <6>1. PICK k \in Nat : k = 2 * data
            BY <1>2
          <6>2. i = n + 1 /\ n <= k /\ n # k
            BY <3>3, <5>3, <6>1
          <6> QED
            BY <2>0, <6>1, <6>2
        <5>5. i > 1 /\ decoded'[i - 1].data = data /\ decoded'[i].data = data
          BY <2>0, <3>3, <4>3, <5>2
        <5> QED
          BY <5>4, <5>5
      <4> QED
        BY <1>2, <2>0, <4>1, <4>2, <4>3
    <3> QED
      BY <1>2, <2>0, <3>1, <3>2, <3>3
  <2> QED
    BY <1>4, <2>3, <2>5, <2>6, <2>7, <2>8, <2>9 DEF IInv, Reader, Calls
<1> QED
  BY <1>1, <1>5, <1>6

LEMMA StepIInv == IInv /\ [Next]_vars => IInv'
<1> SUFFICES ASSUME IInv, [Next]_vars PROVE IInv'
  OBVIOUS
<1>1. CASE Arrive
  BY <1>1, ArriveKeeps
<1>2. CASE Task
  BY <1>2, GetIrqStatusKeeps, ClearIrqStatusKeeps, GetRxBufferStatusKeeps, ReadBufferKeeps,
     ReadBufferFailsKeeps, GetPacketStatusKeeps, DecodeKeeps, DelayKeeps DEF Task
<1>3. CASE Hang
  BY <1>3, HangKeeps
<1>4. CASE UNCHANGED vars
  <2>1. Types'
    BY <1>4 DEF IInv, Types, vars, chipVars, taskVars
  <2>2. Reader'
    BY <1>4 DEF IInv, Reader, Flagged, BufferHolds, Place, Reading, Fresh, AllAtMost, AllBelow, AtMostOnce, Nth,
                vars, chipVars, taskVars
  <2> QED
    BY <1>4, <2>1, <2>2, QuietStep DEF vars, chipVars
<1> QED
  BY <1>1, <1>2, <1>3, <1>4 DEF Next

LEMMA IInvTypeOK == IInv => TypeOK
<1> SUFFICES ASSUME IInv PROVE TypeOK
  OBVIOUS
<1>1. /\ Len(decoded) \in Nat /\ DOMAIN decoded = 1 .. Len(decoded) /\ latest \in Nat
      /\ \A i \in DOMAIN decoded : Nth(i) \in Nat
  BY CallsAreTyped, ReceiverAssumption DEF IInv, Types, PacketOrNone
<1>2. Len(decoded) <= 2 * latest
  <2>1. CASE Len(decoded) = 0
    BY <1>1, <2>1
  <2>2. CASE Len(decoded) >= 1
    <3>1. Len(decoded) \in DOMAIN decoded
      BY <1>1, <2>2
    <3>2. /\ Len(decoded) <= 2 * Nth(Len(decoded)) /\ Nth(Len(decoded)) <= latest
          /\ Nth(Len(decoded)) \in Nat
      BY <1>1, <3>1 DEF IInv, Calls, Counted, Reader, Reading, AllAtMost
    <3> QED
      BY <1>1, <3>2
  <2> QED
    BY <1>1, <2>1, <2>2
<1> QED
  BY <1>2 DEF IInv, Types, TypeOK

\* Every variable of the chip and of the task has its type, and the decoder is
\* called no more than twice for each packet that was on the air.
THEOREM ReceiverTypes == Spec => []TypeOK
BY InitIInv, StepIInv, IInvTypeOK, PTL DEF Spec

\* Packets reach the decoder in the order they were on the air, and none a
\* third time, whatever arrives while lora_rx_task takes one from the chip.
THEOREM PacketsInOrder == Spec => []InOrder
<1>1. IInv => InOrder
  BY DEF IInv, Calls
<1> QED
  BY InitIInv, StepIInv, <1>1, PTL DEF Spec

\* lora_rx_task never decodes a packet with the signal strength of one that
\* came before it.
THEOREM SignalOfThisOrLater == Spec => []SignalNotStale
<1>1. IInv => SignalNotStale
  BY DEF IInv, Calls
<1> QED
  BY InitIInv, StepIInv, <1>1, PTL DEF Spec
-----------------------------------------------------------------------------
(***************************************************************************)
(* The task with the decoder and the table.                                *)
(***************************************************************************)

\* What is proved about the table: P!StoreAssumption is its assumption, met here.
P == INSTANCE DeviceStoreProofs WITH Data <- Call, ZeroData <- NoPacket

LEMMA TableAssumption == P!StoreAssumption
BY StationAssumption, ReceiverAssumption DEF P!StoreAssumption, Call, NoPacket, PacketOrNone

\* No device was heard with a later packet than p.
HeardUpTo(p) == \A d \in Device : last[d].data.data <= p

\* What is being read is no older than what was last heard of any device.
Heard ==
  /\ DOMAIN last = Device
  /\ \A d \in Device : last[d].data.data \in Nat
  /\ HeardUpTo(latest)
  /\ pc = "ReadBuffer" => HeardUpTo(seen)
  /\ pc \in {"GetPacketStatus", "decode"} => HeardUpTo(data)

\* One table under two names.
LEMMA TableSteps ==
  /\ Table!Init <=> P!Init
  /\ Table!Tick <=> P!Tick
  /\ Table!Restart <=> P!Restart
  /\ \A d, x : Table!Store(d, x) <=> P!Store(d, x)
BY DEF Table!Init, P!Init, Table!Tick, P!Tick, Table!Restart, P!Restart, Table!Store, P!Store,
       Table!Stored, P!Stored, Table!SlotFor, P!SlotFor, Table!First, P!First,
       Table!Matching, P!Matching, Table!Free, P!Free, Table!Oldest, P!Oldest,
       Table!Slot, P!Slot, Table!ZeroRecord, P!ZeroRecord, Table!NeverHeard, P!NeverHeard

LEMMA RestartIInv == IInv /\ StationRestart => IInv'
<1> SUFFICES ASSUME IInv, StationRestart PROVE IInv'
  OBVIOUS
<1>1. /\ pc' = "GetIrqStatus" /\ rxDone' = FALSE /\ latest' = latest /\ decoded' = decoded
      /\ seen' = 0 /\ data' = 0 /\ rssi' = 0 /\ lost' = lost \union {latest}
      /\ buffer' = [i \in 0 .. Places - 1 |-> 0]
  BY DEF StationRestart
<1>2. Types'
  <2>1. 0 \in PacketOrNone /\ lost' \subseteq PacketOrNone
    BY <1>1, ReceiverAssumption DEF IInv, Types, PacketOrNone
  <2>2. buffer' \in [0 .. Places - 1 -> PacketOrNone]
    BY <1>1, <2>1
  <2> QED
    BY <1>1, <2>1, <2>2 DEF IInv, Types, Steps
<1>3. Reader'
  BY <1>1 DEF IInv, Reader, Flagged, BufferHolds, Reading, Fresh, AllAtMost, Nth
<1> QED
  BY <1>1, <1>2, <1>3, QuietStep

LEMMA StationStepIInv == IInv /\ [StationNext]_stationVars => IInv'
<1> SUFFICES ASSUME IInv, [StationNext]_stationVars PROVE IInv'
  OBVIOUS
<1>1. CASE Arrive \/ TaskElsewhere \/ Hang \/ DecodeAndStore
  BY <1>1, StepIInv DEF Next, Task, TaskElsewhere, DecodeAndStore
<1>2. CASE UNCHANGED vars
  BY <1>2, StepIInv
<1>3. CASE StationRestart
  BY <1>3, RestartIInv
<1> QED
  BY <1>1, <1>2, <1>3 DEF StationNext, stationVars

\* What the decoder is given is a report of the device that sent the packet.
LEMMA GivenIsCall ==
  ASSUME IInv, DecodeAndStore
  PROVE  /\ Given \in Call /\ Sender[Given.data] \in Device
         /\ Given.data = data /\ Given.rssi >= Given.data /\ data \in Nat
         /\ HeardUpTo(data) \/ ~Heard
<1>1. pc = "decode" /\ data \in PacketOrNone /\ rssi \in PacketOrNone
  BY DEF IInv, Types, DecodeAndStore, Decode
<1> QED
  BY <1>1, StationAssumption, ReceiverAssumption
  DEF IInv, Reader, Reading, Given, Call, PacketOrNone, Heard

LEMMA TableStep ==
  ASSUME IInv, [StationNext]_stationVars
  PROVE  [P!Next]_(P!vars)
<1>1. CASE (Arrive \/ TaskElsewhere \/ Hang) /\ UNCHANGED storeVars
  BY <1>1 DEF P!vars, storeVars
<1>2. CASE DecodeAndStore
  BY <1>2, GivenIsCall, TableSteps DEF DecodeAndStore, P!Next, P!vars, storeVars
<1>3. CASE Table!Tick
  BY <1>3, TableSteps DEF P!Next
<1>4. CASE StationRestart
  BY <1>4, TableSteps DEF StationRestart, P!Next
<1>5. CASE UNCHANGED stationVars
  BY <1>5 DEF stationVars, storeVars, P!vars
<1> QED
  BY <1>1, <1>2, <1>3, <1>4, <1>5 DEF StationNext

LEMMA StationIInv == StationSpec => []IInv
<1>1. StationInit => IInv
  BY InitIInv DEF StationInit
<1> QED
  BY <1>1, StationStepIInv, PTL DEF StationSpec

\* In the composition, the table behaves as DeviceStore alone does.
THEOREM StationUsesTable == StationSpec => P!Spec
<1>1. StationInit => P!Init
  BY TableSteps DEF StationInit
<1>2. IInv /\ [StationNext]_stationVars => [P!Next]_(P!vars)
  BY TableStep
<1> QED
  BY <1>1, <1>2, StationIInv, PTL DEF StationSpec, P!Spec

\* What the station shows of its devices is the directory of those heard most
\* recently, which knows nothing of slots: a packet that the decoder finishes is
\* one device heard, every other step is none.
THEOREM StationImplementsDirectory == StationSpec => P!ImplementsDirectory
BY TableAssumption, StationUsesTable, P!ArrayImplementsDirectory, PTL

\* And it forgets a device only for want of a slot, the one heard longest ago.
THEOREM StationEvictsOnlyOldest == StationSpec => P!EvictOnlyOldest
BY TableAssumption, StationUsesTable, P!EvictsOnlyOldest, PTL

\* Every variable of the composition has its type: in particular, the table holds
\* the records of devices that have sent packets.
THEOREM StationTypes == StationSpec => []StationTypeOK
<1>1. IInv => TypeOK
  BY IInvTypeOK
<1>2. P!TypeOK => Table!TypeOK
  BY DEF P!TypeOK, Table!TypeOK, P!Slot, Table!Slot, P!Record, Table!Record, P!Report,
         Table!Report, P!Time, Table!Time
<1> QED
  BY <1>1, <1>2, TableAssumption, StationIInv, StationUsesTable, P!TypeCorrect, PTL
  DEF StationTypeOK

\* Packets reach the decoder in order in the composition, too, restarts included.
THEOREM StationInOrder == StationSpec => []InOrder
<1>1. IInv => InOrder
  BY DEF IInv, Calls
<1> QED
  BY <1>1, StationIInv, PTL
-----------------------------------------------------------------------------
\* Storing a report leaves every slot as it was, or puts the report there.
LEMMA SlotsAfterStore ==
  ASSUME NEW d, NEW x, Table!Store(d, x), NEW i \in DOMAIN store
  PROVE  \/ store'[i] = store[i]
         \/ store'[i] = [device |-> d, timestamp |-> now, data |-> x]
BY DEF Table!Store, Table!Stored

\* The pieces of a report belong together when they are stored, and a stored
\* report is only ever replaced as a whole.
THEOREM RecordsAlwaysWhole == StationSpec => []RecordsAreWhole
<1>1. StationInit => RecordsAreWhole
  BY DEF StationInit, Table!Init, Table!ZeroRecord, RecordsAreWhole
<1>2. IInv /\ RecordsAreWhole /\ [StationNext]_stationVars => RecordsAreWhole'
  <2> SUFFICES ASSUME IInv, RecordsAreWhole, [StationNext]_stationVars PROVE RecordsAreWhole'
    OBVIOUS
  <2>1. CASE UNCHANGED store
    BY <2>1 DEF RecordsAreWhole
  <2>2. ASSUME DecodeAndStore, Table!Store(Sender[Given.data], Given) PROVE RecordsAreWhole'
    <3>1. DOMAIN store' = DOMAIN store
      BY <2>2 DEF Table!Store, Table!Stored
    <3> SUFFICES ASSUME NEW i \in DOMAIN store, store'[i].timestamp # 0
                 PROVE  /\ store'[i].device = Sender[store'[i].data.data]
                        /\ store'[i].data.rssi >= store'[i].data.data
      BY <3>1 DEF RecordsAreWhole
    <3>2. CASE store'[i] = store[i]
      BY <3>2 DEF RecordsAreWhole
    <3>3. CASE store'[i] = [device |-> Sender[Given.data], timestamp |-> now, data |-> Given]
      BY <2>2, <3>3, GivenIsCall
    <3> QED
      BY <2>2, <3>2, <3>3, SlotsAfterStore
  <2>3. CASE Table!Restart
    BY <2>3 DEF Table!Restart, Table!ZeroRecord, RecordsAreWhole
  <2> QED
    BY <2>1, <2>2, <2>3
    DEF StationNext, stationVars, storeVars, DecodeAndStore, StationRestart, Table!Tick
<1> QED
  BY <1>1, <1>2, StationIInv, PTL DEF StationSpec
-----------------------------------------------------------------------------
LEMMA InitHeard == StationInit => Heard
<1> SUFFICES ASSUME StationInit PROVE Heard
  OBVIOUS
<1>1. last = [d \in Device |-> P!NeverHeard] /\ latest = 0 /\ pc = "GetIrqStatus"
  BY TableSteps DEF StationInit, Init, P!Init
<1>2. P!NeverHeard.data.data = 0
  BY DEF P!NeverHeard, NoPacket
<1> QED
  BY <1>1, <1>2 DEF Heard, HeardUpTo

\* A later bound is a bound.
LEMMA HeardLater ==
  ASSUME Heard, NEW p \in Nat, NEW q \in Nat, p <= q, HeardUpTo(p)
  PROVE  HeardUpTo(q)
BY DEF Heard, HeardUpTo

LEMMA StepHeard == IInv /\ Heard /\ [StationNext]_stationVars => Heard'
<1> SUFFICES ASSUME IInv, Heard, [StationNext]_stationVars PROVE Heard'
  OBVIOUS
<1>1. /\ latest \in Nat /\ data \in Nat /\ seen \in Nat /\ latest + 1 \in Nat
      /\ latest <= latest + 1
  BY ReceiverAssumption DEF IInv, Types, PacketOrNone
<1>2. CASE Arrive /\ UNCHANGED storeVars
  <2>1. HeardUpTo(latest + 1)
    BY <1>1, HeardLater DEF Heard
  <2> QED
    BY <1>2, <2>1 DEF Heard, HeardUpTo, Arrive, taskVars, storeVars
<1>3. CASE ReadBuffer /\ UNCHANGED storeVars
  <2>1. pc = "ReadBuffer" /\ data' \in seen .. latest
    BY <1>3 DEF IInv, Reader, BufferHolds, ReadBuffer
  <2>2. HeardUpTo(data')
    BY <1>1, <2>1, HeardLater DEF Heard
  <2> QED
    BY <1>3, <2>2 DEF Heard, HeardUpTo, ReadBuffer, Then, chipVars, storeVars
<1>4. CASE (GetIrqStatus \/ ClearIrqStatus \/ GetRxBufferStatus \/ ReadBufferFails
              \/ GetPacketStatus \/ Delay \/ Hang) /\ UNCHANGED storeVars
  BY <1>4 DEF Heard, HeardUpTo, GetIrqStatus, ClearIrqStatus, GetRxBufferStatus,
              ReadBufferFails, GetPacketStatus, Delay, Hang, Then, chipVars, storeVars
<1>5. CASE DecodeAndStore
  <2>1. pc = "decode" /\ pc' = "vTaskDelay" /\ latest' = latest /\ data \in 1 .. latest
    BY <1>5 DEF IInv, Reader, Reading, DecodeAndStore, Decode, chipVars
  <2>2. CASE UNCHANGED storeVars
    BY <2>1, <2>2 DEF Heard, HeardUpTo, storeVars
  <2>3. CASE Table!Store(Sender[Given.data], Given)
    <3>1. last' = [last EXCEPT ![Sender[Given.data]] = [timestamp |-> now, data |-> Given]]
      BY <2>3 DEF Table!Store
    <3>2. \A d \in Device : last'[d] = last[d] \/ last'[d].data.data = data
      BY <1>5, <3>1, GivenIsCall DEF Heard
    <3>3. HeardUpTo(latest)'
      BY <1>1, <2>1, <3>2 DEF Heard, HeardUpTo
    <3>4. DOMAIN last' = Device /\ \A d \in Device : last'[d].data.data \in Nat
      BY <1>1, <3>1, <3>2 DEF Heard
    <3> QED
      BY <2>1, <3>3, <3>4 DEF Heard
  <2> QED
    BY <1>5, <2>2, <2>3 DEF DecodeAndStore
<1>6. CASE StationRestart
  <2>1. last' = [d \in Device |-> P!NeverHeard] /\ latest' = latest /\ pc' = "GetIrqStatus"
    BY <1>6, TableSteps DEF StationRestart, P!Restart
  <2>2. P!NeverHeard.data.data = 0
    BY DEF P!NeverHeard, NoPacket
  <2> QED
    BY <1>1, <2>1, <2>2 DEF Heard, HeardUpTo
<1>7. CASE Table!Tick /\ UNCHANGED vars
  BY <1>7 DEF Heard, HeardUpTo, Table!Tick, vars, chipVars, taskVars
<1>8. CASE UNCHANGED stationVars
  BY <1>8 DEF Heard, HeardUpTo, stationVars, storeVars, vars, chipVars, taskVars
<1> QED
  BY <1>2, <1>3, <1>4, <1>5, <1>6, <1>7, <1>8 DEF StationNext, TaskElsewhere

\* No device goes back to an earlier report: what the decoder is given is no
\* older than anything that was stored, and the table holds the latest report of
\* each device (NoStaleRecord, of DeviceStoreProofs).
THEOREM NeverBack == StationSpec => NeverGoesBack
<1>1. IInv /\ Heard /\ P!IInv /\ [StationNext]_stationVars =>
        [\A i \in DOMAIN store :
           store'[i].timestamp # 0 =>
             store'[i].data.data >= last[store'[i].device].data.data]_stationVars
  <2> SUFFICES ASSUME IInv, Heard, P!IInv, StationNext, NEW i \in DOMAIN store,
                      store'[i].timestamp # 0
               PROVE  store'[i].data.data >= last[store'[i].device].data.data
    OBVIOUS
  <2>1. store \in [P!Slot -> P!Record]
    BY DEF P!IInv, P!TypeOK
  <2>2. CASE store'[i] = store[i]
    <3>1. i \in P!Occupied /\ store[i] \in P!Record
      BY <2>1, <2>2 DEF P!Occupied
    <3>2. last[store[i].device]
            = [timestamp |-> store[i].timestamp, data |-> store[i].data]
      BY <3>1 DEF P!IInv, P!RecordsAreLatest
    <3>3. store[i].data.data \in Nat
      BY <3>1, ReceiverAssumption DEF P!Record, Call, PacketOrNone
    <3> QED
      BY <2>2, <3>2, <3>3
  <2>3. ASSUME DecodeAndStore,
               store'[i] = [device |-> Sender[Given.data], timestamp |-> now, data |-> Given]
        PROVE  store'[i].data.data >= last[store'[i].device].data.data
    BY <2>3, GivenIsCall DEF Heard, HeardUpTo
  <2>4. CASE Table!Restart
    BY <2>1, <2>4, TableSteps DEF P!Restart, P!ZeroRecord
  <2> QED
    BY <2>2, <2>3, <2>4, SlotsAfterStore
    DEF StationNext, storeVars, DecodeAndStore, StationRestart, Table!Tick
<1> QED
  BY <1>1, TableAssumption, InitHeard, StepHeard, StationIInv, StationUsesTable,
     P!InductiveInvariant, PTL DEF StationSpec, NeverGoesBack
=============================================================================
