---------------------------- MODULE DeviceStore ----------------------------
(***************************************************************************)
(* The table of devices heard on the air.  The firmware has three of them, *)
(* weatherStore, trackingStore (fanet_types.c) and ogn_tracking_store      *)
(* (ogn_types.c): an array of records in zeroed memory, where a record     *)
(* with timestamp 0 is free, and one function that places a new record:    *)
(* over the record of the same device, else in the first free slot, else   *)
(* over the oldest record.  The three functions are the same code but for  *)
(* the record type, the size of the array and what identifies a device     *)
(* (vendor and address, or the 24-bit address), so one module, with those  *)
(* as parameters, models each of them.                                     *)
(*                                                                         *)
(* The only reader and writer is the task that receives packets: a call    *)
(* is one step.                                                            *)
(***************************************************************************)
EXTENDS Naturals

CONSTANTS Device,       \* what identifies a device
          Data,         \* the rest of a record: position, speed, weather...
          ZeroDevice,   \* the device that zeroed memory names (address 0)
          ZeroData,     \* the report that zeroed memory holds
          MaxDevices,   \* the size of the array
          MaxTime       \* bound of the clock

ASSUME StoreAssumption ==
  /\ ZeroDevice \in Device
  /\ ZeroData \in Data
  /\ MaxDevices \in Nat \ {0}
  /\ MaxTime \in Nat

VARIABLES store,        \* the array
          now,          \* time(NULL): whole seconds since power-on
          last          \* history: the latest report of each device since boot

vars == <<store, now, last>>

Slot   == 0 .. MaxDevices - 1
Time   == 0 .. MaxTime
Report == [timestamp : Time, data : Data]
Record == [device : Device, timestamp : Time, data : Data]

ZeroRecord == [device |-> ZeroDevice, timestamp |-> 0, data |-> ZeroData]
NeverHeard == [timestamp |-> 0, data |-> ZeroData]
-----------------------------------------------------------------------------
\* Mutants, here and below: what a slip in the code would make of the
\* definition that follows.  The last slot instead of the first.
LastOf(S) == CHOOSE i \in S : \A j \in S : i >= j
\* The three loops of a store function each stop at the first slot of a set.
First(S) == CHOOSE i \in S : \A j \in S : i <= j

\* Mutant: the match loop is left out.
NoMatching(s, d) == {}
\* Mutant: a comparison the wrong way round, and a scan that never moves on.
Newest(s)   == {i \in Slot : \A j \in Slot : s[i].timestamp >= s[j].timestamp}
FirstOne(s) == {0}

Matching(s, d) == {i \in Slot : s[i].timestamp # 0 /\ s[i].device = d}
Free(s)        == {i \in Slot : s[i].timestamp = 0}
Oldest(s)      == {i \in Slot : \A j \in Slot : s[i].timestamp <= s[j].timestamp}

\* The index the function writes, and returns.
SlotFor(s, d) == IF Matching(s, d) # {} THEN First(Matching(s, d))
                 ELSE IF Free(s) # {}   THEN First(Free(s))
                 ELSE First(Oldest(s))

\* Mutant: a match returns its index without copying the new record.
StoredOnce(s, r) == IF Matching(s, r.device) # {} THEN s
                    ELSE [s EXCEPT ![SlotFor(s, r.device)] = r]
\* Mutant: an index that counts from 1.
StoredOneOff(s, r) == [i \in DOMAIN s \union {SlotFor(s, r.device) + 1} |->
                        IF i = SlotFor(s, r.device) + 1 THEN r ELSE s[i]]
Stored(s, r) == [s EXCEPT ![SlotFor(s, r.device)] = r]
-----------------------------------------------------------------------------
Init == /\ store = [i \in Slot |-> ZeroRecord]
        /\ now = 0
        /\ last = [d \in Device |-> NeverHeard]

\* A decoded packet: its record is stamped with time(NULL) and stored.
Store(d, x) ==
  /\ store' = Stored(store, [device |-> d, timestamp |-> now, data |-> x])
  /\ last' = [last EXCEPT ![d] = [timestamp |-> now, data |-> x]]
  /\ UNCHANGED now

Tick == /\ now < MaxTime
        /\ now' = now + 1
        /\ UNCHANGED <<store, last>>

\* The array is in zeroed memory: esp_restart and a power cycle both lose it.
\* The clock survives the former and starts again from 0 after the latter.
Restart == /\ store' = [i \in Slot |-> ZeroRecord]
           /\ last' = [d \in Device |-> NeverHeard]
           /\ now' \in {0, now}

Next == \/ \E d \in Device, x \in Data : Store(d, x)
        \/ Tick
        \/ Restart

Spec == Init /\ [][Next]_vars
-----------------------------------------------------------------------------
Occupied == {i \in Slot : store[i].timestamp # 0}
Known    == {store[i].device : i \in Occupied}

\* The array holds records, and the clock stays within its bound.
TypeOK == /\ store \in [Slot -> Record]
          /\ now \in Time
          /\ last \in [Device -> Report]

\* The match loop updates a device in place: no device ever has two live
\* records, whatever mix of new devices, repeats and evictions came before.
OneSlotPerDevice ==
  \A i, j \in Occupied : store[i].device = store[j].device => i = j

\* Free slots are only ever taken in order and never given back, so the live
\* records fill the array from its start: a reader may stop at the first free
\* slot.
OccupiedIsPrefix == \A i \in Occupied : \A j \in 0 .. i : j \in Occupied

\* A live record is the latest report of its device, never an older one.
RecordsAreLatest ==
  \A i \in Occupied :
    last[store[i].device] = [timestamp |-> store[i].timestamp, data |-> store[i].data]

\* The array keeps the devices heard most recently: one that was heard after
\* second 0 and has no record any more has lost it to a full array of other
\* devices, none of which was heard longer ago.
ForgottenIsOldest ==
  \A d \in Device : last[d].timestamp # 0 /\ d \notin Known =>
    \A i \in Slot : /\ i \in Occupied
                    /\ store[i].timestamp >= last[d].timestamp

\* Nothing was received in the future.
ClockIsPast == /\ \A i \in Slot : store[i].timestamp <= now
               /\ \A d \in Device : last[d].timestamp <= now

\* What every step preserves.
IInv == /\ TypeOK
        /\ ClockIsPast
        /\ OneSlotPerDevice
        /\ OccupiedIsPrefix
        /\ RecordsAreLatest
        /\ ForgottenIsOldest

\* A report forgets at most one device, only when every slot is live, and never
\* a device heard in the current second while an older one is in the array.
EvictOnlyOldest ==
  [][\A i \in Occupied :
       store'[i].device # store[i].device /\ last'[store[i].device].timestamp # 0 =>
         /\ Occupied = Slot
         /\ \A j \in Slot : j # i => store'[j] = store[j]
         /\ \A j \in Slot : store[i].timestamp <= store[j].timestamp]_vars

\* The array implements the directory.
Directory == INSTANCE DeviceDirectory WITH known <- Known, Capacity <- MaxDevices
ImplementsDirectory == Directory!Spec
=============================================================================
