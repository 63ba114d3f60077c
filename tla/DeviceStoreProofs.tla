------------------------- MODULE DeviceStoreProofs -------------------------
(***************************************************************************)
(* Theorems about the device table, for every set of devices, every size   *)
(* of the array and every bound of the clock.                              *)
(***************************************************************************)
EXTENDS DeviceStore, FunctionTheorems, FiniteSetTheorems, TLAPS

\* Every non-empty set of naturals has a least element.
LEMMA LeastNatural ==
  ASSUME NEW S \in SUBSET Nat, S # {}
  PROVE  \E i \in S : \A j \in S : i <= j
<1> DEFINE R == {p \in Nat \X Nat : p[1] < p[2]}
<1>1. IsWellFoundedOn(R, Nat)
  BY NatLessThanWellFounded DEF OpToRel
<1>2. \E i \in S : \A j \in S : ~(<<j, i>> \in R)
  BY <1>1, WFMin
<1>3. \A i, j \in Nat : ~(<<j, i>> \in R) => i <= j
  OBVIOUS
<1> QED
  BY <1>2, <1>3

-----------------------------------------------------------------------------
\* The first element of a non-empty set of slots is in it and bounds it.
LEMMA FirstIsFirst ==
  ASSUME NEW S \in SUBSET Slot, S # {}
  PROVE  First(S) \in S /\ \A j \in S : First(S) <= j
<1>1. S \in SUBSET Nat
  BY StoreAssumption DEF Slot
<1>2. \E i \in S : \A j \in S : i <= j
  BY <1>1, LeastNatural
<1> QED
  BY <1>2 DEF First

\* Some record is at least as old as every other one.
LEMMA OldestExists ==
  ASSUME NEW s \in [Slot -> Record]
  PROVE  Oldest(s) # {}
<1> DEFINE T == {s[i].timestamp : i \in Slot}
<1>1. T \in SUBSET Nat
  BY StoreAssumption DEF Record, Time
<1>2. 0 \in Slot
  BY StoreAssumption DEF Slot
<1>3. T # {}
  BY <1>2
<1>4. PICK t \in T : \A u \in T : t <= u
  BY <1>1, <1>3, LeastNatural
<1>5. PICK i \in Slot : s[i].timestamp = t
  BY <1>4
<1>6. \A j \in Slot : s[i].timestamp <= s[j].timestamp
  BY <1>4, <1>5
<1> QED
  BY <1>5, <1>6 DEF Oldest

\* Where a record goes: over the record of its device; else, when there is
\* none, in a free slot with no free slot before it; else, when every slot is
\* live, over a record that no other one is older than.
LEMMA SlotForCases ==
  ASSUME NEW s \in [Slot -> Record], NEW d \in Device
  PROVE  /\ SlotFor(s, d) \in Slot
         /\ \/ SlotFor(s, d) \in Matching(s, d)
            \/ /\ Matching(s, d) = {}
               /\ SlotFor(s, d) \in Free(s)
               /\ \A j \in Free(s) : SlotFor(s, d) <= j
            \/ /\ Matching(s, d) = {}
               /\ Free(s) = {}
               /\ SlotFor(s, d) \in Oldest(s)
<1>1. Matching(s, d) \in SUBSET Slot /\ Free(s) \in SUBSET Slot /\ Oldest(s) \in SUBSET Slot
  BY DEF Matching, Free, Oldest
<1>2. CASE Matching(s, d) # {}
  <2>1. SlotFor(s, d) = First(Matching(s, d))
    BY <1>2 DEF SlotFor
  <2>2. First(Matching(s, d)) \in Matching(s, d)
    BY <1>1, <1>2, FirstIsFirst
  <2> QED
    BY <2>1, <2>2, <1>1
<1>3. CASE Matching(s, d) = {} /\ Free(s) # {}
  <2>1. SlotFor(s, d) = First(Free(s))
    BY <1>3 DEF SlotFor
  <2>2. First(Free(s)) \in Free(s) /\ \A j \in Free(s) : First(Free(s)) <= j
    BY <1>1, <1>3, FirstIsFirst
  <2> QED
    BY <2>1, <2>2, <1>1, <1>3
<1>4. CASE Matching(s, d) = {} /\ Free(s) = {}
  <2>1. SlotFor(s, d) = First(Oldest(s))
    BY <1>4 DEF SlotFor
  <2>2. First(Oldest(s)) \in Oldest(s)
    BY <1>1, FirstIsFirst, OldestExists
  <2> QED
    BY <2>1, <2>2, <1>1, <1>4
<1> QED
  BY <1>2, <1>3, <1>4
-----------------------------------------------------------------------------
\* The type invariant.
THEOREM TypeCorrect == Spec => []TypeOK
<1>1. Init => TypeOK
  BY StoreAssumption DEF Init, TypeOK, Record, Report, Time, ZeroRecord, NeverHeard
<1>2. TypeOK /\ [Next]_vars => TypeOK'
  <2> SUFFICES ASSUME TypeOK, [Next]_vars PROVE TypeOK'
    OBVIOUS
  <2>1. ASSUME NEW d \in Device, NEW x \in Data, Store(d, x) PROVE TypeOK'
    <3> DEFINE r == [device |-> d, timestamp |-> now, data |-> x]
    <3>1. r \in Record /\ [timestamp |-> now, data |-> x] \in Report
      BY DEF TypeOK, Record, Report
    <3>2. store' \in [Slot -> Record]
      BY <2>1, <3>1 DEF TypeOK, Store, Stored
    <3>3. last' \in [Device -> Report] /\ now' = now
      BY <2>1, <3>1 DEF TypeOK, Store
    <3> QED
      BY <3>2, <3>3 DEF TypeOK
  <2>2. CASE Tick
    BY <2>2, StoreAssumption DEF Tick, TypeOK, Time
  <2>3. CASE Restart
    BY <2>3, StoreAssumption
    DEF Restart, TypeOK, Record, Report, Time, ZeroRecord, NeverHeard
  <2>4. CASE UNCHANGED vars
    BY <2>4 DEF vars, TypeOK
  <2> QED
    BY <2>1, <2>2, <2>3, <2>4 DEF Next
<1> QED
  BY <1>1, <1>2, PTL DEF Spec
-----------------------------------------------------------------------------
\* What storing a report does to the array, whichever of the three places it
\* goes to.
LEMMA StoreWrites ==
  ASSUME IInv, NEW d \in Device, NEW x \in Data, Store(d, x)
  PROVE  \E k \in Slot :
           /\ store'[k] = [device |-> d, timestamp |-> now, data |-> x]
           /\ \A i \in Slot : i # k => store'[i] = store[i]
           /\ \A i \in Occupied : i # k => store[i].device # d
           /\ \/ k \in Occupied /\ store[k].device = d
              \/ k \notin Occupied /\ (\A j \in Slot : j < k => j \in Occupied)
              \/ /\ Occupied = Slot
                 /\ \A j \in Slot : store[k].timestamp <= store[j].timestamp
<1> DEFINE k == SlotFor(store, d)
<1>1. store \in [Slot -> Record]
  BY DEF IInv, TypeOK
<1>2. /\ k \in Slot
      /\ \/ k \in Matching(store, d)
         \/ /\ Matching(store, d) = {}
            /\ k \in Free(store)
            /\ \A j \in Free(store) : k <= j
         \/ /\ Matching(store, d) = {}
            /\ Free(store) = {}
            /\ k \in Oldest(store)
  BY <1>1, SlotForCases
<1> HIDE DEF k
<1>3. store' = [store EXCEPT ![k] = [device |-> d, timestamp |-> now, data |-> x]]
  BY DEF Store, Stored, k
<1>4. /\ store'[k] = [device |-> d, timestamp |-> now, data |-> x]
      /\ \A i \in Slot : i # k => store'[i] = store[i]
  BY <1>1, <1>2, <1>3
<1>5. \A i \in Slot : i \in Occupied <=> i \notin Free(store)
  BY DEF Occupied, Free
<1>6. \A i \in Slot : i \in Matching(store, d) <=> i \in Occupied /\ store[i].device = d
  BY DEF Occupied, Matching
<1>7. CASE k \in Matching(store, d)
  <2>1. k \in Occupied /\ store[k].device = d
    BY <1>2, <1>6, <1>7
  <2>2. \A i \in Occupied : i # k => store[i].device # d
    BY <2>1 DEF IInv, OneSlotPerDevice
  <2> QED
    BY <1>2, <1>4, <2>1, <2>2
<1>8. CASE Matching(store, d) = {} /\ k \in Free(store) /\ \A j \in Free(store) : k <= j
  <2>1. \A i \in Occupied : store[i].device # d
    BY <1>6, <1>8 DEF Occupied
  <2>2. k \notin Occupied
    BY <1>2, <1>5, <1>8
  <2>3. \A j \in Slot : j < k => j \in Occupied
    BY <1>2, <1>5, <1>8, StoreAssumption DEF Slot
  <2> QED
    BY <1>2, <1>4, <2>1, <2>2, <2>3
<1>9. CASE Matching(store, d) = {} /\ Free(store) = {} /\ k \in Oldest(store)
  <2>1. \A i \in Occupied : store[i].device # d
    BY <1>6, <1>9 DEF Occupied
  <2>2. Occupied = Slot
    BY <1>5, <1>9 DEF Occupied
  <2>3. \A j \in Slot : store[k].timestamp <= store[j].timestamp
    BY <1>9 DEF Oldest
  <2> QED
    BY <1>2, <1>4, <2>1, <2>2, <2>3
<1> QED
  BY <1>2, <1>7, <1>8, <1>9

\* A report in second 0 leaves no live record, and there was none before it.
LEMMA StoreAtZero ==
  ASSUME IInv, NEW d \in Device, NEW x \in Data, Store(d, x), now = 0
  PROVE  /\ Occupied = {} /\ Occupied' = {}
         /\ \A e \in Device : last'[e].timestamp = 0
<1>1. PICK k \in Slot :
        /\ store'[k] = [device |-> d, timestamp |-> now, data |-> x]
        /\ \A i \in Slot : i # k => store'[i] = store[i]
  BY StoreWrites
<1>2. /\ \A i \in Slot : store[i].timestamp \in Nat
      /\ \A e \in Device : last[e].timestamp \in Nat
  BY StoreAssumption DEF IInv, TypeOK, Record, Report, Time
<1>3. \A i \in Slot : store[i].timestamp = 0
  BY <1>2 DEF IInv, ClockIsPast
<1>4. \A i \in Slot : store'[i].timestamp = 0
  BY <1>1, <1>3
<1>5. \A e \in Device : last[e].timestamp = 0
  <2> SUFFICES ASSUME NEW e \in Device PROVE last[e].timestamp = 0
    OBVIOUS
  <2>1. last[e].timestamp <= 0
    BY DEF IInv, ClockIsPast
  <2> QED
    BY <1>2, <2>1
<1>6. \A e \in Device : last'[e].timestamp = 0
  BY <1>5 DEF Store, IInv, TypeOK
<1> QED
  BY <1>3, <1>4, <1>6 DEF Occupied

\* Storing a report preserves the inductive invariant.
LEMMA StoreStep ==
  ASSUME IInv, TypeOK', NEW d \in Device, NEW x \in Data, Store(d, x)
  PROVE  IInv'
<1> DEFINE r == [device |-> d, timestamp |-> now, data |-> x]
<1>1. PICK k \in Slot :
        /\ store'[k] = r
        /\ \A i \in Slot : i # k => store'[i] = store[i]
        /\ \A i \in Occupied : i # k => store[i].device # d
        /\ \/ k \in Occupied /\ store[k].device = d
           \/ k \notin Occupied /\ (\A j \in Slot : j < k => j \in Occupied)
           \/ /\ Occupied = Slot
              /\ \A j \in Slot : store[k].timestamp <= store[j].timestamp
  BY StoreWrites
<1>2. /\ now' = now /\ now \in Nat
      /\ last'[d] = [timestamp |-> now, data |-> x]
      /\ \A e \in Device : e # d => last'[e] = last[e]
  BY StoreAssumption DEF Store, IInv, TypeOK, Time
<1>3. /\ \A i \in Slot : store[i].timestamp \in Nat /\ store[i].device \in Device
      /\ \A e \in Device : last[e].timestamp \in Nat
  BY StoreAssumption DEF IInv, TypeOK, Record, Report, Time
<1>4. ClockIsPast'
  <2>1. \A i \in Slot : store'[i].timestamp <= now
    BY <1>1, <1>2 DEF IInv, ClockIsPast
  <2>2. \A e \in Device : last'[e].timestamp <= now
    BY <1>2 DEF IInv, ClockIsPast
  <2> QED
    BY <1>2, <2>1, <2>2 DEF ClockIsPast
<1>5. CASE now = 0
  <2>1. Occupied' = {} /\ \A e \in Device : last'[e].timestamp = 0
    BY <1>5, StoreAtZero
  <2> QED
    BY <1>4, <2>1
    DEF IInv, OneSlotPerDevice, OccupiedIsPrefix, RecordsAreLatest, ForgottenIsOldest
<1>6. CASE now # 0
  <2>1. Occupied' = Occupied \union {k}
    BY <1>1, <1>6 DEF Occupied
  <2>2. OneSlotPerDevice'
    BY <1>1, <2>1 DEF IInv, OneSlotPerDevice, Occupied
  <2>3. OccupiedIsPrefix'
    <3> SUFFICES ASSUME NEW i \in Occupied', NEW j \in 0 .. i
                 PROVE  j \in Occupied \union {k}
      BY <2>1 DEF OccupiedIsPrefix
    <3>1. CASE i \in Occupied
      BY <3>1 DEF IInv, OccupiedIsPrefix
    <3>2. CASE i = k /\ k \notin Occupied
      <4>1. \A n \in Slot : n < k => n \in Occupied
        BY <1>1, <3>2
      <4>2. j \in Slot /\ (j < k \/ j = k)
        BY <3>2, StoreAssumption DEF Slot
      <4> QED
        BY <4>1, <4>2
    <3> QED
      BY <2>1, <3>1, <3>2
  <2>4. RecordsAreLatest'
    <3> SUFFICES ASSUME NEW i \in Occupied'
                 PROVE  last'[store'[i].device]
                          = [timestamp |-> store'[i].timestamp, data |-> store'[i].data]
      BY DEF RecordsAreLatest
    <3>1. CASE i = k
      BY <1>1, <1>2, <3>1
    <3>2. CASE i # k
      <4>1. i \in Occupied /\ store'[i] = store[i] /\ store[i].device # d
        BY <1>1, <2>1, <3>2 DEF Occupied
      <4> QED
        BY <1>2, <1>3, <4>1 DEF IInv, RecordsAreLatest, Occupied
    <3> QED
      BY <3>1, <3>2
  <2>5. ForgottenIsOldest'
    <3> SUFFICES ASSUME NEW e \in Device, last'[e].timestamp # 0, e \notin Known',
                        NEW i \in Slot
                 PROVE  i \in Occupied' /\ store'[i].timestamp >= last'[e].timestamp
      BY DEF ForgottenIsOldest
    <3>1. e # d /\ last'[e] = last[e]
      BY <1>1, <1>2, <2>1 DEF Known
    <3>2. \A j \in Slot : j \in Occupied /\ store[j].timestamp >= last[e].timestamp
      <4>1. CASE e \notin Known
        BY <3>1, <4>1 DEF IInv, ForgottenIsOldest
      <4>2. CASE e \in Known
        <5>1. PICK v \in Occupied : store[v].device = e
          BY <4>2 DEF Known
        <5>2. v = k
          BY <1>1, <2>1, <5>1 DEF Known, Occupied
        <5>3. Occupied = Slot /\ \A j \in Slot : store[k].timestamp <= store[j].timestamp
          BY <1>1, <3>1, <5>1, <5>2
        <5>4. last[e].timestamp = store[k].timestamp
          <6>1. last[store[v].device] = [timestamp |-> store[v].timestamp, data |-> store[v].data]
            BY <5>1 DEF IInv, RecordsAreLatest
          <6> QED
            BY <5>1, <5>2, <6>1
        <5> QED
          BY <1>3, <5>3, <5>4
      <4> QED
        BY <4>1, <4>2
    <3>3. CASE i = k
      BY <1>1, <1>2, <1>3, <2>1, <3>1, <3>3 DEF IInv, ClockIsPast
    <3>4. CASE i # k
      BY <1>1, <2>1, <3>1, <3>2, <3>4
    <3> QED
      BY <3>3, <3>4
  <2> QED
    BY <1>4, <2>2, <2>3, <2>4, <2>5 DEF IInv
<1> QED
  BY <1>5, <1>6

\* The inductive invariant holds in every reachable state.
THEOREM InductiveInvariant == Spec => []IInv
<1>1. Init => IInv
  <2> SUFFICES ASSUME Init PROVE IInv
    OBVIOUS
  <2>1. TypeOK
    BY StoreAssumption DEF Init, TypeOK, Record, Report, Time, ZeroRecord, NeverHeard
  <2>2. Occupied = {} /\ (\A i \in Slot : store[i].timestamp = 0)
        /\ (\A d \in Device : last[d].timestamp = 0) /\ now = 0
    BY DEF Init, Occupied, ZeroRecord, NeverHeard
  <2> QED
    BY <2>1, <2>2 DEF IInv, ClockIsPast, OneSlotPerDevice, OccupiedIsPrefix,
                      RecordsAreLatest, ForgottenIsOldest
<1>2. TypeOK /\ TypeOK' /\ IInv /\ [Next]_vars => IInv'
  <2> SUFFICES ASSUME TypeOK', IInv, [Next]_vars PROVE IInv'
    OBVIOUS
  <2>1. ASSUME NEW d \in Device, NEW x \in Data, Store(d, x) PROVE IInv'
    BY <2>1, StoreStep
  <2>2. CASE Tick
    <3>1. /\ store' = store /\ last' = last /\ now' = now + 1
          /\ Occupied' = Occupied /\ Known' = Known
      BY <2>2 DEF Tick, Occupied, Known
    <3>2. ClockIsPast'
      <4>1. /\ now \in Nat
            /\ \A i \in Slot : store[i].timestamp \in Nat
            /\ \A d \in Device : last[d].timestamp \in Nat
        BY StoreAssumption DEF IInv, TypeOK, Record, Report, Time
      <4>2. \A i \in Slot : store[i].timestamp <= now + 1
        BY <4>1 DEF IInv, ClockIsPast
      <4>3. \A d \in Device : last[d].timestamp <= now + 1
        BY <4>1 DEF IInv, ClockIsPast
      <4> QED
        BY <3>1, <4>2, <4>3 DEF ClockIsPast
    <3> QED
      BY <3>1, <3>2 DEF IInv, OneSlotPerDevice, OccupiedIsPrefix,
                        RecordsAreLatest, ForgottenIsOldest
  <2>3. CASE Restart
    <3>1. Occupied' = {} /\ (\A i \in Slot : store'[i].timestamp = 0)
          /\ (\A d \in Device : last'[d].timestamp = 0) /\ now' \in Nat
      BY <2>3, StoreAssumption
      DEF Restart, Occupied, ZeroRecord, NeverHeard, IInv, TypeOK, Time
    <3>2. ClockIsPast'
      BY <3>1 DEF ClockIsPast
    <3> QED
      BY <3>1, <3>2 DEF IInv, OneSlotPerDevice, OccupiedIsPrefix,
                        RecordsAreLatest, ForgottenIsOldest
  <2>4. CASE UNCHANGED vars
    BY <2>4 DEF vars, IInv, TypeOK, ClockIsPast, OneSlotPerDevice, OccupiedIsPrefix,
                RecordsAreLatest, ForgottenIsOldest, Occupied, Known
  <2> QED
    BY <2>1, <2>2, <2>3, <2>4 DEF Next
<1> QED
  BY <1>1, <1>2, TypeCorrect, PTL DEF Spec

\* No device has two live records.
THEOREM NoDuplicates == Spec => []OneSlotPerDevice
BY InductiveInvariant, PTL DEF IInv

\* The live records fill the array from its start.
THEOREM LiveRecordsComeFirst == Spec => []OccupiedIsPrefix
BY InductiveInvariant, PTL DEF IInv

\* A live record is the latest report of its device.
THEOREM NoStaleRecord == Spec => []RecordsAreLatest
BY InductiveInvariant, PTL DEF IInv

\* A device is only forgotten for a full array of devices heard no longer ago.
THEOREM KeepsMostRecent == Spec => []ForgottenIsOldest
BY InductiveInvariant, PTL DEF IInv
-----------------------------------------------------------------------------
\* A report overwrites the record of another device only in a full array, only
\* in the slot it writes, and only when no other record is older.
THEOREM EvictsOnlyOldest == Spec => EvictOnlyOldest
<1> DEFINE A == \A i \in Occupied :
       store'[i].device # store[i].device /\ last'[store[i].device].timestamp # 0 =>
         /\ Occupied = Slot
         /\ \A j \in Slot : j # i => store'[j] = store[j]
         /\ \A j \in Slot : store[i].timestamp <= store[j].timestamp
<1>1. IInv /\ [Next]_vars => [A]_vars
  <2> SUFFICES ASSUME IInv, Next,
                      NEW i \in Occupied,
                      store'[i].device # store[i].device,
                      last'[store[i].device].timestamp # 0
               PROVE  /\ Occupied = Slot
                      /\ \A j \in Slot : j # i => store'[j] = store[j]
                      /\ \A j \in Slot : store[i].timestamp <= store[j].timestamp
    BY DEF vars
  <2>1. ASSUME NEW d \in Device, NEW x \in Data, Store(d, x)
        PROVE  /\ Occupied = Slot
               /\ \A j \in Slot : j # i => store'[j] = store[j]
               /\ \A j \in Slot : store[i].timestamp <= store[j].timestamp
    <3>1. PICK k \in Slot :
            /\ store'[k] = [device |-> d, timestamp |-> now, data |-> x]
            /\ \A j \in Slot : j # k => store'[j] = store[j]
            /\ \/ k \in Occupied /\ store[k].device = d
               \/ k \notin Occupied
               \/ /\ Occupied = Slot
                  /\ \A j \in Slot : store[k].timestamp <= store[j].timestamp
      BY <2>1, StoreWrites
    <3>2. i = k
      BY <3>1 DEF Occupied
    <3> QED
      BY <3>1, <3>2
  <2>2. ~Tick
    BY DEF Tick
  <2>3. ~Restart
    BY DEF Restart, NeverHeard, IInv, TypeOK, Record, Occupied
  <2> QED
    BY <2>1, <2>2, <2>3 DEF Next
<1> QED
  BY <1>1, InductiveInvariant, PTL DEF Spec, EvictOnlyOldest
-----------------------------------------------------------------------------
\* The directory has as many devices as the array has live records.
LEMMA KnownCardinality ==
  ASSUME IInv
  PROVE  /\ Cardinality(Known) = Cardinality(Occupied)
         /\ Cardinality(Slot) = MaxDevices
         /\ IsFiniteSet(Slot)
<1> DEFINE deviceAt == [i \in Occupied |-> store[i].device]
<1>1. IsFiniteSet(Slot) /\ Cardinality(Slot) = MaxDevices
  BY StoreAssumption, FS_Interval DEF Slot
<1>2. IsFiniteSet(Occupied)
  BY <1>1, FS_Subset DEF Occupied
<1>3. deviceAt \in Bijection(Occupied, Known)
  <2>1. deviceAt \in [Occupied -> Known]
    BY DEF Known
  <2>2. \A i, j \in Occupied : deviceAt[i] = deviceAt[j] => i = j
    BY DEF IInv, OneSlotPerDevice
  <2>3. \A e \in Known : \E i \in Occupied : deviceAt[i] = e
    BY DEF Known
  <2> HIDE DEF deviceAt
  <2> QED
    BY <2>1, <2>2, <2>3, Fun_IsBij
<1>4. ExistsBijection(Occupied, Known)
  BY <1>3, Fun_ExistsBij
<1> QED
  BY <1>1, <1>2, <1>4, FS_Bijection

\* The directory counts its devices as this module does.
LEMMA SameCardinality == \A S : Directory!Cardinality(S) = Cardinality(S)
BY DEF Directory!Cardinality, Cardinality, Directory!IsFiniteSet, IsFiniteSet

\* Storing a report does to the directory what hearing it means.
LEMMA StoreHears ==
  ASSUME IInv, NEW d \in Device, NEW x \in Data, Store(d, x)
  PROVE  Directory!Hear(d, x)
<1>1. PICK k \in Slot :
        /\ store'[k] = [device |-> d, timestamp |-> now, data |-> x]
        /\ \A i \in Slot : i # k => store'[i] = store[i]
        /\ \A i \in Occupied : i # k => store[i].device # d
        /\ \/ k \in Occupied /\ store[k].device = d
           \/ k \notin Occupied /\ (\A j \in Slot : j < k => j \in Occupied)
           \/ /\ Occupied = Slot
              /\ \A j \in Slot : store[k].timestamp <= store[j].timestamp
  BY StoreWrites
<1>2. CASE now = 0
  <2>1. Known = {} /\ Known' = {}
    BY <1>2, StoreAtZero DEF Known
  <2> QED
    BY <1>2, <2>1 DEF Directory!Hear, Directory!Refresh, Store
<1>3. CASE now # 0
  <2>1. Occupied' = Occupied \union {k}
    BY <1>1, <1>3 DEF Occupied
  <2>2. CASE k \in Occupied /\ store[k].device = d
    <3>1. Known' = Known /\ d \in Known
      BY <1>1, <2>1, <2>2 DEF Known, Occupied
    <3> QED
      BY <3>1 DEF Directory!Hear, Directory!Refresh, Store
  <2>3. CASE k \notin Occupied
    <3>1. Known' = Known \union {d} /\ d \notin Known
      BY <1>1, <2>1, <2>3 DEF Known, Occupied
    <3>2. Cardinality(Known) < MaxDevices
      <4>1. Occupied \in SUBSET Slot /\ Occupied # Slot
        BY <2>3 DEF Occupied
      <4>2. Cardinality(Occupied) <= MaxDevices /\ Cardinality(Occupied) # MaxDevices
            /\ Cardinality(Occupied) \in Nat
        BY <4>1, KnownCardinality, FS_Subset, FS_CardinalityType
      <4> QED
        BY <4>2, KnownCardinality, StoreAssumption
    <3> QED
      BY <1>3, <3>1, <3>2, SameCardinality DEF Directory!Hear, Directory!Add, Store
  <2>4. CASE /\ k \in Occupied /\ store[k].device # d /\ Occupied = Slot
             /\ \A j \in Slot : store[k].timestamp <= store[j].timestamp
    <3> DEFINE victim == store[k].device
    <3>1. d \notin Known
      BY <1>1, <2>4 DEF Known
    <3>2. Known' = (Known \ {victim}) \union {d}
      <4>1. Known' \subseteq (Known \ {victim}) \union {d}
        BY <1>1, <2>1, <2>4 DEF Known, Occupied, IInv, OneSlotPerDevice
      <4>2. (Known \ {victim}) \union {d} \subseteq Known'
        BY <1>1, <2>1, <2>4 DEF Known, Occupied
      <4> QED
        BY <4>1, <4>2
    <3>3. \A i \in Occupied : last[store[i].device].timestamp = store[i].timestamp
      <4> SUFFICES ASSUME NEW i \in Occupied
                   PROVE  last[store[i].device].timestamp = store[i].timestamp
        OBVIOUS
      <4>1. last[store[i].device] = [timestamp |-> store[i].timestamp, data |-> store[i].data]
        BY DEF IInv, RecordsAreLatest
      <4> QED
        BY <4>1
    <3>4. victim \in Directory!LeastRecent
      BY <2>4, <3>3 DEF Directory!LeastRecent, Known
    <3>5. Cardinality(Known) = MaxDevices
      BY <2>4, KnownCardinality
    <3> QED
      BY <1>3, <3>1, <3>2, <3>4, <3>5, SameCardinality DEF Directory!Hear, Directory!Replace, Store
  <2> QED
    BY <1>1, <2>2, <2>3, <2>4
<1> QED
  BY <1>2, <1>3

\* The array implements the directory: each report stored is one report heard.
THEOREM ArrayImplementsDirectory == Spec => ImplementsDirectory
<1>1. Init => Directory!Init
  BY DEF Init, Directory!Init, Known, Occupied, ZeroRecord, NeverHeard,
         Directory!NeverHeard
<1>2. IInv /\ [Next]_vars => [Directory!Next]_(Directory!vars)
  <2> SUFFICES ASSUME IInv, [Next]_vars PROVE [Directory!Next]_(Directory!vars)
    OBVIOUS
  <2>1. ASSUME NEW d \in Device, NEW x \in Data, Store(d, x) PROVE Directory!Next
    BY <2>1, StoreHears DEF Directory!Next
  <2>2. CASE Tick
    BY <2>2 DEF Tick, Directory!Next, Directory!Tick, Known, Occupied
  <2>3. CASE Restart
    BY <2>3 DEF Restart, Directory!Next, Directory!Restart, Known, Occupied,
                ZeroRecord, NeverHeard, Directory!NeverHeard
  <2>4. CASE UNCHANGED vars
    BY <2>4 DEF vars, Directory!vars, Known, Occupied
  <2> QED
    BY <2>1, <2>2, <2>3, <2>4 DEF Next
<1> QED
  BY <1>1, <1>2, InductiveInvariant, PTL DEF Spec, ImplementsDirectory, Directory!Spec
=============================================================================
