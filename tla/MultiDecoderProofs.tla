------------------------- MODULE MultiDecoderProofs -------------------------
(***************************************************************************)
(* Each of the three tables behaves as a DeviceStore that is alone, for    *)
(* all sets of senders, all sizes of the tables and all lengths of packets *)
(* that may come; what is proved about DeviceStore therefore holds of each *)
(* of them.  The tables share the clock and nothing else.                  *)
(***************************************************************************)
EXTENDS MultiDecoder, TLAPS

\* The theorems about DeviceStore, for each of the tables.
TrackingP == INSTANCE DeviceStoreProofs WITH store <- trackingStore, last <- tracked,
               Device <- FanetDevice, ZeroDevice <- ZeroFanet,
               Data <- TrackState, ZeroData <- state_Other
WeatherP  == INSTANCE DeviceStoreProofs WITH store <- weatherStore, last <- weathered,
               Device <- FanetDevice, ZeroDevice <- ZeroFanet,
               Data <- {Measured}, ZeroData <- Measured
OgnP      == INSTANCE DeviceStoreProofs WITH store <- ognStore, last <- flown,
               Device <- OgnDevice, ZeroDevice <- ZeroOgn,
               Data <- {Measured}, ZeroData <- Measured,
               MaxDevices <- MaxOgnDevices

LEMMA TableAssumptions ==
  TrackingP!StoreAssumption /\ WeatherP!StoreAssumption /\ OgnP!StoreAssumption
BY DecoderAssumption
DEF TrackingP!StoreAssumption, WeatherP!StoreAssumption, OgnP!StoreAssumption, TrackState
-----------------------------------------------------------------------------
\* What is stored of a packet is a report of its sender.
LEMMA TrackingStep == [Next]_vars => [Tracking!Next]_(Tracking!vars)
<1> SUFFICES ASSUME [Next]_vars PROVE [Tracking!Next]_(Tracking!vars)
  OBVIOUS
<1>1. ASSUME NEW p \in FanetPacket, FanetTracking(p) PROVE Tracking!Next
  <2>1. p.device \in FanetDevice /\ state_Flying \in TrackState
    BY DEF FanetPacket, TrackState
  <2>2. Tracking!Store(p.device, state_Flying)
    BY <1>1 DEF FanetTracking, TrackRecord, State, Heard, Tracking!Store
  <2> QED
    BY <2>1, <2>2 DEF Tracking!Next
<1>2. ASSUME NEW p \in FanetPacket, FanetGround(p) PROVE Tracking!Next
  <2>1. p.device \in FanetDevice /\ p.state \in TrackState
    BY DEF FanetPacket, TrackState
  <2>2. Tracking!Store(p.device, p.state)
    BY <1>2 DEF FanetGround, TrackRecord, State, Heard, Tracking!Store, TRACKING, GROUND
  <2> QED
    BY <2>1, <2>2 DEF Tracking!Next
<1>3. ASSUME NEW p \in FanetPacket, FanetWeather(p) \/ FanetLogged(p) PROVE UNCHANGED Tracking!vars
  BY <1>3 DEF FanetWeather, FanetLogged, storeVars, historyVars, Tracking!vars
<1>4. ASSUME NEW p \in OgnPacket, OgnTracking(p) \/ OgnDropped(p) PROVE UNCHANGED Tracking!vars
  BY <1>4 DEF OgnTracking, OgnDropped, vars, storeVars, historyVars, Tracking!vars
<1>5. CASE Tick
  BY <1>5 DEF Tick, storeVars, historyVars, Tracking!Tick, Tracking!Next
<1>6. CASE Restart
  BY <1>6 DEF Restart, Tracking!Next
<1>7. CASE UNCHANGED vars
  BY <1>7 DEF vars, storeVars, historyVars, Tracking!vars
<1> QED
  BY <1>1, <1>2, <1>3, <1>4, <1>5, <1>6, <1>7 DEF Next

LEMMA WeatherStep == [Next]_vars => [Weather!Next]_(Weather!vars)
<1> SUFFICES ASSUME [Next]_vars PROVE [Weather!Next]_(Weather!vars)
  OBVIOUS
<1>1. ASSUME NEW p \in FanetPacket, FanetWeather(p) PROVE Weather!Next
  <2>1. p.device \in FanetDevice
    BY DEF FanetPacket
  <2>2. Weather!Store(p.device, Measured)
    BY <1>1 DEF FanetWeather, WeatherRecord, Heard, Weather!Store
  <2> QED
    BY <2>1, <2>2 DEF Weather!Next
<1>2. ASSUME NEW p \in FanetPacket, FanetTracking(p) \/ FanetGround(p) \/ FanetLogged(p)
      PROVE  UNCHANGED Weather!vars
  BY <1>2 DEF FanetTracking, FanetGround, FanetLogged, storeVars, historyVars, Weather!vars
<1>3. ASSUME NEW p \in OgnPacket, OgnTracking(p) \/ OgnDropped(p) PROVE UNCHANGED Weather!vars
  BY <1>3 DEF OgnTracking, OgnDropped, vars, storeVars, historyVars, Weather!vars
<1>4. CASE Tick
  BY <1>4 DEF Tick, storeVars, historyVars, Weather!Tick, Weather!Next
<1>5. CASE Restart
  BY <1>5 DEF Restart, Weather!Next
<1>6. CASE UNCHANGED vars
  BY <1>6 DEF vars, storeVars, historyVars, Weather!vars
<1> QED
  BY <1>1, <1>2, <1>3, <1>4, <1>5, <1>6 DEF Next

LEMMA OgnStep == [Next]_vars => [Ogn!Next]_(Ogn!vars)
<1> SUFFICES ASSUME [Next]_vars PROVE [Ogn!Next]_(Ogn!vars)
  OBVIOUS
<1>1. ASSUME NEW p \in OgnPacket, OgnTracking(p) PROVE Ogn!Next
  <2>1. p.device \in OgnDevice
    BY DEF OgnPacket
  <2>2. Ogn!Store(p.device, Measured)
    BY <1>1 DEF OgnTracking, OgnRecord, Heard, Ogn!Store
  <2> QED
    BY <2>1, <2>2 DEF Ogn!Next
<1>2. ASSUME NEW p \in FanetPacket,
             FanetTracking(p) \/ FanetGround(p) \/ FanetWeather(p) \/ FanetLogged(p)
      PROVE  UNCHANGED Ogn!vars
  BY <1>2 DEF FanetTracking, FanetGround, FanetWeather, FanetLogged, storeVars, historyVars,
              Ogn!vars
<1>3. ASSUME NEW p \in OgnPacket, OgnDropped(p) PROVE UNCHANGED Ogn!vars
  BY <1>3 DEF OgnDropped, vars, storeVars, historyVars, Ogn!vars
<1>4. CASE Tick
  BY <1>4 DEF Tick, storeVars, historyVars, Ogn!Tick, Ogn!Next
<1>5. CASE Restart
  BY <1>5 DEF Restart, Ogn!Next
<1>6. CASE UNCHANGED vars
  BY <1>6 DEF vars, storeVars, historyVars, Ogn!vars
<1> QED
  BY <1>1, <1>2, <1>3, <1>4, <1>5, <1>6 DEF Next
-----------------------------------------------------------------------------
\* A packet enters the table of its kind and no other, under its sender and the
\* time it came, whatever came before it: each table implements DeviceStore.
THEOREM EachTableAlone == Spec => TablesAreSeparate
<1>1. Init => Tracking!Init /\ Weather!Init /\ Ogn!Init
  BY DEF Init
<1> QED
  BY <1>1, TrackingStep, WeatherStep, OgnStep, PTL
  DEF Spec, TablesAreSeparate, Tracking!Spec, Weather!Spec, Ogn!Spec
-----------------------------------------------------------------------------
\* One table under two names.
LEMMA SameTracking == (Tracking!Init => TrackingP!Init) /\ ([Tracking!Next]_(Tracking!vars) => [TrackingP!Next]_(TrackingP!vars))
BY DEF Tracking!Init, TrackingP!Init, Tracking!Next, TrackingP!Next, Tracking!Store,
    TrackingP!Store, Tracking!Stored, TrackingP!Stored, Tracking!Tick, TrackingP!Tick,
    Tracking!Restart, TrackingP!Restart, Tracking!SlotFor, TrackingP!SlotFor,
    Tracking!First, TrackingP!First, Tracking!Matching, TrackingP!Matching, Tracking!Free,
    TrackingP!Free, Tracking!Oldest, TrackingP!Oldest, Tracking!Slot, TrackingP!Slot,
    Tracking!ZeroRecord, TrackingP!ZeroRecord, Tracking!NeverHeard, TrackingP!NeverHeard,
    Tracking!vars, TrackingP!vars

LEMMA SameWeather == (Weather!Init => WeatherP!Init) /\ ([Weather!Next]_(Weather!vars) => [WeatherP!Next]_(WeatherP!vars))
BY DEF Weather!Init, WeatherP!Init, Weather!Next, WeatherP!Next, Weather!Store, WeatherP!Store,
    Weather!Stored, WeatherP!Stored, Weather!Tick, WeatherP!Tick, Weather!Restart,
    WeatherP!Restart, Weather!SlotFor, WeatherP!SlotFor, Weather!First, WeatherP!First,
    Weather!Matching, WeatherP!Matching, Weather!Free, WeatherP!Free, Weather!Oldest,
    WeatherP!Oldest, Weather!Slot, WeatherP!Slot, Weather!ZeroRecord, WeatherP!ZeroRecord,
    Weather!NeverHeard, WeatherP!NeverHeard, Weather!vars, WeatherP!vars

LEMMA SameOgn == (Ogn!Init => OgnP!Init) /\ ([Ogn!Next]_(Ogn!vars) => [OgnP!Next]_(OgnP!vars))
BY DEF Ogn!Init, OgnP!Init, Ogn!Next, OgnP!Next, Ogn!Store, OgnP!Store, Ogn!Stored,
    OgnP!Stored, Ogn!Tick, OgnP!Tick, Ogn!Restart, OgnP!Restart, Ogn!SlotFor, OgnP!SlotFor,
    Ogn!First, OgnP!First, Ogn!Matching, OgnP!Matching, Ogn!Free, OgnP!Free, Ogn!Oldest,
    OgnP!Oldest, Ogn!Slot, OgnP!Slot, Ogn!ZeroRecord, OgnP!ZeroRecord, Ogn!NeverHeard,
    OgnP!NeverHeard, Ogn!vars, OgnP!vars

LEMMA EachIsTable == Spec => TrackingP!Spec /\ WeatherP!Spec /\ OgnP!Spec
<1>1. Spec => TrackingP!Spec
  BY TrackingStep, SameTracking, PTL DEF Spec, Init, TrackingP!Spec
<1>2. Spec => WeatherP!Spec
  BY WeatherStep, SameWeather, PTL DEF Spec, Init, WeatherP!Spec
<1>3. Spec => OgnP!Spec
  BY OgnStep, SameOgn, PTL DEF Spec, Init, OgnP!Spec
<1> QED
  BY <1>1, <1>2, <1>3, PTL

\* So each of the tables has one live record for a device at most, the latest
\* report of it, in its first slots, and has forgotten only devices that were
\* heard longer ago than all it has (IInv of DeviceStore).
THEOREM EachTableSound == Spec => [](TrackingP!IInv /\ WeatherP!IInv /\ OgnP!IInv)
BY EachIsTable, TableAssumptions, TrackingP!InductiveInvariant,
   WeatherP!InductiveInvariant, OgnP!InductiveInvariant, PTL

\* Each of the tables implements a directory of its own, one of the devices heard
\* most recently with packets of its kind.
THEOREM EachTableImplementsDirectory ==
  Spec => /\ TrackingP!ImplementsDirectory
          /\ WeatherP!ImplementsDirectory
          /\ OgnP!ImplementsDirectory
BY EachIsTable, TableAssumptions, TrackingP!ArrayImplementsDirectory,
   WeatherP!ArrayImplementsDirectory, OgnP!ArrayImplementsDirectory, PTL
=============================================================================
