---------------------------- MODULE MultiDecoder ----------------------------
(***************************************************************************)
(* Decoding a packet (fanet_decoder_decode and ogn_decoder_decode in       *)
(* multi_decoder.c, the unpack functions of fanet_types.c and              *)
(* ogn_types.c) and placing what it says in one of the three tables of     *)
(* devices, each of them a DeviceStore.  Reports of flying and of landed   *)
(* aircraft share a table.                                                 *)
(*                                                                         *)
(* Of a packet, its kind, its length, its sender and what decides whether  *)
(* it is accepted are modelled.  Of a report, only the state of the        *)
(* aircraft is: positions, speeds and measurements are stored as they come *)
(* (their decoding is modelled in OgnPacket and VarRate).                  *)
(***************************************************************************)
EXTENDS Naturals

CONSTANTS FanetDevice, ZeroFanet,   \* vendor and address; those of zeroed memory
          OgnDevice, ZeroOgn,       \* 24-bit address; that of zeroed memory
          MaxDevices, MaxOgnDevices,
          MaxTime,
          FanetLength, OgnLength,   \* the lengths a packet may have
          GroundState               \* the states a landed aircraft may report

ASSUME DecoderAssumption ==
  /\ ZeroFanet \in FanetDevice /\ ZeroOgn \in OgnDevice
  /\ MaxDevices \in Nat \ {0} /\ MaxOgnDevices \in Nat \ {0}
  /\ MaxTime \in Nat
  /\ FanetLength \subseteq Nat /\ OgnLength \subseteq Nat
  /\ GroundState \subseteq 0 .. 15

VARIABLES trackingStore, weatherStore, ognStore,  \* the tables
          now,                                    \* time(NULL)
          log,                                    \* the last line logged of FANET
          tracked, weathered, flown               \* history: latest reports of each table

storeVars == <<trackingStore, weatherStore, ognStore>>
historyVars == <<tracked, weathered, flown>>
vars == <<storeVars, now, log, historyVars>>

\* FANET_PCK_TYPE_...; 3 stands for every other type.
TRACKING == 1
NAME     == 2
OTHER_TYPE == 3
WEATHER  == 4
GROUND   == 7

\* trck_state; zeroed memory holds state_Other.
state_Other  == 0
state_Flying == 16
TrackState == GroundState \union {state_Other, state_Flying}

\* What a weather report or an OGN position says is not told apart.
Measured == "measured"

Tracking == INSTANCE DeviceStore WITH store <- trackingStore, last <- tracked,
              Device <- FanetDevice, ZeroDevice <- ZeroFanet,
              Data <- TrackState, ZeroData <- state_Other
Weather  == INSTANCE DeviceStore WITH store <- weatherStore, last <- weathered,
              Device <- FanetDevice, ZeroDevice <- ZeroFanet,
              Data <- {Measured}, ZeroData <- Measured
Ogn      == INSTANCE DeviceStore WITH store <- ognStore, last <- flown,
              Device <- OgnDevice, ZeroDevice <- ZeroOgn,
              Data <- {Measured}, ZeroData <- Measured,
              MaxDevices <- MaxOgnDevices

FanetPacket ==
  {p \in [type : {TRACKING, NAME, OTHER_TYPE, WEATHER, GROUND}, len : FanetLength,
          device : FanetDevice, fast : BOOLEAN, state : GroundState] :
     p.fast => p.type = TRACKING}
OgnPacket   == [len : OgnLength, device : OgnDevice, otherData : BOOLEAN]

\* A log line that no property is about.
OtherLine == [line |-> "other"]

Init == /\ Tracking!Init /\ Weather!Init /\ Ogn!Init
        /\ log = OtherLine
-----------------------------------------------------------------------------
(***************************************************************************)
(* FANET.                                                                  *)
(***************************************************************************)

\* sizeof(fanet_packet_t1), sizeof(fanet_packet_t4) and sizeof(fanet_packet_t7):
\* the whole structure, its optional fields included.
SizeOf(type) == CASE type = TRACKING -> 17
                  [] type = WEATHER  -> 19
                  [] type = GROUND   -> 11

\* The packet is long enough for its type, and an aircraft is not faster than
\* 315 km/h.
Accepted(p) == /\ p.type \in {TRACKING, WEATHER, GROUND}
               /\ p.len >= SizeOf(p.type)
               /\ ~(p.type = TRACKING /\ p.fast)

\* Mutant: the four upper bits of the byte are not shifted down.
StateUnshifted(p) == IF p.type = TRACKING THEN state_Flying ELSE p.state * 16
State(p) == IF p.type = TRACKING THEN state_Flying ELSE p.state

\* Mutants: the report is not stamped.
UnstampedTrack(p) == [device |-> p.device, timestamp |-> 0, data |-> State(p)]
UnstampedWeather(p) == [device |-> p.device, timestamp |-> 0, data |-> Measured]
\* unpack_trackingdata and unpack_ground_trackingdata, unpack_weatherdata.
TrackRecord(p)   == [device |-> p.device, timestamp |-> now, data |-> State(p)]
WeatherRecord(p) == [device |-> p.device, timestamp |-> now, data |-> Measured]

Heard(last, d, x) == [last EXCEPT ![d] = [timestamp |-> now, data |-> x]]

\* trck_state_names, which counts the states as they come; (null) is what is
\* printed for the entries the initialiser leaves out.
StateName(s) ==
  IF s <= 11
  THEN <<"Other", "Walking", "Vehicle", "Bike", "Boot", "Need a ride", "Landed well",
         "Need technical support", "Need medical help", "Distress call",
         "Distress call automatically", "Flying">>[s + 1]
  ELSE "(null)"

FanetTracking(p) ==
  /\ p.type = TRACKING /\ Accepted(p)
  /\ trackingStore' = Tracking!Stored(trackingStore, TrackRecord(p))
  /\ tracked' = Heard(tracked, p.device, state_Flying)
  /\ log' = OtherLine
  /\ UNCHANGED <<weatherStore, ognStore, now, weathered, flown>>

FanetGround(p) ==
  /\ p.type = GROUND /\ Accepted(p)
  /\ trackingStore' = Tracking!Stored(trackingStore, TrackRecord(p))
  /\ tracked' = Heard(tracked, p.device, p.state)
  /\ log' = [line |-> "ground", state |-> p.state, name |-> StateName(p.state)]
  /\ UNCHANGED <<weatherStore, ognStore, now, weathered, flown>>

FanetWeather(p) ==
  /\ p.type = WEATHER /\ Accepted(p)
  /\ weatherStore' = Weather!Stored(weatherStore, WeatherRecord(p))
  /\ weathered' = Heard(weathered, p.device, Measured)
  /\ log' = OtherLine
  /\ UNCHANGED <<trackingStore, ognStore, now, tracked, flown>>

\* A packet that is not accepted, or tells a name, is only logged.
FanetLogged(p) ==
  /\ ~Accepted(p)
  /\ log' = OtherLine
  /\ UNCHANGED <<storeVars, now, historyVars>>
-----------------------------------------------------------------------------
(***************************************************************************)
(* OGN, the clock and restarts.                                            *)
(***************************************************************************)

\* Without or with its error correction, and a position.
OgnAccepted(p) == p.len \in {20, 26} /\ ~p.otherData

\* Mutant: the report is not stamped.
UnstampedOgn(p) == [device |-> p.device, timestamp |-> 0, data |-> Measured]
OgnRecord(p) == [device |-> p.device, timestamp |-> now, data |-> Measured]

OgnTracking(p) ==
  /\ OgnAccepted(p)
  /\ ognStore' = Ogn!Stored(ognStore, OgnRecord(p))
  /\ flown' = Heard(flown, p.device, Measured)
  /\ UNCHANGED <<trackingStore, weatherStore, now, log, tracked, weathered>>

OgnDropped(p) ==
  /\ ~OgnAccepted(p)
  /\ UNCHANGED vars

Tick == /\ now < MaxTime
        /\ now' = now + 1
        /\ UNCHANGED <<storeVars, log, historyVars>>

Restart == /\ Tracking!Restart /\ Weather!Restart /\ Ogn!Restart
           /\ UNCHANGED log

Next == \/ \E p \in FanetPacket : \/ FanetTracking(p) \/ FanetGround(p)
                                  \/ FanetWeather(p) \/ FanetLogged(p)
        \/ \E p \in OgnPacket : OgnTracking(p) \/ OgnDropped(p)
        \/ Tick
        \/ Restart

Spec == Init /\ [][Next]_vars
-----------------------------------------------------------------------------
\* Whatever packets come in whatever order, each table behaves as if it were
\* alone: a report enters the table of its kind, under its sender and the time
\* it came, and no other; the latest one counts, flying or landed.
TablesAreSeparate == Tracking!Spec /\ Weather!Spec /\ Ogn!Spec

\* fanet_types.h:18-23 names the states: state_Need_ride = 8, state_Landed_well
\* = 9, state_Distress_call = 14 and so on.  The name shown is that of the state.
NameOfState ==
  LET named == [s \in {8, 9, 12, 13, 14, 15} |->
                 CASE s = 8  -> "Need a ride"
                   [] s = 9  -> "Landed well"
                   [] s = 12 -> "Need technical support"
                   [] s = 13 -> "Need medical help"
                   [] s = 14 -> "Distress call"
                   [] s = 15 -> "Distress call automatically"]
  IN log.line = "ground" /\ log.state \in DOMAIN named => log.name = named[log.state]
=============================================================================
