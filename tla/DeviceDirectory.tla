-------------------------- MODULE DeviceDirectory --------------------------
(***************************************************************************)
(* What a device table promises, without slots: a directory of at most     *)
(* Capacity devices, which always holds the latest report of each device   *)
(* in it, and which makes room for a new device by dropping the one heard  *)
(* least recently.                                                         *)
(*                                                                         *)
(* The clock counts whole seconds (time(NULL)).  A report received in      *)
(* second 0 cannot be remembered: 0 is the mark of an unused record.       *)
(***************************************************************************)
EXTENDS Naturals, FiniteSets

CONSTANTS Device,      \* the addresses a packet may carry
          Data,        \* what a report says, beyond who and when
          ZeroData,    \* the report that zeroed memory looks like
          Capacity,    \* the number of devices the directory can hold
          MaxTime      \* bound of the clock

VARIABLES known,       \* the devices in the directory
          last,        \* the latest report of every device since the boot
          now          \* the clock, in seconds

vars == <<known, last, now>>

NeverHeard == [timestamp |-> 0, data |-> ZeroData]

Init == /\ known = {}
        /\ last = [d \in Device |-> NeverHeard]
        /\ now = 0

\* The devices of the directory that no other device of it is older than.
LeastRecent == {d \in known : \A e \in known : last[d].timestamp <= last[e].timestamp}

\* A device the directory already has, or a report of second 0.
Refresh(d) == /\ d \in known \/ now = 0
              /\ UNCHANGED known

Add(d) == /\ d \notin known
          /\ now # 0
          /\ Cardinality(known) < Capacity
          /\ known' = known \union {d}

Replace(d) == /\ d \notin known
              /\ now # 0
              /\ Cardinality(known) = Capacity
              /\ \E victim \in LeastRecent : known' = (known \ {victim}) \union {d}

Hear(d, x) == /\ Refresh(d) \/ Add(d) \/ Replace(d)
              /\ last' = [last EXCEPT ![d] = [timestamp |-> now, data |-> x]]
              /\ UNCHANGED now

Tick == /\ now < MaxTime
        /\ now' = now + 1
        /\ UNCHANGED <<known, last>>

\* A restart forgets everything; only a power cycle also resets the clock.
Restart == /\ known' = {}
           /\ last' = [d \in Device |-> NeverHeard]
           /\ now' \in {0, now}

Next == \/ \E d \in Device, x \in Data : Hear(d, x)
        \/ Tick
        \/ Restart

Spec == Init /\ [][Next]_vars
=============================================================================
