---------------------------- MODULE MCOgnReport ----------------------------
(***************************************************************************)
(* OgnReport with the layout of the firmware and the five codecs.  The     *)
(* packets are those in which one bit is set, or all of them, or every     *)
(* other one: reading joins bits, so that one bit at a time shows where    *)
(* each of them goes; and for every code one with this code in all four    *)
(* fields that have a decoder.  The codecs by themselves are given every   *)
(* value up to a little beyond the largest that UR2V8 can say.             *)
(***************************************************************************)
EXTENDS OgnReport

\* The widths that unpack_ogn_tracking reads, in its order, and their sums.
MCLayout ==
  <<[at |->  32, width |->  4, signed |-> FALSE],   \* acft_type
    [at |->  36, width |->  1, signed |-> FALSE],   \* stealth
    [at |->  37, width |->  6, signed |-> FALSE],   \* time_sec
    [at |->  43, width |-> 24, signed |-> TRUE],    \* lat
    [at |->  67, width |-> 24, signed |-> TRUE],    \* lon
    [at |->  91, width |-> 14, signed |-> FALSE],   \* alt_gnss
    [at |-> 105, width |->  9, signed |-> TRUE],    \* alt_pressure
    [at |-> 114, width |->  9, signed |-> FALSE],   \* climb
    [at |-> 123, width |-> 10, signed |-> FALSE],   \* speed
    [at |-> 133, width |-> 10, signed |-> FALSE],   \* heading
    [at |-> 143, width |->  8, signed |-> FALSE],   \* turn_rate
    [at |-> 151, width |->  1, signed |-> FALSE],   \* fix_mode
    [at |-> 152, width |->  2, signed |-> FALSE],   \* fix_quality
    [at |-> 154, width |->  6, signed |-> FALSE]>>  \* dop

OneBit(k)   == [i \in 0 .. Bytes - 1 |-> IF i = k \div 8 THEN 2^(7 - (k % 8)) ELSE 0]
AllBytes(b) == [i \in 0 .. Bytes - 1 |-> IF i = 3 THEN 1 ELSE b]

\* Bit k of a packet with the code c in the four fields, as far as it fits.
BitOf(c, k) ==
  IF \E i \in Coded : k \in Layout[i].at .. Layout[i].at + Layout[i].width - 1
  THEN LET i == CHOOSE j \in Coded : k \in Layout[j].at .. Layout[j].at + Layout[j].width - 1
       IN Bits(c, Layout[i].at + Layout[i].width - 1 - k, 1)
  ELSE 0
AllCodes(c) ==
  [i \in 0 .. Bytes - 1 |->
     128 * BitOf(c, 8 * i) + 64 * BitOf(c, 8 * i + 1) + 32 * BitOf(c, 8 * i + 2)
     + 16 * BitOf(c, 8 * i + 3) + 8 * BitOf(c, 8 * i + 4) + 4 * BitOf(c, 8 * i + 5)
     + 2 * BitOf(c, 8 * i + 6) + BitOf(c, 8 * i + 7)]

MCPackets == {OneBit(k) : k \in 0 .. 8 * Bytes - 1}
             \union {AllBytes(b) : b \in {85, 170, 255}}
             \union {AllCodes(c) : c \in 0 .. 1023}

MCCodecs == {UR2V5, UR2V6, UR2V8, SR2V5, SR2V6}

\* Speed and heading, turn rate, climb rate.
MCPrinted == {UR2V8, SR2V5, SR2V6}
=============================================================================
