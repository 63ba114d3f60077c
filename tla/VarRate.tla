------------------------------- MODULE VarRate -------------------------------
(***************************************************************************)
(* The variable-rate numbers of OGN packets (ogn_conv.c): speeds, climb    *)
(* and turn rates travel in fewer bits than they have, exact when small    *)
(* and ever coarser when large.  There are five codecs, UR2V5, UR2V6,      *)
(* UR2V8, SR2V5 and SR2V6: the same code for three thresholds, with or     *)
(* without a sign.                                                         *)
(*                                                                         *)
(* A tracker measures a value and encodes it; the station decodes it and   *)
(* shows it (ogn_decoder_decode, which decodes but never encodes).  A code *)
(* may also come from somebody else's encoder, or be what is left of a     *)
(* damaged packet: any code at all.                                        *)
(***************************************************************************)
EXTENDS Integers

CONSTANTS Codecs,       \* thresholds, signed or not: [thres : Nat, signed : BOOLEAN]
          Printed,      \* those whose values the station prints
          MaxMeasured   \* bound of the values measured

ASSUME VarRateAssumption ==
  /\ Codecs \subseteq [thres : Nat \ {0}, signed : BOOLEAN]
  /\ Printed \subseteq Codecs
  /\ MaxMeasured \in Nat

VARIABLES codec,     \* the codec in use
          pc,        \* "measured", "sent", "decoded", "shown"
          measured,  \* what the tracker measured, in tenths
          genuine,   \* the code comes from our encoder
          code,      \* what travels
          decoded,   \* what the station makes of it, in tenths
          shown      \* what it prints, in tenths

vars == <<codec, pc, measured, genuine, code, decoded, shown>>

Measurable(c) == (IF c.signed THEN -MaxMeasured ELSE 0) .. MaxMeasured
\* Two bits of range above the bits of the threshold, and a sign above them.
SignMask(t) == 4 * t
Codes(c) == 0 .. (IF c.signed THEN 2 * SignMask(c.thres) ELSE SignMask(c.thres)) - 1
-----------------------------------------------------------------------------
(***************************************************************************)
(* The conversions.  An "or" of the code joins bits that do not overlap    *)
(* and is a sum here, a shift is a division, a mask a remainder.           *)
(***************************************************************************)

\* Mutant: the last range goes on for one value more than it has codes for.
EncodesTooMuch(t, v) ==
  CASE v < t                      -> v
    [] t <= v /\ v < 3 * t        -> t + (v - t) \div 2
    [] 3 * t <= v /\ v < 7 * t    -> 2 * t + (v - 3 * t) \div 4
    [] 7 * t <= v /\ v <= 15 * t  -> 3 * t + (v - 7 * t) \div 8
    [] OTHER                      -> 4 * t - 1
\* Mutant: a range that starts where the one before it does not end.
EncodesWithGap(t, v) ==
  CASE v < t                      -> v
    [] t <= v /\ v < 3 * t        -> t + (v - t) \div 2
    [] 3 * t <= v /\ v < 7 * t    -> 2 * t + (v - 2 * t) \div 4
    [] 7 * t <= v /\ v < 15 * t   -> 3 * t + (v - 7 * t) \div 8
    [] OTHER                      -> 4 * t - 1
UnsVRencode(t, v) ==
  CASE v < t                      -> v
    [] t <= v /\ v < 3 * t        -> t + (v - t) \div 2
    [] 3 * t <= v /\ v < 7 * t    -> 2 * t + (v - 3 * t) \div 4
    [] 7 * t <= v /\ v < 15 * t   -> 3 * t + (v - 7 * t) \div 8
    [] OTHER                      -> 4 * t - 1

\* The two bits above those of the threshold, and those below.
RangeOf(t, c) == CHOOSE r \in 0 .. 3 : r * t <= c /\ c < (r + 1) * t
Low(t, c)     == c - RangeOf(t, c) * t

\* Mutant: the lowest value a code stands for, instead of one from the middle.
DecodesLowest(t, c) ==
  CASE RangeOf(t, c) = 0 -> Low(t, c)
    [] RangeOf(t, c) = 1 -> t + 2 * Low(t, c)
    [] RangeOf(t, c) = 2 -> 3 * t + 4 * Low(t, c)
    [] RangeOf(t, c) = 3 -> 7 * t + 8 * Low(t, c)
UnsVRdecode(t, c) ==
  CASE RangeOf(t, c) = 0 -> Low(t, c)
    [] RangeOf(t, c) = 1 -> t + 1 + 2 * Low(t, c)
    [] RangeOf(t, c) = 2 -> 3 * t + 2 + 4 * Low(t, c)
    [] RangeOf(t, c) = 3 -> 7 * t + 4 + 8 * Low(t, c)

Magnitude(v) == IF v < 0 THEN -v ELSE v

\* SignVRencode_5, SignVRencode_6; the unsigned codecs only take v >= 0.
Encoded(c, v) == UnsVRencode(c.thres, Magnitude(v)) + IF v < 0 THEN SignMask(c.thres) ELSE 0

IsNegative(c, x) == c.signed /\ x >= SignMask(c.thres)

\* Mutant: the sign is applied to the code, not to the value.
SignLost(c, x) == UnsVRdecode(c.thres, x % SignMask(c.thres))
\* SignVRdecode_5, SignVRdecode_6, and the unsigned decoders.
Decoded(c, x) == IF IsNegative(c, x) THEN -UnsVRdecode(c.thres, x - SignMask(c.thres))
                                     ELSE UnsVRdecode(c.thres, x)
-----------------------------------------------------------------------------
Init == /\ codec \in Codecs
        /\ decoded = 0 /\ shown = 0
        /\ \/ pc = "measured" /\ measured \in Measurable(codec) /\ genuine = TRUE /\ code = 0
           \/ pc = "sent" /\ measured = 0 /\ genuine = FALSE /\ code \in Codes(codec)

Encode == /\ pc = "measured"
          /\ code' = Encoded(codec, measured)
          /\ pc' = "sent"
          /\ UNCHANGED <<codec, measured, genuine, decoded, shown>>

Decode == /\ pc = "sent"
          /\ decoded' = Decoded(codec, code)
          /\ pc' = "decoded"
          /\ UNCHANGED <<codec, measured, genuine, code, shown>>

\* "Speed: %.1f m/s", of a speed in tenths; climb rate, heading and turn rate
\* likewise.
Show == /\ pc = "decoded" /\ codec \in Printed
        /\ shown' = 10 * decoded
        /\ pc' = "shown"
        /\ UNCHANGED <<codec, measured, genuine, code, decoded>>

Next == Encode \/ Decode \/ Show

Spec == Init /\ [][Next]_vars
-----------------------------------------------------------------------------
Done == pc \in {"decoded", "shown"}

\* Every code fits the bits the packet has for it, whatever is measured.
TypeOK == /\ codec \in Codecs
          /\ pc \in {"measured", "sent", "decoded", "shown"}
          /\ measured \in Measurable(codec)
          /\ genuine \in BOOLEAN
          /\ code \in Codes(codec)
          /\ decoded \in Int /\ shown \in Int

\* How far off a value of this magnitude may be.
Tolerance(t, m) == CASE m < t                    -> 0
                     [] t <= m /\ m < 3 * t      -> 1
                     [] 3 * t <= m /\ m < 7 * t  -> 2
                     [] 7 * t <= m               -> 4

\* What the station makes of a measured value is off by no more than half a
\* step of its range, at the edges of the ranges too, and a value beyond the
\* last range is taken for the largest.
Precise ==
  Done /\ genuine =>
    LET m == Magnitude(measured)
        d == Magnitude(decoded)
    IN /\ m < 15 * codec.thres => Magnitude(d - m) <= Tolerance(codec.thres, m)
       /\ m >= 15 * codec.thres => d = 15 * codec.thres - 4
       /\ measured < 0 => decoded <= 0
       /\ measured > 0 => decoded > 0

\* A larger value is never taken for a smaller one: the ranges join up.
Ordered ==
  Done /\ genuine /\ measured < MaxMeasured =>
    decoded <= Decoded(codec, Encoded(codec, measured + 1))

\* Decoding loses nothing: whatever code came, encoding the value again gives
\* the code, but for the negative zero.
Reversible ==
  Done => \/ Encoded(codec, decoded) = code
          \/ code = SignMask(codec.thres) /\ decoded = 0

\* ogn_types.h:92 "Ground speed [0.1 m/s]": what is shown in m/s is the speed.
ShownAsMeasured == pc = "shown" => shown = decoded
=============================================================================
