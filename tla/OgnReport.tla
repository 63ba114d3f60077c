------------------------------ MODULE OgnReport ------------------------------
(***************************************************************************)
(* The numbers of an OGN packet, from its bits to what is printed:         *)
(* unpack_ogn_tracking cuts out the fields one by one (OgnPacket) and      *)
(* passes four of them to a variable-rate decoder as soon as it has them   *)
(* (VarRate).  One of the four is watched.                                 *)
(*                                                                         *)
(* The codecs can also be called by themselves, as ogn_conv.h offers them; *)
(* there the encoders come in, which the station has no use for.           *)
(***************************************************************************)
EXTENDS OgnPacket, VarRate

VARIABLE watched   \* the field that is watched, 0 if a codec is called by itself

reportVars == <<packetVars, vars, watched>>

UR2V5 == [thres |-> 32,  signed |-> FALSE]
UR2V6 == [thres |-> 64,  signed |-> FALSE]
UR2V8 == [thres |-> 256, signed |-> FALSE]
SR2V5 == [thres |-> 32,  signed |-> TRUE]
SR2V6 == [thres |-> 64,  signed |-> TRUE]

\* The fields that have a codec: climb rate, speed, heading and turn rate.
Climb    == 8
Speed    == 9
Heading  == 10
TurnRate == 11
Coded == Climb .. TurnRate

\* The widths are those that unpack_ogn_tracking reads.
ASSUME ReportAssumption == /\ Coded \subseteq DOMAIN Layout
                           /\ Layout[Climb].width = 9
                           /\ Layout[Speed].width = 10 /\ Layout[Heading].width = 10
                           /\ Layout[TurnRate].width = 8
                           /\ {UR2V8, SR2V5, SR2V6} \subseteq Printed

\* Mutant: the turn rate is decoded as a climb rate.
DecoderMixedUp(i) == IF i \in {Climb, TurnRate} THEN SR2V6 ELSE UR2V8
\* The decoder each of them is given to.
DecoderOf(i) == CASE i = Climb    -> SR2V6
                  [] i = TurnRate -> SR2V5
                  [] OTHER        -> UR2V8

\* A number converted to an unsigned or a signed type of n values.
AsUnsigned(n, x) == x % n
AsSigned(n, x)   == IF x % n < n \div 2 THEN x % n ELSE (x % n) - n

\* Mutant: the climb rate is cast like the turn rate.
CastAlike(i, x) == IF i \in {Climb, TurnRate} THEN AsUnsigned(256, AsSigned(256, x))
                                              ELSE AsUnsigned(65536, x)
\* What the decoder works on after the cast of its argument and its own:
\* (uint16_t)(int16_t)climb_raw, (uint8_t)(int8_t)turn_raw, (uint16_t)speed_raw.
Cast(i, x) == CASE i = Climb    -> AsUnsigned(65536, AsSigned(65536, x))
                [] i = TurnRate -> AsUnsigned(256, AsSigned(256, x))
                [] OTHER        -> AsUnsigned(65536, x)

\* The codec a tracker must have used: the one with a sign where the quantity has
\* one, and with as many codes as the field has.
CodecOf(i) == CHOOSE c \in Codecs : /\ c.signed = (i \in {Climb, TurnRate})
                                    /\ Codes(c) = 0 .. Pow2(Layout[i].width) - 1

NoPacket == [i \in 0 .. Bytes - 1 |-> 0]
\* What the packet has in the place of the field.
CodeOf(p, i) == Number(p, Layout[i].at, Layout[i].width)

ReportInit ==
  \/ /\ watched = 0
     /\ Init
     /\ packet = NoPacket /\ phase = "idle" /\ header = NoHeader /\ fields = <<>>
     /\ bitpos = 0 /\ byte = 0 /\ bit = 0 /\ remaining = 0 /\ value = 0
  \/ /\ watched \in Coded
     /\ PacketInit
     /\ codec = CodecOf(watched) /\ code = CodeOf(packet, watched)
     /\ pc = "sent" /\ genuine = FALSE /\ measured = 0 /\ decoded = 0 /\ shown = 0

ByItself == /\ watched = 0
            /\ Next
            /\ UNCHANGED <<packetVars, watched>>

AtWatched == phase = "loop" /\ Len(fields) + 1 = watched

ReadOther == /\ watched # 0
             /\ ReadHeader \/ Call \/ Loop \/ (Return /\ ~AtWatched)
             /\ UNCHANGED <<vars, watched>>

\* data->climb = DecodeSR2V6((int16_t)climb_raw), and so on.
ReadWatched == /\ watched # 0
               /\ Return /\ AtWatched
               /\ decoded' = Decoded(DecoderOf(watched), Cast(watched, value))
               /\ pc' = "decoded"
               /\ UNCHANGED <<codec, measured, genuine, code, shown, watched>>

\* ogn_decoder_decode prints when the packet has been taken apart.
ShowWatched == /\ watched # 0
               /\ phase = "done" /\ Show
               /\ UNCHANGED <<packetVars, watched>>

ReportNext == ByItself \/ ReadOther \/ ReadWatched \/ ShowWatched

ReportSpec == ReportInit /\ [][ReportNext]_reportVars
-----------------------------------------------------------------------------
\* Each of the four fields reaches, whole, the decoder of the codec it was encoded
\* with, and the fields after it are read all the same.
DecodedAsCoded ==
  watched # 0 /\ phase = "done" =>
    /\ Done
    /\ decoded = Decoded(codec, code)
    /\ Len(fields) = Len(Layout)
=============================================================================
