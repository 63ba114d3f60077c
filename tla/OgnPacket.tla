----------------------------- MODULE OgnPacket -----------------------------
(***************************************************************************)
(* Taking an OGN packet apart (unpack_ogn_tracking and read_bits,          *)
(* ogn_types.c).  Address and flags are in the first four bytes; the other *)
(* fields follow one another bit by bit, without regard for bytes, and are *)
(* read by a loop that takes from each byte as many bits as the field      *)
(* still lacks and the byte still has.                                     *)
(*                                                                         *)
(* The layout of the fields is a parameter: where each of them is, how     *)
(* wide it is, and whether it has a sign.  The code knows the widths only. *)
(***************************************************************************)
EXTENDS Integers, Sequences

CONSTANTS Bytes,     \* length of the packet, without the error correction
          Layout,    \* the fields: a sequence of [at, width, signed]
          Packets    \* the packets that may come

HeaderBits == 32

\* read_bits reads at most the 32 bits of the number it returns.
ASSUME PacketAssumption ==
  /\ Bytes \in Nat
  /\ Layout \in Seq([at : Nat, width : 1 .. 32, signed : BOOLEAN])
  /\ Layout # <<>>
  /\ Layout[1].at = HeaderBits
  /\ \A i \in 1 .. Len(Layout) - 1 : Layout[i + 1].at = Layout[i].at + Layout[i].width
  /\ \A i \in 1 .. Len(Layout) : Layout[i].at + Layout[i].width <= 8 * Bytes
  /\ Packets \subseteq [0 .. Bytes - 1 -> 0 .. 255]

VARIABLES packet,     \* the bytes
          phase,      \* "idle", "header", "call", "loop", "done", "refused"
          header,     \* address and flags
          bitpos,     \* bits consumed
          byte, bit,  \* where read_bits is
          remaining,  \* bits it still lacks
          value,      \* what it has read
          fields      \* the fields read so far

cursorVars == <<bitpos, byte, bit, remaining, value>>
packetVars == <<packet, phase, header, cursorVars, fields>>

NoHeader == [address |-> 0, addr_type |-> 0, addr_parity |-> 0, emergency |-> 0,
             relay_cnt |-> 0, other_data |-> 0, custom_enc |-> 0]

\* The field that is being read.
Field == Layout[Len(fields) + 1]

PacketInit == /\ packet \in Packets
              /\ phase = "header" /\ header = NoHeader
              /\ bitpos = 0 /\ byte = 0 /\ bit = 0 /\ remaining = 0 /\ value = 0
              /\ fields = <<>>
-----------------------------------------------------------------------------
\* 1 << n, which doubles 1 n times.
Pow2(n) == LET pow[i \in 0 .. n] == IF i = 0 THEN 1 ELSE 2 * pow[i - 1] IN pow[n]

Bits(b, shift, n) == (b \div Pow2(shift)) % Pow2(n)

\* Mutant: the flags are counted from the other end of the byte.
HeaderReversed(p) ==
  [address     |-> p[0] * 2^16 + p[1] * 2^8 + p[2],
   addr_type   |-> Bits(p[3], 0, 2),
   addr_parity |-> Bits(p[3], 2, 1),
   emergency   |-> Bits(p[3], 3, 1),
   relay_cnt   |-> Bits(p[3], 4, 2),
   other_data  |-> Bits(p[3], 6, 1),
   custom_enc  |-> Bits(p[3], 7, 1)]
HeaderOf(p) ==
  [address     |-> p[0] * 2^16 + p[1] * 2^8 + p[2],
   addr_type   |-> Bits(p[3], 6, 2),
   addr_parity |-> Bits(p[3], 5, 1),
   emergency   |-> Bits(p[3], 4, 1),
   relay_cnt   |-> Bits(p[3], 2, 2),
   other_data  |-> Bits(p[3], 1, 1),
   custom_enc  |-> Bits(p[3], 0, 1)]

ReadHeader ==
  /\ phase = "header"
  /\ header' = HeaderOf(packet)
  /\ bitpos' = HeaderBits
  /\ phase' = IF header'.other_data # 0 THEN "refused" ELSE "call"
  /\ UNCHANGED <<packet, byte, bit, remaining, value, fields>>

\* read_bits(buffer, &bitpos, width)
Call ==
  /\ phase = "call"
  /\ byte' = bitpos \div 8 /\ bit' = bitpos % 8
  /\ remaining' = Field.width
  /\ value' = 0
  /\ phase' = "loop"
  /\ UNCHANGED <<packet, header, bitpos, fields>>

\* As many bits as the field still lacks, or the byte still has.
Take == IF remaining < 8 - bit THEN remaining ELSE 8 - bit

\* Mutant: the next byte is begun a bit early.
WrapsEarly == bit + Take >= 7
Wraps == bit + Take = 8

Loop ==
  /\ phase = "loop" /\ remaining > 0
  /\ value' = value * Pow2(Take) + Bits(packet[byte], 8 - bit - Take, Take)
  /\ remaining' = remaining - Take
  /\ IF Wraps THEN bit' = 0 /\ byte' = byte + 1
              ELSE bit' = bit + Take /\ UNCHANGED byte
  /\ UNCHANGED <<packet, phase, header, bitpos, fields>>

\* Mutant: the upper bits are set whatever the sign is.
AlwaysNegative(n, x) == x - Pow2(n)
\* sign_extend_24, sign_extend_9: the bits above the sign are set.
SignExtended(n, x) == IF x >= Pow2(n - 1) THEN x - Pow2(n) ELSE x

Return ==
  /\ phase = "loop" /\ remaining = 0
  /\ bitpos' = bitpos + Field.width
  /\ fields' = Append(fields, IF Field.signed THEN SignExtended(Field.width, value) ELSE value)
  /\ phase' = IF Len(fields') = Len(Layout) THEN "done" ELSE "call"
  /\ UNCHANGED <<packet, header, byte, bit, remaining, value>>

PacketNext == ReadHeader \/ Call \/ Loop \/ Return

PacketSpec == PacketInit /\ [][PacketNext]_packetVars
-----------------------------------------------------------------------------
(***************************************************************************)
(* What the packet says: bits counted from the first of the first byte,    *)
(* the most significant first; the first one of a signed field counts      *)
(* negative.                                                               *)
(***************************************************************************)
BitAt(p, k) == Bits(p[k \div 8], 7 - (k % 8), 1)

Number(p, at, n) ==
  LET sum[i \in 0 .. n] == IF i = 0 THEN 0 ELSE 2 * sum[i - 1] + BitAt(p, at + i - 1)
  IN sum[n]

Meant(p, f) ==
  Number(p, f.at, f.width) - IF f.signed /\ BitAt(p, f.at) = 1 THEN Pow2(f.width) ELSE 0

CursorOK == /\ bitpos \in Nat /\ byte \in Nat /\ bit \in 0 .. 7
            /\ remaining \in Nat /\ value \in Nat

PacketTypeOK == /\ packet \in Packets
                /\ phase \in {"idle", "header", "call", "loop", "done", "refused"}
                /\ header \in [DOMAIN NoHeader -> Nat]
                /\ CursorOK
                /\ fields \in Seq(Int)
                /\ Len(fields) <= Len(Layout)

\* No byte is read that the packet does not have, whatever the widths of the
\* fields are, and no bit is skipped or read twice.
InBounds ==
  phase = "loop" => /\ 8 * byte + bit = Field.at + Field.width - remaining
                    /\ remaining > 0 => byte < Bytes

\* Every field that was read is what the packet says at its place, however it
\* lies across the bytes, and with its sign.
FieldsAreMeant == \A i \in DOMAIN fields : fields[i] = Meant(packet, Layout[i])

\* Address and flags, which are not read bit by bit, are the bits before them.
HeaderIsMeant ==
  phase \notin {"idle", "header"} =>
    header = [address     |-> Number(packet, 0, 24),
              addr_type   |-> Number(packet, 24, 2),
              addr_parity |-> Number(packet, 26, 1),
              emergency   |-> Number(packet, 27, 1),
              relay_cnt   |-> Number(packet, 28, 2),
              other_data  |-> Number(packet, 30, 1),
              custom_enc  |-> Number(packet, 31, 1)]
=============================================================================
