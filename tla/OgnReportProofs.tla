--------------------------- MODULE OgnReportProofs ---------------------------
(***************************************************************************)
(* The bit reader stays inside the packet and reads what the bits mean,    *)
(* for every packet, every length of it, and every layout whose fields     *)
(* follow one another and fit; the variable-rate codecs are precise and    *)
(* reversible for every threshold, not only for the three the firmware     *)
(* has; and what happens to a field of a packet is what its codec does by  *)
(* itself.                                                                 *)
(***************************************************************************)
EXTENDS OgnReport, TLAPS, WellFoundedInduction
-----------------------------------------------------------------------------
(***************************************************************************)
(* Numbers and their bits.                                                 *)
(***************************************************************************)
\* Induction over the numbers, by their least element.
LEMMA SetInduction ==
  ASSUME NEW S, 0 \in S, \A n \in Nat : n \in S => n + 1 \in S
  PROVE  Nat \subseteq S
<1> DEFINE T == Nat \ S
           R == {ss \in Nat \X Nat : ss[1] < ss[2]}
<1> SUFFICES ASSUME T # {} PROVE FALSE
  OBVIOUS
<1>1. IsWellFoundedOn(R, Nat)
  BY NatLessThanWellFounded, Zenon DEF OpToRel
<1>2. \A n, m \in Nat : n < m => <<n, m>> \in R
  OBVIOUS
<1>3. T \subseteq Nat
  OBVIOUS
<1> HIDE DEF R
<1>4. PICK x \in T : \A y \in T : ~(<<y, x>> \in R)
  <2> HIDE DEF T
  <2> QED
    BY WFMin, <1>1, <1>3
<1>5. x # 0 /\ x - 1 \in Nat /\ x - 1 < x
  BY <1>3
<1>6. x - 1 \notin T
  BY <1>2, <1>3, <1>4, <1>5
<1> QED
  BY <1>3, <1>5, <1>6

\* pow is the function that Pow2(n) defines by recursion.
IsPow(pow, n) == pow = [i \in 0 .. n |-> IF i = 0 THEN 1 ELSE 2 * pow[i - 1]]

LEMMA PowExists == \A n \in Nat : \E pow : IsPow(pow, n)
<1> DEFINE S == {n \in Nat : \E pow : IsPow(pow, n)}
<1>1. 0 \in S
  <2> DEFINE g == [i \in 0 .. 0 |-> 1]
  <2>1. IsPow(g, 0)
    BY DEF IsPow
  <2> QED
    BY <2>1
<1>2. ASSUME NEW n \in Nat, n \in S PROVE n + 1 \in S
  <2>1. PICK pow : IsPow(pow, n)
    BY <1>2
  <2> DEFINE g == [i \in 0 .. n + 1 |-> IF i = n + 1 THEN 2 * pow[n] ELSE pow[i]]
  <2>2. ASSUME NEW i \in 0 .. n + 1 PROVE g[i] = IF i = 0 THEN 1 ELSE 2 * g[i - 1]
    <3>1. CASE i = n + 1
      BY <3>1
    <3>2. CASE i \in 0 .. n
      <4>1. g[i] = pow[i] /\ (i # 0 => g[i - 1] = pow[i - 1])
        BY <3>2
      <4>2. pow[i] = IF i = 0 THEN 1 ELSE 2 * pow[i - 1]
        BY <2>1, <3>2 DEF IsPow
      <4> QED
        BY <4>1, <4>2
    <3> QED
      BY <3>1, <3>2
  <2>3. IsPow(g, n + 1)
    BY <2>2 DEF IsPow
  <2> HIDE DEF g
  <2> QED
    BY <2>3
<1>3. Nat \subseteq S
  <2> HIDE DEF S
  <2> QED
    BY <1>1, <1>2, SetInduction
<1> QED
  BY <1>3

LEMMA PowAgree ==
  ASSUME NEW n \in Nat, NEW f, NEW g, IsPow(f, n), IsPow(g, n + 1)
  PROVE  f[n] = g[n]
<1> DEFINE S == {i \in Nat : i <= n => f[i] = g[i]}
<1>1. 0 \in S
  BY DEF IsPow
<1>2. ASSUME NEW i \in Nat, i \in S PROVE i + 1 \in S
  <2> SUFFICES ASSUME i + 1 <= n PROVE f[i + 1] = g[i + 1]
    OBVIOUS
  <2>1. f[i + 1] = 2 * f[i] /\ g[i + 1] = 2 * g[i]
    BY DEF IsPow
  <2> QED
    BY <1>2, <2>1
<1>3. Nat \subseteq S
  <2> HIDE DEF S
  <2> QED
    BY <1>1, <1>2, SetInduction
<1> QED
  BY <1>3

\* Pow2 doubles.
LEMMA PowStep ==
  ASSUME NEW n \in Nat
  PROVE  Pow2(0) = 1 /\ Pow2(n + 1) = 2 * Pow2(n)
<1> DEFINE F(m) == CHOOSE pow : IsPow(pow, m)
<1>1. \A m \in Nat : IsPow(F(m), m)
  BY PowExists
<1>2. \A m \in Nat : Pow2(m) = F(m)[m]
  BY DEF Pow2, IsPow
<1> HIDE DEF F
<1>3. Pow2(0) = 1
  BY <1>1, <1>2 DEF IsPow
<1>4. F(n + 1)[n + 1] = 2 * F(n + 1)[n]
  BY <1>1 DEF IsPow
<1> QED
  BY <1>1, <1>2, <1>3, <1>4, PowAgree

LEMMA PowIs == \A n \in Nat : Pow2(n) \in Nat \ {0}
<1> DEFINE S == {n \in Nat : Pow2(n) \in Nat \ {0}}
<1>1. 0 \in S
  BY PowStep
<1>2. ASSUME NEW n \in Nat, n \in S PROVE n + 1 \in S
  BY <1>2, PowStep
<1> HIDE DEF S
<1>3. Nat \subseteq S
  BY <1>1, <1>2, SetInduction
<1> QED
  BY <1>3 DEF S

\* The powers that the code has as numbers.
LEMMA SmallPows == /\ Pow2(0) = 1 /\ Pow2(1) = 2 /\ Pow2(2) = 4 /\ Pow2(3) = 8 /\ Pow2(4) = 16
                   /\ Pow2(5) = 32 /\ Pow2(6) = 64 /\ Pow2(7) = 128 /\ Pow2(8) = 256
                   /\ Pow2(9) = 512 /\ Pow2(10) = 1024
<1>1. /\ Pow2(0 + 1) = 2 * Pow2(0) /\ Pow2(1 + 1) = 2 * Pow2(1) /\ Pow2(2 + 1) = 2 * Pow2(2)
      /\ Pow2(3 + 1) = 2 * Pow2(3) /\ Pow2(4 + 1) = 2 * Pow2(4) /\ Pow2(5 + 1) = 2 * Pow2(5)
      /\ Pow2(6 + 1) = 2 * Pow2(6) /\ Pow2(7 + 1) = 2 * Pow2(7) /\ Pow2(8 + 1) = 2 * Pow2(8)
      /\ Pow2(9 + 1) = 2 * Pow2(9)
  BY PowStep
<1> QED
  BY <1>1, PowStep

-----------------------------------------------------------------------------
LEMMA DivIs ==
  ASSUME NEW d \in Nat \ {0}, NEW x \in Nat
  PROVE  /\ x \div d \in Nat /\ x % d \in 0 .. d - 1
         /\ x = (x \div d) * d + (x % d)
OBVIOUS

LEMMA DivUnique ==
  ASSUME NEW d \in Nat \ {0}, NEW q \in Nat, NEW r \in 0 .. d - 1
  PROVE  (q * d + r) \div d = q /\ (q * d + r) % d = r
OBVIOUS

\* A shift by one more place, and a mask of one more bit.
LEMMA DivHalf ==
  ASSUME NEW d \in Nat \ {0}, NEW x \in Nat
  PROVE  (x \div d) \div 2 = x \div (2 * d)
OBVIOUS

LEMMA ModHalf ==
  ASSUME NEW d \in Nat \ {0}, NEW x \in Nat
  PROVE  x % (2 * d) = 2 * ((x \div 2) % d) + (x % 2)
<1> DEFINE h == x \div 2
           q == h \div d
           r == h % d
           e == x % 2
<1>1. h \in Nat /\ e \in 0 .. 1 /\ x = 2 * h + e
  OBVIOUS
<1>2. q \in Nat /\ r \in 0 .. d - 1 /\ h = q * d + r
  BY <1>1, DivIs
<1> HIDE DEF h, q, r, e
<1>3. 2 * d \in Nat \ {0} /\ 2 * r + e \in 0 .. 2 * d - 1
  BY <1>1, <1>2
<1>4. x = q * (2 * d) + (2 * r + e)
  <2>1. q * (2 * d) = 2 * (q * d) /\ q * d \in Nat
    BY <1>2
  <2> QED
    BY <1>1, <1>2, <2>1
<1>5. x % (2 * d) = 2 * r + e
  <2> DEFINE dd == 2 * d
             rr == 2 * r + e
  <2> HIDE DEF dd, rr
  <2>1. (q * dd + rr) % dd = rr
    BY <1>2, <1>3, DivUnique DEF dd, rr
  <2> QED
    BY <1>4, <2>1 DEF dd, rr
<1> QED
  BY <1>5 DEF r, h, e
-----------------------------------------------------------------------------
Byte == 0 .. 255

\* Taking one bit more of a byte doubles what was taken and adds the bit.
LEMMA BitsStep ==
  ASSUME NEW b \in Nat, NEW s \in Nat, NEW n \in Nat
  PROVE  /\ Bits(b, s, n + 1) = 2 * Bits(b, s + 1, n) + Bits(b, s, 1)
         /\ Bits(b, s, 0) = 0
         /\ Bits(b, s, n) \in 0 .. Pow2(n) - 1
<1> DEFINE d == Pow2(s)
           m == Pow2(n)
           x == b \div d
<1>1. d \in Nat \ {0} /\ m \in Nat \ {0} /\ Pow2(s + 1) = 2 * d /\ Pow2(n + 1) = 2 * m
  BY PowIs, PowStep
<1>2. Pow2(1) = 2 /\ Pow2(0) = 1
  BY SmallPows
<1>3. Bits(b, s, 1) = x % 2 /\ Bits(b, s, n + 1) = x % (2 * m) /\ Bits(b, s, 0) = x % 1
  BY <1>1, <1>2 DEF Bits
<1>4. Bits(b, s + 1, n) = (b \div (2 * d)) % m /\ Bits(b, s, n) = x % m
  BY <1>1 DEF Bits
<1> HIDE DEF d, m
<1>5. x \in Nat /\ x \div 2 = b \div (2 * d)
  BY <1>1, DivIs, DivHalf
<1> HIDE DEF x
<1>6. x % (2 * m) = 2 * ((x \div 2) % m) + (x % 2)
  BY <1>1, <1>5, ModHalf
<1>7. x % m \in 0 .. m - 1 /\ x % 1 = 0
  <2>1. x % m \in 0 .. m - 1
    BY <1>1, <1>5, DivIs
  <2>2. x % 1 \in 0 .. 1 - 1
    BY <1>5, DivIs
  <2> QED
    BY <2>1, <2>2
<1> QED
  BY <1>3, <1>4, <1>5, <1>6, <1>7 DEF m

\* num is the function that Number(p, at, n) defines by recursion.
IsNum(num, p, at, n) ==
  num = [i \in 0 .. n |-> IF i = 0 THEN 0 ELSE 2 * num[i - 1] + BitAt(p, at + i - 1)]

LEMMA NumExists == ASSUME NEW p, NEW at PROVE \A n \in Nat : \E num : IsNum(num, p, at, n)
<1> DEFINE S == {n \in Nat : \E num : IsNum(num, p, at, n)}
           B(i) == BitAt(p, at + i - 1)
<1>1. 0 \in S
  <2> DEFINE g == [i \in 0 .. 0 |-> 0]
  <2>1. IsNum(g, p, at, 0)
    BY DEF IsNum
  <2> QED
    BY <2>1
<1>2. ASSUME NEW n \in Nat, n \in S PROVE n + 1 \in S
  <2>1. PICK num : IsNum(num, p, at, n)
    BY <1>2
  <2> DEFINE g == [i \in 0 .. n + 1 |-> IF i = n + 1 THEN 2 * num[n] + B(n + 1) ELSE num[i]]
  <2>a. num = [i \in 0 .. n |-> IF i = 0 THEN 0 ELSE 2 * num[i - 1] + B(i)]
    BY <2>1 DEF IsNum
  <2> HIDE DEF B
  <2>2. ASSUME NEW i \in 0 .. n + 1 PROVE g[i] = IF i = 0 THEN 0 ELSE 2 * g[i - 1] + B(i)
    <3>1. CASE i = n + 1
      BY <3>1
    <3>2. CASE i \in 0 .. n
      <4>1. g[i] = num[i] /\ (i # 0 => g[i - 1] = num[i - 1])
        BY <3>2
      <4>2. num[i] = IF i = 0 THEN 0 ELSE 2 * num[i - 1] + B(i)
        BY <2>a, <3>2
      <4> QED
        BY <4>1, <4>2
    <3> QED
      BY <3>1, <3>2
  <2>3. g = [i \in 0 .. n + 1 |-> IF i = 0 THEN 0 ELSE 2 * g[i - 1] + B(i)]
    BY <2>2
  <2> HIDE DEF g
  <2> QED
    BY <2>3 DEF IsNum, B
<1>3. Nat \subseteq S
  <2> HIDE DEF S
  <2> QED
    BY <1>1, <1>2, SetInduction
<1> QED
  BY <1>3

LEMMA NumAgree ==
  ASSUME NEW p, NEW at, NEW n \in Nat, NEW f, NEW g,
         IsNum(f, p, at, n), IsNum(g, p, at, n + 1)
  PROVE  f[n] = g[n]
<1> DEFINE S == {i \in Nat : i <= n => f[i] = g[i]}
<1>1. 0 \in S
  BY DEF IsNum
<1>2. ASSUME NEW i \in Nat, i \in S PROVE i + 1 \in S
  <2> SUFFICES ASSUME i + 1 <= n PROVE f[i + 1] = g[i + 1]
    OBVIOUS
  <2> DEFINE b == BitAt(p, at + (i + 1) - 1)
  <2>1. f[i + 1] = 2 * f[i] + b /\ g[i + 1] = 2 * g[i] + b
    <3>1. i + 1 \in 0 .. n /\ i + 1 \in 0 .. n + 1 /\ i + 1 # 0 /\ (i + 1) - 1 = i
      OBVIOUS
    <3> HIDE DEF b
    <3> QED
      BY <3>1 DEF IsNum, b
  <2> HIDE DEF b
  <2> QED
    BY <1>2, <2>1
<1>3. Nat \subseteq S
  <2> HIDE DEF S
  <2> QED
    BY <1>1, <1>2, SetInduction
<1> QED
  BY <1>3

\* One bit more doubles a number and adds the bit.
LEMMA NumStep ==
  ASSUME NEW p, NEW at \in Nat, NEW n \in Nat
  PROVE  Number(p, at, 0) = 0 /\ Number(p, at, n + 1) = 2 * Number(p, at, n) + BitAt(p, at + n)
<1> DEFINE F(m) == CHOOSE num : IsNum(num, p, at, m)
<1>1. \A m \in Nat : IsNum(F(m), p, at, m)
  BY NumExists
<1>2. \A m \in Nat : Number(p, at, m) = F(m)[m]
  BY DEF Number, IsNum
<1> HIDE DEF F
<1>3. Number(p, at, 0) = 0
  BY <1>1, <1>2 DEF IsNum
<1>4. F(n + 1)[n + 1] = 2 * F(n + 1)[n] + BitAt(p, at + n)
  <2>1. IsNum(F(n + 1), p, at, n + 1)
    BY <1>1
  <2>2. n + 1 \in 0 .. n + 1 /\ n + 1 # 0 /\ (n + 1) - 1 = n /\ at + (n + 1) - 1 = at + n
    OBVIOUS
  <2> QED
    BY <2>1, <2>2 DEF IsNum
<1>5. F(n)[n] = F(n + 1)[n]
  BY <1>1, NumAgree
<1> QED
  BY <1>2, <1>3, <1>4, <1>5

-----------------------------------------------------------------------------
Packet == [0 .. Bytes - 1 -> Byte]

LEMMA BytesTyped == Bytes \in Nat
BY PacketAssumption

LEMMA ByteTyped == ASSUME NEW p \in Packet, NEW k \in 0 .. Bytes - 1 PROVE p[k] \in Nat
<1>1. p[k] \in Byte
  BY DEF Packet
<1> QED
  BY <1>1 DEF Byte

\* The bit k of a packet is a bit of the byte it lies in.
LEMMA BitIs ==
  ASSUME NEW p \in Packet, NEW k \in Nat, k < 8 * Bytes
  PROVE  /\ k \div 8 \in 0 .. Bytes - 1 /\ k % 8 \in 0 .. 7 /\ p[k \div 8] \in Nat
         /\ BitAt(p, k) = Bits(p[k \div 8], 7 - (k % 8), 1)
         /\ BitAt(p, k) \in 0 .. 1
<1>1. k \div 8 \in 0 .. Bytes - 1 /\ k % 8 \in 0 .. 7
  BY BytesTyped
<1>2. p[k \div 8] \in Nat
  BY <1>1, ByteTyped
<1>3. 7 - (k % 8) \in Nat
  BY <1>1
<1>4. Bits(p[k \div 8], 7 - (k % 8), 1) \in 0 .. Pow2(1) - 1
  BY <1>2, <1>3, BitsStep
<1> QED
  BY <1>1, <1>2, <1>4, SmallPows DEF BitAt

\* A number of n bits is less than 2^n.
LEMMA NumberFits ==
  ASSUME NEW p \in Packet, NEW at \in Nat, NEW n \in Nat, at + n <= 8 * Bytes
  PROVE  Number(p, at, n) \in 0 .. Pow2(n) - 1
<1> DEFINE S == {i \in Nat : i <= n => Number(p, at, i) \in 0 .. Pow2(i) - 1}
<1>1. 0 \in S
  BY NumStep, SmallPows
<1>2. ASSUME NEW i \in Nat, i \in S PROVE i + 1 \in S
  <2> SUFFICES ASSUME i + 1 <= n PROVE Number(p, at, i + 1) \in 0 .. Pow2(i + 1) - 1
    OBVIOUS
  <2>1. Number(p, at, i) \in 0 .. Pow2(i) - 1 /\ Pow2(i) \in Nat
    BY <1>2, PowIs
  <2>2. BitAt(p, at + i) \in 0 .. 1
    BY BitIs, BytesTyped
  <2>3. Number(p, at, i + 1) = 2 * Number(p, at, i) + BitAt(p, at + i) /\ Pow2(i + 1) = 2 * Pow2(i)
    BY NumStep, PowStep
  <2> QED
    BY <2>1, <2>2, <2>3
<1>3. Nat \subseteq S
  <2> HIDE DEF S
  <2> QED
    BY <1>1, <1>2, SetInduction
<1> QED
  BY <1>3

\* A number is read in two parts.
LEMMA NumberSplit ==
  ASSUME NEW p \in Packet, NEW at \in Nat, NEW n \in Nat, NEW m \in Nat, at + n + m <= 8 * Bytes
  PROVE  Number(p, at, n + m) = Number(p, at, n) * Pow2(m) + Number(p, at + n, m)
<1> DEFINE a == Number(p, at, n)
           A(i) == Number(p, at, n + i)
           B(i) == Number(p, at + n, i)
           S == {i \in Nat : i <= m => A(i) = a * Pow2(i) + B(i)}
<1>0. a \in Nat
  <2>1. at + n <= 8 * Bytes
    BY BytesTyped
  <2>2. a \in 0 .. Pow2(n) - 1
    BY <2>1, NumberFits
  <2> QED
    BY <2>2
<1>1. 0 \in S
  <2>1. n + 0 = n /\ A(0) = a /\ B(0) = 0 /\ Pow2(0) = 1
    BY NumStep, SmallPows
  <2> HIDE DEF A, B, a
  <2> QED
    BY <1>0, <2>1
<1>2. ASSUME NEW i \in Nat, i \in S PROVE i + 1 \in S
  <2> SUFFICES ASSUME i + 1 <= m PROVE A(i + 1) = a * Pow2(i + 1) + B(i + 1)
    OBVIOUS
  <2> DEFINE b == BitAt(p, at + n + i)
             q == Pow2(i)
  <2>1. A(i) = a * q + B(i)
    BY <1>2
  <2>2. A(i + 1) = 2 * A(i) + b /\ B(i + 1) = 2 * B(i) + b /\ Pow2(i + 1) = 2 * q
    <3> DEFINE k == n + i
               to == at + n
    <3>1. n + (i + 1) = k + 1 /\ at + k = at + n + i /\ k \in Nat /\ to \in Nat
      OBVIOUS
    <3> HIDE DEF k, to
    <3>2. Number(p, at, k + 1) = 2 * Number(p, at, k) + BitAt(p, at + k)
      BY <3>1, NumStep
    <3>3. Number(p, to, i + 1) = 2 * Number(p, to, i) + BitAt(p, to + i)
      BY <3>1, NumStep
    <3>4. Pow2(i + 1) = 2 * Pow2(i)
      BY PowStep
    <3> QED
      BY <3>1, <3>2, <3>3, <3>4 DEF k, to
  <2>3. B(i) \in Nat /\ b \in Nat /\ q \in Nat
    <3> DEFINE to == at + n
               k == to + i
    <3>1. to \in Nat /\ to + i <= 8 * Bytes /\ k \in Nat /\ k < 8 * Bytes
      BY BytesTyped
    <3> HIDE DEF to, k
    <3>2. Number(p, to, i) \in 0 .. Pow2(i) - 1 /\ BitAt(p, k) \in 0 .. 1
      BY <3>1, NumberFits, BitIs
    <3> QED
      BY <3>2, PowIs DEF to, k
  <2> HIDE DEF A, B, a, b, q
  <2>4. a * (2 * q) = 2 * (a * q) /\ a * q \in Nat
    BY <1>0, <2>3
  <2> QED
    BY <2>1, <2>2, <2>3, <2>4
<1>3. Nat \subseteq S
  <2> HIDE DEF S
  <2> QED
    BY <1>1, <1>2, SetInduction
<1> QED
  BY <1>3

\* A number that lies within a byte is what shifting and masking take out of it.
LEMMA NumberInByte ==
  ASSUME NEW p \in Packet, NEW k \in 0 .. Bytes - 1, NEW j \in 0 .. 7, NEW n \in Nat, j + n <= 8
  PROVE  Number(p, 8 * k + j, n) = Bits(p[k], 8 - j - n, n)
<1> DEFINE at == 8 * k + j
           A(i) == Number(p, at, i)
           B(i) == Bits(p[k], 8 - j - i, i)
           S == {i \in Nat : i <= n => A(i) = B(i)}
<1>1. 0 \in S
  <2>1. p[k] \in Nat /\ 8 - j - 0 \in Nat /\ at \in Nat
    BY BytesTyped, ByteTyped
  <2> HIDE DEF at
  <2> QED
    BY <2>1, NumStep, BitsStep
<1>2. ASSUME NEW i \in Nat, i \in S PROVE i + 1 \in S
  <2> SUFFICES ASSUME i + 1 <= n PROVE A(i + 1) = B(i + 1)
    OBVIOUS
  <2>1. A(i) = B(i)
    BY <1>2
  <2>2. at \in Nat /\ at + i < 8 * Bytes /\ (at + i) \div 8 = k /\ (at + i) % 8 = j + i
    BY BytesTyped
  <2>3. A(i + 1) = 2 * A(i) + Bits(p[k], 7 - (j + i), 1)
    <3> DEFINE to == at + i
    <3>1. to \in Nat /\ to < 8 * Bytes /\ to \div 8 = k /\ to % 8 = j + i
      BY <2>2
    <3> HIDE DEF at
    <3>2. A(i + 1) = 2 * A(i) + BitAt(p, to)
      BY <2>2, NumStep
    <3> HIDE DEF to, A
    <3>3. BitAt(p, to) = Bits(p[k], 7 - (j + i), 1)
      BY <3>1, BitIs
    <3> QED
      BY <3>2, <3>3
  <2>4. B(i + 1) = 2 * B(i) + Bits(p[k], 7 - (j + i), 1)
    <3> DEFINE s == 7 - (j + i)
    <3>1. s \in Nat /\ 8 - j - (i + 1) = s /\ 8 - j - i = s + 1 /\ p[k] \in Nat
      BY BytesTyped, ByteTyped
    <3> HIDE DEF s
    <3>2. Bits(p[k], s, i + 1) = 2 * Bits(p[k], s + 1, i) + Bits(p[k], s, 1)
      BY <3>1, BitsStep
    <3> QED
      BY <3>1, <3>2 DEF s
  <2> QED
    BY <2>1, <2>3, <2>4
<1>3. Nat \subseteq S
  <2> HIDE DEF S
  <2> QED
    BY <1>1, <1>2, SetInduction
<1> QED
  BY <1>3

\* The sign: the first bit says whether the number is in the upper half.
LEMMA FirstBit ==
  ASSUME NEW p \in Packet, NEW at \in Nat, NEW n \in Nat \ {0}, at + n <= 8 * Bytes
  PROVE  Number(p, at, n) >= Pow2(n - 1) <=> BitAt(p, at) = 1
<1> DEFINE m == n - 1
           b == BitAt(p, at)
           r == Number(p, at + 1, m)
<1>1. m \in Nat /\ n = 1 + m
  OBVIOUS
<1>2. Number(p, at, 1) = b
  <2>1. Number(p, at, 0 + 1) = 2 * Number(p, at, 0) + BitAt(p, at + 0) /\ Number(p, at, 0) = 0
    BY NumStep
  <2>2. b \in 0 .. 1
    BY BitIs, BytesTyped
  <2> QED
    BY <2>1, <2>2
<1>3. Number(p, at, 1 + m) = b * Pow2(m) + r
  <2> HIDE DEF m
  <2> QED
    BY <1>1, <1>2, NumberSplit
<1>4. r \in 0 .. Pow2(m) - 1 /\ b \in 0 .. 1 /\ Pow2(m) \in Nat
  <2>1. at + 1 + m <= 8 * Bytes /\ at < 8 * Bytes
    BY <1>1, BytesTyped
  <2> HIDE DEF m
  <2> QED
    BY <1>1, <2>1, NumberFits, BitIs, PowIs
<1> HIDE DEF b, r, m
<1>5. b = 0 \/ b = 1
  BY <1>4
<1>6. CASE b = 0
  BY <1>1, <1>3, <1>4, <1>6 DEF m, b
<1>7. CASE b = 1
  BY <1>1, <1>3, <1>4, <1>7 DEF m, b
<1> QED
  BY <1>5, <1>6, <1>7
-----------------------------------------------------------------------------
(***************************************************************************)
(* The bit reader.                                                         *)
(***************************************************************************)

\* Fields are read in the order of the layout, and there is one left to read
\* whenever read_bits is called or runs.
FieldsLeft ==
  /\ \E S : fields \in Seq(S)
  /\ Len(fields) <= Len(Layout)
  /\ phase \in {"header", "call", "loop"} => Len(fields) < Len(Layout)
  /\ phase = "header" => fields = <<>>

\* Between two calls the cursor is at the field that comes next.
CursorAtField == phase \in {"call", "loop"} => bitpos = Field.at

\* Inside a call: the byte and bit are the cursor plus what has been taken.
Progress ==
  phase = "loop" => /\ byte \in Nat /\ bit \in 0 .. 7
                    /\ remaining \in 0 .. Field.width
                    /\ 8 * byte + bit = Field.at + Field.width - remaining

PacketIInv == FieldsLeft /\ CursorAtField /\ Progress

LEMMA WidthTyped == \A n \in 1 .. 32 : n \in Nat /\ n \in Nat \ {0} /\ n <= 32
OBVIOUS

LEMMA FieldTyped ==
  ASSUME FieldsLeft, Len(fields) < Len(Layout)
  PROVE  Field \in [at : Nat, width : 1 .. 32, signed : BOOLEAN]
<1> DEFINE Fields == [at : Nat, width : 1 .. 32, signed : BOOLEAN]
<1>1. Len(fields) \in Nat /\ Len(Layout) \in Nat
  BY PacketAssumption DEF FieldsLeft
<1>2. Len(fields) + 1 \in 1 .. Len(Layout) /\ Layout \in Seq(Fields)
  BY <1>1, PacketAssumption
<1> HIDE DEF Fields
<1>3. Field \in Fields
  BY <1>2 DEF Field
<1> QED
  BY <1>3 DEF Fields

\* What the assumption says of the field that is read next.
LEMMA FieldFits ==
  ASSUME FieldsLeft, Len(fields) < Len(Layout)
  PROVE  /\ Field.at \in Nat /\ Field.width \in Nat \ {0} /\ Field.width <= 32
         /\ Field.at + Field.width <= 8 * Bytes
         /\ Len(fields) \in Nat
<1>1. Len(fields) \in Nat
  BY DEF FieldsLeft
<1>2. Len(fields) + 1 \in 1 .. Len(Layout)
  BY <1>1, PacketAssumption
<1>3. Field \in [at : Nat, width : 1 .. 32, signed : BOOLEAN]
  BY FieldTyped
<1>4. Field.at \in Nat /\ Field.width \in 1 .. 32
  BY <1>3
<1>5. Field.at + Field.width <= 8 * Bytes
  BY <1>2, PacketAssumption DEF Field
<1> QED
  BY <1>1, <1>4, <1>5, WidthTyped

LEMMA PacketInitIInv == PacketInit => PacketIInv
<1> SUFFICES ASSUME PacketInit PROVE PacketIInv
  OBVIOUS
<1>1. fields = <<>> /\ phase = "header"
  BY DEF PacketInit
<1>2. Len(fields) = 0 /\ fields \in Seq({})
  BY <1>1
<1>3. Len(Layout) > 0
  BY PacketAssumption
<1> QED
  BY <1>1, <1>2, <1>3 DEF PacketIInv, FieldsLeft, CursorAtField, Progress

LEMMA HeaderKeeps == PacketIInv /\ ReadHeader => PacketIInv'
<1> SUFFICES ASSUME PacketIInv, ReadHeader PROVE PacketIInv'
  OBVIOUS
<1> USE DEF PacketIInv
<1>1. /\ phase = "header" /\ phase' \in {"call", "refused"}
      /\ fields' = fields /\ bitpos' = HeaderBits
  BY DEF ReadHeader
<1>2. FieldsLeft'
  BY <1>1 DEF FieldsLeft
<1>3. CursorAtField'
  <2>1. fields' = <<>>
    BY <1>1 DEF FieldsLeft
  <2>2. Len(fields') + 1 = 1
    BY <2>1
  <2> QED
    BY <1>1, <2>2, PacketAssumption DEF CursorAtField, Field
<1>4. Progress'
  BY <1>1 DEF Progress
<1> QED
  BY <1>2, <1>3, <1>4

LEMMA CallKeeps == PacketIInv /\ Call => PacketIInv'
<1> SUFFICES ASSUME PacketIInv, Call PROVE PacketIInv'
  OBVIOUS
<1> USE DEF PacketIInv
<1>1. /\ phase = "call" /\ phase' = "loop" /\ fields' = fields /\ bitpos' = bitpos
      /\ byte' = bitpos \div 8 /\ bit' = bitpos % 8 /\ remaining' = Field.width
  BY DEF Call
<1>2. Field' = Field
  BY <1>1 DEF Field
<1>3. FieldsLeft'
  BY <1>1 DEF FieldsLeft
<1>4. CursorAtField'
  BY <1>1, <1>2 DEF CursorAtField
<1>5. Progress'
  <2>1. Field.at \in Nat /\ Field.width \in Nat
    BY <1>1, FieldFits DEF FieldsLeft
  <2>2. bitpos = Field.at
    BY <1>1 DEF CursorAtField
  <2> QED
    BY <1>1, <1>2, <2>1, <2>2 DEF Progress
<1> QED
  BY <1>3, <1>4, <1>5

LEMMA LoopKeeps == PacketIInv /\ Loop => PacketIInv'
<1> SUFFICES ASSUME PacketIInv, Loop PROVE PacketIInv'
  OBVIOUS
<1> USE DEF PacketIInv
<1>1. /\ phase = "loop" /\ phase' = "loop" /\ remaining > 0
      /\ fields' = fields /\ bitpos' = bitpos /\ remaining' = remaining - Take
  BY DEF Loop
<1>2. IF Wraps THEN bit' = 0 /\ byte' = byte + 1 ELSE bit' = bit + Take /\ byte' = byte
  BY DEF Loop
<1>3. Field' = Field
  BY <1>1 DEF Field
<1>4. FieldsLeft'
  BY <1>1 DEF FieldsLeft
<1>5. CursorAtField'
  BY <1>1, <1>3 DEF CursorAtField
<1>6. Progress'
  <2>1. /\ Field.at \in Nat /\ Field.width \in Nat
        /\ byte \in Nat /\ bit \in 0 .. 7 /\ remaining \in 0 .. Field.width
        /\ 8 * byte + bit = Field.at + Field.width - remaining
    BY <1>1, FieldFits DEF FieldsLeft, Progress
  <2>2. Take \in 1 .. remaining /\ bit + Take <= 8
    BY <1>1, <2>1 DEF Take
  <2>3. /\ byte' \in Nat /\ bit' \in 0 .. 7
        /\ 8 * byte' + bit' = 8 * byte + bit + Take
    <3>1. CASE Wraps
      BY <1>2, <2>1, <2>2, <3>1 DEF Wraps
    <3>2. CASE ~Wraps
      BY <1>2, <2>1, <2>2, <3>2 DEF Wraps
    <3> QED
      BY <3>1, <3>2
  <2>4. Take \in Nat /\ remaining' \in 0 .. Field.width
    BY <1>1, <2>1, <2>2
  <2>5. 8 * byte' + bit' = Field.at + Field.width - remaining'
    <3> DEFINE at == Field.at
               width == Field.width
               pos == 8 * byte + bit
               pos2 == 8 * byte' + bit'
    <3>1. /\ at \in Int /\ width \in Int
          /\ pos = at + width - remaining /\ pos2 = pos + Take
      BY <2>1, <2>3
    <3>2. remaining \in Int /\ Take \in Int /\ remaining' = remaining - Take
      BY <1>1, <2>1, <2>4
    <3> HIDE DEF at, width, pos, pos2
    <3>3. pos2 = at + width - remaining'
      BY <3>1, <3>2
    <3> QED
      BY <3>3, Zenon DEF at, width, pos2
  <2> QED
    BY <1>3, <2>3, <2>4, <2>5 DEF Progress
<1> QED
  BY <1>4, <1>5, <1>6

LEMMA ReturnKeeps == PacketIInv /\ Return => PacketIInv'
<1> SUFFICES ASSUME PacketIInv, Return PROVE PacketIInv'
  OBVIOUS
<1> USE DEF PacketIInv
<1> DEFINE v == IF Field.signed THEN SignExtended(Field.width, value) ELSE value
<1>1. /\ phase = "loop" /\ bitpos' = bitpos + Field.width
      /\ fields' = Append(fields, v)
      /\ phase' = IF Len(fields') = Len(Layout) THEN "done" ELSE "call"
  BY DEF Return
<1>2. PICK S : fields \in Seq(S)
  BY DEF FieldsLeft
<1>3. fields' \in Seq(S \union {v}) /\ Len(fields') = Len(fields) + 1
  <2> HIDE DEF v
  <2>1. fields \in Seq(S \union {v})
    BY <1>2
  <2> QED
    BY <1>1, <2>1
<1>4. Len(fields) \in Nat /\ Len(Layout) \in Nat /\ Len(fields) < Len(Layout)
  BY <1>1, <1>2, PacketAssumption DEF FieldsLeft
<1>5. FieldsLeft'
  BY <1>1, <1>3, <1>4 DEF FieldsLeft
<1>6. CursorAtField'
  <2> SUFFICES ASSUME phase' = "call" PROVE bitpos' = Field'.at
    BY <1>1 DEF CursorAtField
  <2>1. Len(fields) + 1 \in 1 .. Len(Layout) - 1
    BY <1>1, <1>3, <1>4
  <2>2. Field'.at = Field.at + Field.width
    BY <1>3, <1>4, <2>1, PacketAssumption DEF Field
  <2>3. bitpos = Field.at
    BY <1>1 DEF CursorAtField
  <2> QED
    BY <1>1, <2>2, <2>3
<1>7. Progress'
  BY <1>1 DEF Progress
<1> QED
  BY <1>5, <1>6, <1>7

LEMMA PacketStepIInv == PacketIInv /\ [PacketNext]_packetVars => PacketIInv'
<1> SUFFICES ASSUME PacketIInv, [PacketNext]_packetVars PROVE PacketIInv'
  OBVIOUS
<1>1. CASE ReadHeader
  BY <1>1, HeaderKeeps
<1>2. CASE Call
  BY <1>2, CallKeeps
<1>3. CASE Loop
  BY <1>3, LoopKeeps
<1>4. CASE Return
  BY <1>4, ReturnKeeps
<1>5. CASE UNCHANGED packetVars
  BY <1>5 DEF PacketIInv, FieldsLeft, CursorAtField, Progress, Field, packetVars, cursorVars
<1> QED
  BY <1>1, <1>2, <1>3, <1>4, <1>5 DEF PacketNext

LEMMA PacketIInvBounds == PacketIInv => InBounds
<1> SUFFICES ASSUME PacketIInv, phase = "loop" PROVE InBounds
  BY DEF InBounds
<1>1. /\ Field.at \in Nat /\ Field.width \in Nat
      /\ Field.at + Field.width <= 8 * Bytes
  BY FieldFits DEF PacketIInv, FieldsLeft
<1>2. /\ byte \in Nat /\ bit \in 0 .. 7 /\ remaining \in 0 .. Field.width
      /\ 8 * byte + bit = Field.at + Field.width - remaining
  BY DEF PacketIInv, Progress
<1>3. remaining > 0 => byte < Bytes
  BY <1>1, <1>2, PacketAssumption
<1> QED
  BY <1>2, <1>3 DEF InBounds

\* read_bits never reads a byte the packet does not have, and never skips a bit
\* or reads one twice, whatever the widths of the fields and the packet are.
THEOREM ReadsInBounds == PacketSpec => []InBounds
BY PacketInitIInv, PacketStepIInv, PacketIInvBounds, PTL DEF PacketSpec

\* Every field is read from the place the layout gives it: the cursor that
\* read_bits moves by the widths alone is at the field that is read.
THEOREM ReadsAtField == PacketSpec => []CursorAtField
<1>1. PacketIInv => CursorAtField
  BY DEF PacketIInv
<1> QED
  BY PacketInitIInv, PacketStepIInv, <1>1, PTL DEF PacketSpec
-----------------------------------------------------------------------------
(***************************************************************************)
(* What the bit reader reads.                                              *)
(***************************************************************************)
\* In the loop, the value is the number that the bits taken so far stand for.
ReadSoFar ==
  phase = "loop" => value = Number(packet, Field.at, Field.width - remaining)

Meaning == packet \in Packet /\ ReadSoFar /\ FieldsAreMeant /\ HeaderIsMeant

\* What one turn of the loop takes are the bits that follow.
LEMMA TakeReads ==
  ASSUME NEW p \in Packet, NEW at \in Nat, NEW n \in Nat, NEW k \in Nat, NEW j \in 0 .. 7,
         NEW t \in Nat, 8 * k + j = at + n, j + t <= 8, t > 0, at + n + t <= 8 * Bytes
  PROVE  Number(p, at, n + t) = Number(p, at, n) * Pow2(t) + Bits(p[k], 8 - j - t, t)
<1>1. k \in 0 .. Bytes - 1
  BY BytesTyped
<1>2. Number(p, 8 * k + j, t) = Bits(p[k], 8 - j - t, t)
  BY <1>1, NumberInByte
<1>3. Number(p, at, n + t) = Number(p, at, n) * Pow2(t) + Number(p, at + n, t)
  BY NumberSplit
<1> QED
  BY <1>2, <1>3

\* The packet has a field beyond its first four bytes.
LEMMA EnoughBytes == Bytes \in Nat /\ Bytes >= 5
<1>1. Len(Layout) >= 1 /\ 1 \in 1 .. Len(Layout)
  BY PacketAssumption
<1> DEFINE Fields == [at : Nat, width : 1 .. 32, signed : BOOLEAN]
<1>2. Layout[1] \in Fields
  <2>1. Layout \in Seq(Fields)
    BY PacketAssumption
  <2> HIDE DEF Fields
  <2> QED
    BY <1>1, <2>1
<1>3. Layout[1].width \in Nat \ {0}
  BY <1>2, WidthTyped
<1>4. Layout[1].at = 32 /\ Layout[1].at + Layout[1].width <= 8 * Bytes
  BY <1>1, PacketAssumption DEF HeaderBits
<1> QED
  BY <1>3, <1>4, BytesTyped

\* A byte is the number of its eight bits, and flags are those of the fourth byte.
LEMMA HeaderMeant ==
  ASSUME NEW p \in Packet
  PROVE  HeaderOf(p) = [address     |-> Number(p, 0, 24),
                        addr_type   |-> Number(p, 24, 2),
                        addr_parity |-> Number(p, 26, 1),
                        emergency   |-> Number(p, 27, 1),
                        relay_cnt   |-> Number(p, 28, 2),
                        other_data  |-> Number(p, 30, 1),
                        custom_enc  |-> Number(p, 31, 1)]
<1>1. Bytes \in Nat /\ Bytes >= 5
  BY EnoughBytes
<1>2. ASSUME NEW k \in 0 .. 3 PROVE k \in 0 .. Bytes - 1 /\ p[k] \in 0 .. 255
  <2>1. k \in 0 .. Bytes - 1
    BY <1>1
  <2>2. p[k] \in Byte
    BY <2>1 DEF Packet
  <2> QED
    BY <2>1, <2>2 DEF Byte
<1>3. ASSUME NEW k \in 0 .. 3 PROVE Number(p, 8 * k, 8) = p[k]
  <2>1. Number(p, 8 * k + 0, 8) = Bits(p[k], 8 - 0 - 8, 8)
    BY <1>2, NumberInByte
  <2>2. Bits(p[k], 0, 8) = (p[k] \div 1) % 256
    BY SmallPows DEF Bits
  <2> QED
    BY <1>2, <2>1, <2>2
<1>4. Number(p, 0, 16) = p[0] * 256 + p[1]
  <2>1. Number(p, 0, 8 + 8) = Number(p, 0, 8) * Pow2(8) + Number(p, 0 + 8, 8)
    BY <1>1, NumberSplit
  <2>2. Number(p, 8 * 0, 8) = p[0] /\ Number(p, 8 * 1, 8) = p[1]
    BY <1>3
  <2> QED
    BY <2>1, <2>2, SmallPows
<1>5. Number(p, 0, 24) = p[0] * 65536 + p[1] * 256 + p[2]
  <2>1. Number(p, 0, 16 + 8) = Number(p, 0, 16) * Pow2(8) + Number(p, 0 + 16, 8)
    BY <1>1, NumberSplit
  <2>2. Number(p, 8 * 2, 8) = p[2]
    BY <1>3
  <2>3. p[0] \in Nat /\ p[1] \in Nat /\ p[2] \in Nat
    BY <1>2
  <2> QED
    BY <1>4, <2>1, <2>2, <2>3, SmallPows
<1>6. 2^16 = 65536 /\ 2^8 = 256
  OBVIOUS
<1>7. ASSUME NEW j \in 0 .. 7, NEW n \in 1 .. 2, j + n <= 8
      PROVE  Number(p, 24 + j, n) = Bits(p[3], 8 - j - n, n)
  <2>1. 3 \in 0 .. Bytes - 1 /\ n \in Nat
    BY <1>1
  <2>2. Number(p, 8 * 3 + j, n) = Bits(p[3], 8 - j - n, n)
    BY <1>7, <2>1, NumberInByte
  <2> QED
    BY <2>2
<1>8. /\ Number(p, 24, 2) = Bits(p[3], 6, 2) /\ Number(p, 26, 1) = Bits(p[3], 5, 1)
      /\ Number(p, 27, 1) = Bits(p[3], 4, 1) /\ Number(p, 28, 2) = Bits(p[3], 2, 2)
      /\ Number(p, 30, 1) = Bits(p[3], 1, 1) /\ Number(p, 31, 1) = Bits(p[3], 0, 1)
  BY <1>7
<1> QED
  BY <1>5, <1>6, <1>8 DEF HeaderOf

\* Extending the sign of a number is taking its first bit for negative.
LEMMA SignMeant ==
  ASSUME NEW p \in Packet, NEW f \in [at : Nat, width : 1 .. 32, signed : BOOLEAN],
         f.at + f.width <= 8 * Bytes
  PROVE  /\ f.signed => SignExtended(f.width, Number(p, f.at, f.width)) = Meant(p, f)
         /\ ~f.signed => Number(p, f.at, f.width) = Meant(p, f)
<1> DEFINE x == Number(p, f.at, f.width)
<1>1. f.at \in Nat /\ f.width \in Nat \ {0}
  OBVIOUS
<1>2. x \in Nat /\ Pow2(f.width) \in Nat
  BY <1>1, NumberFits, PowIs
<1>3. x >= Pow2(f.width - 1) <=> BitAt(p, f.at) = 1
  BY <1>1, FirstBit
<1>4. Meant(p, f) = x - IF f.signed /\ BitAt(p, f.at) = 1 THEN Pow2(f.width) ELSE 0
  BY DEF Meant
<1>5. SignExtended(f.width, x) = IF x >= Pow2(f.width - 1) THEN x - Pow2(f.width) ELSE x
  BY DEF SignExtended
<1> HIDE DEF x
<1>6. x - 0 = x
  BY <1>2
<1> QED
  BY <1>3, <1>4, <1>5, <1>6 DEF x
LEMMA PacketInitMeaning == PacketInit => Meaning
<1> SUFFICES ASSUME PacketInit PROVE Meaning
  OBVIOUS
<1>1. packet \in Packet /\ phase = "header" /\ fields = <<>>
  BY PacketAssumption DEF PacketInit, Packet, Byte
<1> QED
  BY <1>1 DEF Meaning, ReadSoFar, FieldsAreMeant, HeaderIsMeant

LEMMA HeaderKeepsMeaning == PacketIInv /\ Meaning /\ ReadHeader => Meaning'
<1> SUFFICES ASSUME PacketIInv, Meaning, ReadHeader PROVE Meaning'
  OBVIOUS
<1>1. /\ packet' = packet /\ fields' = fields /\ phase' # "loop"
      /\ header' = HeaderOf(packet)
  BY DEF ReadHeader
<1>2. HeaderIsMeant'
  BY <1>1, HeaderMeant DEF Meaning, HeaderIsMeant
<1> QED
  BY <1>1, <1>2 DEF Meaning, ReadSoFar, FieldsAreMeant

LEMMA CallKeepsMeaning == PacketIInv /\ Meaning /\ Call => Meaning'
<1> SUFFICES ASSUME PacketIInv, Meaning, Call PROVE Meaning'
  OBVIOUS
<1>1. /\ phase = "call" /\ packet' = packet /\ fields' = fields /\ header' = header
      /\ remaining' = Field.width /\ value' = 0
  BY DEF Call
<1>2. Field' = Field /\ Field.at \in Nat /\ Field.width - Field.width = 0
  BY <1>1, FieldFits DEF Field, PacketIInv, FieldsLeft
<1>3. ReadSoFar'
  <2>1. Number(packet, Field.at, 0) = 0
    BY <1>2, NumStep
  <2> QED
    BY <1>1, <1>2, <2>1 DEF ReadSoFar
<1>4. HeaderIsMeant'
  BY <1>1 DEF Meaning, HeaderIsMeant
<1> QED
  BY <1>1, <1>3, <1>4 DEF Meaning, FieldsAreMeant

LEMMA LoopKeepsMeaning == PacketIInv /\ Meaning /\ Loop => Meaning'
<1> SUFFICES ASSUME PacketIInv, Meaning, Loop PROVE Meaning'
  OBVIOUS
<1>1. /\ phase = "loop" /\ remaining > 0
      /\ packet' = packet /\ fields' = fields /\ header' = header /\ phase' = phase
      /\ remaining' = remaining - Take
      /\ value' = value * Pow2(Take) + Bits(packet[byte], 8 - bit - Take, Take)
  BY DEF Loop
<1> DEFINE n == Field.width - remaining
<1>2. Field' = Field
  BY <1>1 DEF Field
<1>3. /\ Field.at \in Nat /\ Field.width \in Nat /\ Field.at + Field.width <= 8 * Bytes
      /\ byte \in Nat /\ bit \in 0 .. 7 /\ remaining \in 0 .. Field.width
      /\ 8 * byte + bit = Field.at + Field.width - remaining
  BY <1>1, FieldFits DEF PacketIInv, FieldsLeft, Progress
<1>4. Take \in Nat /\ Take > 0 /\ Take <= remaining /\ bit + Take <= 8
  BY <1>1, <1>3 DEF Take
<1>5. ReadSoFar'
  <2> DEFINE at == Field.at
             w == Field.width
             t == Take
  <2>0. at \in Nat /\ w \in Nat /\ t \in Nat /\ t > 0 /\ t <= remaining /\ bit + t <= 8
        /\ remaining \in 0 .. w /\ 8 * byte + bit = at + w - remaining /\ at + w <= 8 * Bytes
    BY <1>3, <1>4
  <2>1. value = Number(packet, at, n)
    BY <1>1 DEF Meaning, ReadSoFar
  <2>2. w - remaining' = n + t
    BY <1>1, <2>0
  <2>3. n \in Nat /\ 8 * byte + bit = at + n /\ at + n + t <= 8 * Bytes
    BY <2>0, BytesTyped
  <2>4. packet \in Packet /\ byte \in Nat /\ bit \in 0 .. 7
    BY <1>3 DEF Meaning
  <2>5. value' = value * Pow2(t) + Bits(packet[byte], 8 - bit - t, t)
    BY <1>1
  <2>b. at \in Nat /\ t \in Nat /\ t > 0 /\ bit + t <= 8
    BY <2>0
  <2> HIDE DEF n, at, t, w
  <2>6. Number(packet, at, n + t)
          = Number(packet, at, n) * Pow2(t) + Bits(packet[byte], 8 - bit - t, t)
    BY <2>b, <2>3, <2>4, TakeReads
  <2>7. value' = Number(packet, at, w - remaining')
    BY <2>1, <2>2, <2>5, <2>6
  <2> QED
    BY <1>1, <1>2, <2>7 DEF ReadSoFar, at, w
<1>6. HeaderIsMeant'
  BY <1>1 DEF Meaning, HeaderIsMeant
<1> QED
  BY <1>1, <1>5, <1>6 DEF Meaning, FieldsAreMeant

LEMMA ReturnKeepsMeaning == PacketIInv /\ Meaning /\ Return => Meaning'
<1> SUFFICES ASSUME PacketIInv, Meaning, Return PROVE Meaning'
  OBVIOUS
<1> DEFINE v == IF Field.signed THEN SignExtended(Field.width, value) ELSE value
<1>1. /\ phase = "loop" /\ remaining = 0 /\ phase' # "loop"
      /\ packet' = packet /\ header' = header
      /\ fields' = Append(fields, v)
      /\ phase' \notin {"idle", "header"}
  BY DEF Return
<1>2. Len(fields) < Len(Layout) /\ Field.width \in Nat
  BY <1>1, FieldFits DEF PacketIInv, FieldsLeft
<1>3. value = Number(packet, Field.at, Field.width)
  <2>1. Field.width - remaining = Field.width
    BY <1>1, <1>2
  <2> QED
    BY <1>1, <2>1 DEF Meaning, ReadSoFar
<1>4. v = Meant(packet, Field)
  <2>1. Field \in [at : Nat, width : 1 .. 32, signed : BOOLEAN]
    BY <1>2, FieldTyped DEF PacketIInv
  <2>2. Field.at + Field.width <= 8 * Bytes /\ packet \in Packet
    BY <1>2, FieldFits DEF PacketIInv, Meaning
  <2>3. Field.signed \in BOOLEAN
    BY <2>1
  <2> QED
    BY <1>3, <2>1, <2>2, <2>3, SignMeant
<1>5. FieldsAreMeant'
  <2>1. PICK S : fields \in Seq(S)
    BY DEF PacketIInv, FieldsLeft
  <2> HIDE DEF v
  <2>2. Len(fields) \in Nat /\ DOMAIN fields = 1 .. Len(fields)
    BY <2>1
  <2>3. /\ DOMAIN Append(fields, v) = 1 .. Len(fields) + 1
        /\ Append(fields, v)[Len(fields) + 1] = v
        /\ \A i \in 1 .. Len(fields) : Append(fields, v)[i] = fields[i]
    BY <2>1, <2>2
  <2>4. ASSUME NEW i \in DOMAIN fields' PROVE fields'[i] = Meant(packet', Layout[i])
    <3>1. CASE i = Len(fields) + 1
      BY <1>1, <1>4, <2>3, <3>1 DEF Field
    <3>2. CASE i \in 1 .. Len(fields)
      BY <1>1, <2>2, <2>3, <3>2 DEF Meaning, FieldsAreMeant
    <3> QED
      BY <1>1, <2>2, <2>3, <3>1, <3>2
  <2> QED
    BY <2>4 DEF FieldsAreMeant
<1>6. HeaderIsMeant'
  BY <1>1 DEF Meaning, HeaderIsMeant
<1> QED
  BY <1>1, <1>5, <1>6 DEF Meaning, ReadSoFar

LEMMA PacketStepMeaning ==
  PacketIInv /\ Meaning /\ [PacketNext]_packetVars => Meaning'
<1> SUFFICES ASSUME PacketIInv, Meaning, [PacketNext]_packetVars PROVE Meaning'
  OBVIOUS
<1>1. CASE UNCHANGED packetVars
  BY <1>1 DEF Meaning, ReadSoFar, FieldsAreMeant, HeaderIsMeant, Field, packetVars, cursorVars
<1> QED
  BY <1>1, HeaderKeepsMeaning, CallKeepsMeaning, LoopKeepsMeaning, ReturnKeepsMeaning
  DEF PacketNext

\* Every field is the number, with its sign, that the bits at its place stand for,
\* however it lies across the bytes: for every layout, packet and width.
THEOREM ReadsWhatIsMeant == PacketSpec => []FieldsAreMeant
<1>1. Meaning => FieldsAreMeant
  BY DEF Meaning
<1> QED
  BY PacketInitIInv, PacketStepIInv, PacketInitMeaning, PacketStepMeaning, <1>1, PTL
  DEF PacketSpec

\* Address and flags are the bits before the fields.
THEOREM ReadsHeader == PacketSpec => []HeaderIsMeant
<1>1. Meaning => HeaderIsMeant
  BY DEF Meaning
<1> QED
  BY PacketInitIInv, PacketStepIInv, PacketInitMeaning, PacketStepMeaning, <1>1, PTL
  DEF PacketSpec

\* The number being read never needs more bits than the uint32_t that holds it:
\* shifting it loses none.
FitsWord == value \in 0 .. Pow2(32) - 1

LEMMA PowsGrow == \A n \in Nat : n <= 32 => Pow2(n) <= Pow2(32)
<1> DEFINE S == {i \in Nat : i <= 32 => Pow2(32 - i) <= Pow2(32)}
<1>1. 0 \in S
  BY PowIs
<1>2. ASSUME NEW i \in Nat, i \in S PROVE i + 1 \in S
  <2> SUFFICES ASSUME i + 1 <= 32 PROVE Pow2(32 - (i + 1)) <= Pow2(32)
    OBVIOUS
  <2>1. 32 - (i + 1) \in Nat /\ 32 - (i + 1) + 1 = 32 - i
    OBVIOUS
  <2>2. Pow2(32 - i) = 2 * Pow2(32 - (i + 1))
    BY <2>1, PowStep
  <2>3. Pow2(32 - (i + 1)) \in Nat /\ Pow2(32 - i) <= Pow2(32) /\ Pow2(32) \in Nat
    BY <1>2, <2>1, PowIs
  <2> QED
    BY <2>2, <2>3
<1> HIDE DEF S
<1>3. Nat \subseteq S
  BY <1>1, <1>2, SetInduction
<1> SUFFICES ASSUME NEW n \in Nat, n <= 32 PROVE Pow2(n) <= Pow2(32)
  OBVIOUS
<1>4. 32 - n \in Nat /\ 32 - n <= 32 /\ 32 - (32 - n) = n
  OBVIOUS
<1> QED
  BY <1>3, <1>4 DEF S

\* No field overflows the number it is read into, wherever it lies: the bits that
\* are taken together are never more than the field has.
THEOREM NoBitIsLost == PacketSpec => []FitsWord
<1>1. PacketInit => FitsWord
  BY PowIs DEF PacketInit, FitsWord
<1>2. PacketIInv /\ Meaning /\ phase = "loop" => FitsWord
  <2> SUFFICES ASSUME PacketIInv, Meaning, phase = "loop" PROVE FitsWord
    OBVIOUS
  <2> DEFINE n == Field.width - remaining
  <2>1. /\ Field.at \in Nat /\ Field.width \in Nat /\ Field.width <= 32
        /\ Field.at + Field.width <= 8 * Bytes /\ remaining \in 0 .. Field.width
    BY FieldFits DEF PacketIInv, FieldsLeft, Progress
  <2>2. n \in Nat /\ n <= 32 /\ Field.at + n <= 8 * Bytes
    BY <2>1, BytesTyped
  <2>3. value = Number(packet, Field.at, n) /\ packet \in Packet
    BY DEF Meaning, ReadSoFar
  <2> HIDE DEF n
  <2>4. value \in 0 .. Pow2(n) - 1
    BY <2>1, <2>2, <2>3, NumberFits
  <2>5. Pow2(n) \in Nat /\ Pow2(32) \in Nat /\ Pow2(n) <= Pow2(32)
    BY <2>2, PowIs, PowsGrow
  <2> QED
    BY <2>4, <2>5 DEF FitsWord
<1>3. FitsWord /\ [PacketNext]_packetVars => FitsWord' \/ (phase = "loop")'
  BY DEF PacketNext, ReadHeader, Call, Loop, Return, FitsWord, packetVars, cursorVars
<1> QED
  BY PacketInitIInv, PacketStepIInv, PacketInitMeaning, PacketStepMeaning, <1>1, <1>2, <1>3, PTL
  DEF PacketSpec

LEMMA BitsNat ==
  ASSUME NEW b \in Nat, NEW s \in Nat, NEW n \in Nat
  PROVE  Bits(b, s, n) \in Nat
<1>1. Bits(b, s, n) \in 0 .. Pow2(n) - 1 /\ Pow2(n) \in Nat
  BY BitsStep, PowIs
<1> QED
  BY <1>1

LEMMA HeaderTyped ==
  ASSUME NEW p \in Packet
  PROVE  HeaderOf(p) \in [DOMAIN NoHeader -> Nat]
<1>1. Bytes >= 5 /\ Bytes \in Nat
  BY EnoughBytes
<1>2. p[0] \in Nat /\ p[1] \in Nat /\ p[2] \in Nat /\ p[3] \in Nat
  <2>1. /\ 0 \in 0 .. Bytes - 1 /\ 1 \in 0 .. Bytes - 1
        /\ 2 \in 0 .. Bytes - 1 /\ 3 \in 0 .. Bytes - 1
    BY <1>1
  <2>2. p[0] \in Byte /\ p[1] \in Byte /\ p[2] \in Byte /\ p[3] \in Byte
    BY <2>1 DEF Packet
  <2> QED
    BY <2>2 DEF Byte
<1>3. \A s, n \in Nat : Bits(p[3], s, n) \in Nat
  BY <1>2, BitsNat
<1>4. p[0] * 2^16 + p[1] * 2^8 + p[2] \in Nat
  BY <1>2
<1>5. /\ Bits(p[3], 6, 2) \in Nat /\ Bits(p[3], 5, 1) \in Nat /\ Bits(p[3], 4, 1) \in Nat
      /\ Bits(p[3], 2, 2) \in Nat /\ Bits(p[3], 1, 1) \in Nat /\ Bits(p[3], 0, 1) \in Nat
  BY <1>3
<1> QED
  BY <1>4, <1>5 DEF HeaderOf, NoHeader

\* The reader's variables keep their types, whatever the packet.
THEOREM PacketTypes == PacketSpec => []PacketTypeOK
<1>1. PacketInit => PacketTypeOK
  <2> SUFFICES ASSUME PacketInit PROVE PacketTypeOK
    OBVIOUS
  <2>1. fields = <<>> /\ Len(fields) = 0 /\ fields \in Seq(Int) /\ Len(Layout) \in Nat
    BY PacketAssumption DEF PacketInit
  <2>2. NoHeader \in [DOMAIN NoHeader -> Nat]
    BY DEF NoHeader
  <2> QED
    BY <2>1, <2>2 DEF PacketInit, PacketTypeOK, CursorOK
<1>2. PacketIInv /\ PacketIInv' /\ PacketTypeOK /\ [PacketNext]_packetVars => PacketTypeOK'
  <2> SUFFICES ASSUME PacketIInv, PacketIInv', PacketTypeOK, [PacketNext]_packetVars
               PROVE  PacketTypeOK'
    OBVIOUS
  <2>1. CASE ReadHeader
    <3>1. packet \in Packet
      BY PacketAssumption DEF PacketTypeOK, Packet, Byte
    <3> QED
      BY <2>1, <3>1, HeaderTyped DEF ReadHeader, PacketTypeOK, CursorOK, HeaderBits
  <2>2. CASE Call
    <3>1. Field.width \in Nat
      BY <2>2, FieldFits DEF Call, PacketIInv, FieldsLeft
    <3>2. bitpos \div 8 \in Nat /\ bitpos % 8 \in 0 .. 7
      BY DEF PacketTypeOK, CursorOK
    <3> QED
      BY <2>2, <3>1, <3>2 DEF Call, PacketTypeOK, CursorOK
  <2>3. CASE Loop
    <3>1. phase = "loop" /\ phase' = "loop" /\ Field.width \in Nat
      BY <2>3, FieldFits DEF Loop, PacketIInv, FieldsLeft
    <3>2. byte' \in Nat /\ bit' \in 0 .. 7
      BY <3>1 DEF PacketIInv, Progress
    <3>3. /\ remaining > 0 /\ remaining \in 0 .. Field.width /\ byte \in Nat /\ bit \in 0 .. 7
          /\ 8 * byte + bit = Field.at + Field.width - remaining
      BY <2>3, <3>1 DEF Loop, PacketIInv, Progress
    <3>4. Take \in Nat /\ bit + Take <= 8 /\ Take <= remaining
      BY <3>3 DEF Take
    <3>5. packet[byte] \in Nat
      <4>1. byte < Bytes
        BY <2>3, <3>1, PacketIInvBounds DEF InBounds, Loop
      <4>2. packet \in Packet
        BY PacketAssumption DEF PacketTypeOK, Packet, Byte
      <4>3. byte \in 0 .. Bytes - 1
        BY <3>3, <4>1, BytesTyped
      <4>4. packet[byte] \in Byte
        BY <4>2, <4>3 DEF Packet
      <4> QED
        BY <4>4 DEF Byte
    <3>6. Pow2(Take) \in Nat /\ Bits(packet[byte], 8 - bit - Take, Take) \in Nat
      <4>1. 8 - bit - Take \in Nat
        BY <3>3, <3>4
      <4> QED
        BY <3>4, <3>5, <4>1, PowIs, BitsNat
    <3>7. value' \in Nat
      BY <2>3, <3>6 DEF Loop, PacketTypeOK, CursorOK
    <3>8. remaining' \in Nat
      BY <2>3, <3>1, <3>3, <3>4 DEF Loop
    <3> QED
      BY <2>3, <3>1, <3>2, <3>7, <3>8 DEF Loop, PacketTypeOK, CursorOK
  <2>4. CASE Return
    <3> DEFINE v == IF Field.signed THEN SignExtended(Field.width, value) ELSE value
    <3>1. Len(fields) < Len(Layout) /\ Field.width \in Nat \ {0} /\ Len(Layout) \in Nat
      BY <2>4, FieldFits, PacketAssumption DEF Return, PacketIInv, FieldsLeft
    <3>2. v \in Int
      <4>1. Pow2(Field.width) \in Nat /\ value \in Nat
        BY <3>1, PowIs DEF PacketTypeOK, CursorOK
      <4> QED
        BY <4>1 DEF SignExtended
    <3>3. /\ fields' = Append(fields, v) /\ bitpos' = bitpos + Field.width
          /\ UNCHANGED <<packet, header, byte, bit, remaining, value>>
          /\ phase' \in {"call", "done"}
      BY <2>4 DEF Return
    <3> HIDE DEF v
    <3>4. fields' \in Seq(Int) /\ Len(fields') = Len(fields) + 1 /\ Len(fields) \in Nat
      BY <3>2, <3>3 DEF PacketTypeOK
    <3> QED
      BY <3>1, <3>3, <3>4 DEF PacketTypeOK, CursorOK
  <2>5. CASE UNCHANGED packetVars
    BY <2>5 DEF PacketTypeOK, CursorOK, packetVars, cursorVars
  <2> QED
    BY <2>1, <2>2, <2>3, <2>4, <2>5 DEF PacketNext
<1> QED
  BY PacketInitIInv, PacketStepIInv, <1>1, <1>2, PTL DEF PacketSpec
-----------------------------------------------------------------------------
(***************************************************************************)
(* The codecs.                                                             *)
(***************************************************************************)
Thresholds == Nat \ {0}

\* The bits above those of the threshold tell the range.
LEMMA RangeOfCode ==
  ASSUME NEW t \in Thresholds, NEW c \in 0 .. 4 * t - 1
  PROVE  /\ c < t                        => RangeOf(t, c) = 0
         /\ t <= c /\ c < 2 * t          => RangeOf(t, c) = 1
         /\ 2 * t <= c /\ c < 3 * t      => RangeOf(t, c) = 2
         /\ 3 * t <= c                   => RangeOf(t, c) = 3
<1> USE DEF Thresholds
<1> DEFINE In(r) == r * t <= c /\ c < (r + 1) * t
<1>1. /\ In(0) <=> c < t
      /\ In(1) <=> t <= c /\ c < 2 * t
      /\ In(2) <=> 2 * t <= c /\ c < 3 * t
      /\ In(3) <=> 3 * t <= c
  OBVIOUS
<1>2. RangeOf(t, c) = CHOOSE r \in 0 .. 3 : In(r)
  BY DEF RangeOf
<1> HIDE DEF In
<1>3. \E r \in 0 .. 3 : In(r)
  BY <1>1
<1>4. RangeOf(t, c) \in 0 .. 3 /\ In(RangeOf(t, c))
  BY <1>2, <1>3
<1>5. RangeOf(t, c) \in {0, 1, 2, 3}
  BY <1>4
<1> QED
  BY <1>1, <1>4, <1>5

\* What each code stands for.
LEMMA DecodeIs ==
  ASSUME NEW t \in Thresholds, NEW c \in 0 .. 4 * t - 1
  PROVE  /\ c < t                    => UnsVRdecode(t, c) = c
         /\ t <= c /\ c < 2 * t      => UnsVRdecode(t, c) = t + 1 + 2 * (c - t)
         /\ 2 * t <= c /\ c < 3 * t  => UnsVRdecode(t, c) = 3 * t + 2 + 4 * (c - 2 * t)
         /\ 3 * t <= c               => UnsVRdecode(t, c) = 7 * t + 4 + 8 * (c - 3 * t)
<1> USE DEF Thresholds
<1>1. CASE c < t
  <2>1. RangeOf(t, c) = 0
    BY <1>1, RangeOfCode
  <2> QED
    BY <1>1, <2>1 DEF UnsVRdecode, Low
<1>2. CASE t <= c /\ c < 2 * t
  <2>1. RangeOf(t, c) = 1
    BY <1>2, RangeOfCode
  <2> QED
    BY <1>2, <2>1 DEF UnsVRdecode, Low
<1>3. CASE 2 * t <= c /\ c < 3 * t
  <2>1. RangeOf(t, c) = 2
    BY <1>3, RangeOfCode
  <2> QED
    BY <1>3, <2>1 DEF UnsVRdecode, Low
<1>4. CASE 3 * t <= c
  <2>1. RangeOf(t, c) = 3
    BY <1>4, RangeOfCode
  <2> QED
    BY <1>4, <2>1 DEF UnsVRdecode, Low
<1> QED
  BY <1>1, <1>2, <1>3, <1>4

\* Encoding gives the code of the range a value is in.
LEMMA EncodeIs ==
  ASSUME NEW t \in Thresholds, NEW v \in Nat
  PROVE  /\ v < t                        => UnsVRencode(t, v) = v
         /\ t <= v /\ v < 3 * t          => UnsVRencode(t, v) = t + (v - t) \div 2
         /\ 3 * t <= v /\ v < 7 * t      => UnsVRencode(t, v) = 2 * t + (v - 3 * t) \div 4
         /\ 7 * t <= v /\ v < 15 * t     => UnsVRencode(t, v) = 3 * t + (v - 7 * t) \div 8
         /\ 15 * t <= v                  => UnsVRencode(t, v) = 4 * t - 1
BY DEF UnsVRencode, Thresholds

\* What the station makes of a value, by the ranges of the value.
LEMMA SeenIs ==
  ASSUME NEW t \in Thresholds, NEW v \in Nat
  PROVE  LET d == UnsVRdecode(t, UnsVRencode(t, v))
         IN /\ v < t                     => d = v
            /\ t <= v /\ v < 3 * t       => d = t + 1 + 2 * ((v - t) \div 2)
            /\ 3 * t <= v /\ v < 7 * t   => d = 3 * t + 2 + 4 * ((v - 3 * t) \div 4)
            /\ 7 * t <= v /\ v < 15 * t  => d = 7 * t + 4 + 8 * ((v - 7 * t) \div 8)
            /\ 15 * t <= v               => d = 15 * t - 4
<1> USE DEF Thresholds
<1> DEFINE e == UnsVRencode(t, v)
           d == UnsVRdecode(t, e)
<1>1. CASE v < t
  <2>1. e = v /\ e \in 0 .. 4 * t - 1 /\ e < t
    BY <1>1, EncodeIs
  <2>2. d = e
    BY <2>1, DecodeIs
  <2> QED
    BY <1>1, <2>1, <2>2
<1>2. CASE t <= v /\ v < 3 * t
  <2>1. e = t + (v - t) \div 2
    BY <1>2, EncodeIs
  <2>2. e \in 0 .. 4 * t - 1 /\ t <= e /\ e < 2 * t
    BY <1>2, <2>1
  <2>3. d = t + 1 + 2 * (e - t)
    BY <2>2, DecodeIs
  <2> HIDE DEF d, e
  <2>4. d = t + 1 + 2 * ((v - t) \div 2)
    BY <1>2, <2>1, <2>2, <2>3
  <2> QED
    BY <1>2, <2>4 DEF d, e
<1>3. CASE 3 * t <= v /\ v < 7 * t
  <2>1. e = 2 * t + (v - 3 * t) \div 4
    BY <1>3, EncodeIs
  <2>2. e \in 0 .. 4 * t - 1 /\ 2 * t <= e /\ e < 3 * t
    BY <1>3, <2>1
  <2>3. d = 3 * t + 2 + 4 * (e - 2 * t)
    BY <2>2, DecodeIs
  <2> HIDE DEF d, e
  <2>4. d = 3 * t + 2 + 4 * ((v - 3 * t) \div 4)
    BY <1>3, <2>1, <2>2, <2>3
  <2> QED
    BY <1>3, <2>4 DEF d, e
<1>4. CASE 7 * t <= v /\ v < 15 * t
  <2>1. e = 3 * t + (v - 7 * t) \div 8
    BY <1>4, EncodeIs
  <2>2. e \in 0 .. 4 * t - 1 /\ 3 * t <= e
    BY <1>4, <2>1
  <2>3. d = 7 * t + 4 + 8 * (e - 3 * t)
    BY <2>2, DecodeIs
  <2> HIDE DEF d, e
  <2>4. d = 7 * t + 4 + 8 * ((v - 7 * t) \div 8)
    BY <1>4, <2>1, <2>2, <2>3
  <2> QED
    BY <1>4, <2>4 DEF d, e
<1>5. CASE 15 * t <= v
  <2>1. e = 4 * t - 1 /\ e \in 0 .. 4 * t - 1 /\ 3 * t <= e
    BY <1>5, EncodeIs
  <2>2. d = 7 * t + 4 + 8 * (e - 3 * t)
    BY <2>1, DecodeIs
  <2> HIDE DEF d, e
  <2>3. d = 15 * t - 4
    BY <2>1, <2>2
  <2> QED
    BY <1>5, <2>3 DEF d, e
<1> QED
  BY <1>1, <1>2, <1>3, <1>4, <1>5

\* A code fits its bits.
LEMMA CodeFits ==
  ASSUME NEW t \in Thresholds, NEW v \in Nat
  PROVE  UnsVRencode(t, v) \in 0 .. 4 * t - 1
<1> USE DEF Thresholds
<1>1. CASE v < t
  BY <1>1, EncodeIs
<1>2. CASE t <= v /\ v < 3 * t
  BY <1>2, EncodeIs
<1>3. CASE 3 * t <= v /\ v < 7 * t
  BY <1>3, EncodeIs
<1>4. CASE 7 * t <= v /\ v < 15 * t
  BY <1>4, EncodeIs
<1>5. CASE 15 * t <= v
  BY <1>5, EncodeIs
<1> QED
  BY <1>1, <1>2, <1>3, <1>4, <1>5

\* A value comes back no further off than half a step of its range.
LEMMA RoundTrip ==
  ASSUME NEW t \in Thresholds, NEW v \in Nat, NEW d, d = UnsVRdecode(t, UnsVRencode(t, v))
  PROVE  /\ d \in Nat
         /\ v < 15 * t => /\ d - v <= Tolerance(t, v)
                          /\ v - d <= Tolerance(t, v)
                          /\ Tolerance(t, v) \in Nat
         /\ v >= 15 * t => d = 15 * t - 4
         /\ v > 0 => d > 0
<1> USE DEF Thresholds
<1>1. CASE v < t
  BY <1>1, SeenIs DEF Tolerance
<1>2. CASE t <= v /\ v < 3 * t
  BY <1>2, SeenIs DEF Tolerance
<1>3. CASE 3 * t <= v /\ v < 7 * t
  BY <1>3, SeenIs DEF Tolerance
<1>4. CASE 7 * t <= v /\ v < 15 * t
  BY <1>4, SeenIs DEF Tolerance
<1>5. CASE 15 * t <= v
  BY <1>5, SeenIs
<1> QED
  BY <1>1, <1>2, <1>3, <1>4, <1>5

\* The ranges join up: the next value never comes back as a smaller one.
LEMMA NextIsNoLess ==
  ASSUME NEW t \in Thresholds, NEW v \in Nat
  PROVE  UnsVRdecode(t, UnsVRencode(t, v)) <= UnsVRdecode(t, UnsVRencode(t, v + 1))
<1> USE DEF Thresholds
<1> DEFINE d == UnsVRdecode(t, UnsVRencode(t, v))
           d1 == UnsVRdecode(t, UnsVRencode(t, v + 1))
<1>1. CASE v < t
  BY <1>1, SeenIs
<1>2. CASE t <= v /\ v < 3 * t
  <2>1. d = t + 1 + 2 * ((v - t) \div 2)
    BY <1>2, SeenIs
  <2>2. v + 1 < 3 * t => d1 = t + 1 + 2 * ((v + 1 - t) \div 2)
    BY <1>2, SeenIs
  <2>3. v + 1 = 3 * t => d1 = 3 * t + 2 + 4 * ((v + 1 - 3 * t) \div 4)
    <3>1. v + 1 = 3 * t => 3 * t <= v + 1 /\ v + 1 < 7 * t
      BY <1>2
    <3> QED
      BY <3>1, SeenIs
  <2> HIDE DEF d, d1
  <2>4. d <= d1
    BY <1>2, <2>1, <2>2, <2>3
  <2> QED
    BY <2>4 DEF d, d1
<1>3. CASE 3 * t <= v /\ v < 7 * t
  BY <1>3, SeenIs
<1>4. CASE 7 * t <= v /\ v < 15 * t
  <2>1. d = 7 * t + 4 + 8 * ((v - 7 * t) \div 8)
    BY <1>4, SeenIs
  <2>2. v + 1 < 15 * t => d1 = 7 * t + 4 + 8 * ((v + 1 - 7 * t) \div 8)
    BY <1>4, SeenIs
  <2>3. v + 1 = 15 * t => d1 = 15 * t - 4
    BY <1>4, SeenIs
  <2> HIDE DEF d, d1
  <2>4. d <= d1
    BY <1>4, <2>1, <2>2, <2>3
  <2> QED
    BY <2>4 DEF d, d1
<1>5. CASE 15 * t <= v
  BY <1>5, SeenIs
<1> QED
  BY <1>1, <1>2, <1>3, <1>4, <1>5

\* A code is the code of what it stands for.
LEMMA CodeTrip ==
  ASSUME NEW t \in Thresholds, NEW c \in 0 .. 4 * t - 1
  PROVE  /\ UnsVRdecode(t, c) \in Nat
         /\ UnsVRencode(t, UnsVRdecode(t, c)) = c
         /\ UnsVRdecode(t, c) = 0 => c = 0
<1> USE DEF Thresholds
<1> DEFINE d == UnsVRdecode(t, c)
           e == UnsVRencode(t, d)
<1>1. CASE c < t
  <2>1. d = c
    BY <1>1, DecodeIs
  <2> QED
    BY <1>1, <2>1, EncodeIs
<1>2. CASE t <= c /\ c < 2 * t
  <2>1. d = t + 1 + 2 * (c - t)
    BY <1>2, DecodeIs
  <2> HIDE DEF d
  <2>2. d \in Nat /\ t <= d /\ d < 3 * t /\ d # 0
    BY <1>2, <2>1
  <2>3. e = t + (d - t) \div 2
    BY <2>2, EncodeIs
  <2> HIDE DEF e
  <2>4. e = c
    BY <1>2, <2>1, <2>2, <2>3
  <2> QED
    BY <2>2, <2>4 DEF d, e
<1>3. CASE 2 * t <= c /\ c < 3 * t
  <2>1. d = 3 * t + 2 + 4 * (c - 2 * t)
    BY <1>3, DecodeIs
  <2> HIDE DEF d
  <2>2. d \in Nat /\ 3 * t <= d /\ d < 7 * t /\ d # 0
    BY <1>3, <2>1
  <2>3. e = 2 * t + (d - 3 * t) \div 4
    BY <2>2, EncodeIs
  <2> HIDE DEF e
  <2>4. e = c
    BY <1>3, <2>1, <2>2, <2>3
  <2> QED
    BY <2>2, <2>4 DEF d, e
<1>4. CASE 3 * t <= c
  <2>1. d = 7 * t + 4 + 8 * (c - 3 * t)
    BY <1>4, DecodeIs
  <2> HIDE DEF d
  <2>2. d \in Nat /\ 7 * t <= d /\ d < 15 * t /\ d # 0
    BY <1>4, <2>1
  <2>3. e = 3 * t + (d - 7 * t) \div 8
    BY <2>2, EncodeIs
  <2> HIDE DEF e
  <2>4. e = c
    BY <1>4, <2>1, <2>2, <2>3
  <2> QED
    BY <2>2, <2>4 DEF d, e
<1> QED
  BY <1>1, <1>2, <1>3, <1>4
-----------------------------------------------------------------------------
CodecType == [thres : Nat \ {0}, signed : BOOLEAN]

\* What the station makes of the magnitude v.
Seen(c, v) == UnsVRdecode(c.thres, UnsVRencode(c.thres, v))

LEMMA CodecsTyped == ASSUME NEW c \in Codecs
                     PROVE  c \in CodecType /\ c.thres \in Thresholds /\ c.signed \in BOOLEAN
BY VarRateAssumption DEF CodecType, Thresholds

LEMMA MagnitudeIs ==
  ASSUME NEW v \in Int
  PROVE  /\ Magnitude(v) \in Nat
         /\ v < 0 => Magnitude(v) = -v
         /\ v >= 0 => Magnitude(v) = v
BY DEF Magnitude

\* The sign goes through the codec, and the rest as without a sign.
LEMMA ThroughCodec ==
  ASSUME NEW c \in Codecs, NEW v \in Measurable(c)
  PROVE  /\ v \in Int
         /\ Encoded(c, v) \in Codes(c)
         /\ v < 0 => Decoded(c, Encoded(c, v)) = -Seen(c, Magnitude(v))
         /\ v >= 0 => Decoded(c, Encoded(c, v)) = Seen(c, Magnitude(v))
<1> DEFINE t == c.thres
           e == UnsVRencode(t, Magnitude(v))
<1>1. t \in Thresholds /\ t \in Nat /\ t > 0 /\ c.signed \in BOOLEAN
  BY CodecsTyped DEF Thresholds
<1>2. v \in Int /\ (v < 0 => c.signed)
  BY VarRateAssumption, <1>1 DEF Measurable
<1>3. e \in 0 .. 4 * t - 1
  BY <1>1, <1>2, CodeFits, MagnitudeIs
<1>4. Encoded(c, v) = e + IF v < 0 THEN 4 * t ELSE 0
  BY DEF Encoded, SignMask
<1>5. CASE v < 0
  <2>1. Encoded(c, v) = e + 4 * t
    BY <1>4, <1>5
  <2> HIDE DEF e
  <2>2. Encoded(c, v) \in Codes(c)
    BY <1>1, <1>2, <1>3, <1>5, <2>1 DEF Codes, SignMask
  <2>3. IsNegative(c, Encoded(c, v)) /\ Encoded(c, v) - SignMask(t) = e
    BY <1>1, <1>2, <1>3, <1>5, <2>1 DEF IsNegative, SignMask
  <2>4. Decoded(c, Encoded(c, v)) = -UnsVRdecode(t, e)
    BY <2>3 DEF Decoded
  <2> QED
    BY <1>2, <1>5, <2>2, <2>4 DEF Seen, e
<1>6. CASE v >= 0
  <2>1. Encoded(c, v) = e
    BY <1>2, <1>3, <1>4, <1>6
  <2> HIDE DEF e
  <2>2. Encoded(c, v) \in Codes(c)
    BY <1>1, <1>3, <2>1 DEF Codes, SignMask
  <2>3. ~IsNegative(c, e)
    BY <1>1, <1>3 DEF IsNegative, SignMask
  <2>4. Decoded(c, e) = UnsVRdecode(t, e)
    BY <2>3 DEF Decoded
  <2> QED
    BY <1>2, <1>6, <2>1, <2>2, <2>4 DEF Seen, e
<1> QED
  BY <1>2, <1>5, <1>6

\* Every code that may come is that of what it is taken for, save the code of a
\* negative zero.
LEMMA AnyCode ==
  ASSUME NEW c \in Codecs, NEW x \in Codes(c)
  PROVE  /\ Decoded(c, x) \in Int
         /\ Encoded(c, Decoded(c, x)) = x \/ (x = SignMask(c.thres) /\ Decoded(c, x) = 0)
<1> DEFINE t == c.thres
<1>1. t \in Thresholds /\ t \in Nat /\ t > 0 /\ c.signed \in BOOLEAN
  BY CodecsTyped DEF Thresholds
<1>2. x \in Int /\ x >= 0 /\ x < 8 * t /\ (~c.signed => x < 4 * t)
  BY <1>1 DEF Codes, SignMask
<1>3. CASE IsNegative(c, x)
  <2> DEFINE y == x - 4 * t
             d == UnsVRdecode(t, y)
  <2>1. y \in 0 .. 4 * t - 1
    BY <1>1, <1>2, <1>3 DEF IsNegative, SignMask
  <2>2. Decoded(c, x) = -d
    BY <1>3 DEF Decoded, SignMask
  <2>3. d \in Nat /\ UnsVRencode(t, d) = y /\ (d = 0 => y = 0)
    BY <1>1, <2>1, CodeTrip
  <2>4. CASE d = 0
    <3> HIDE DEF d
    <3>1. x = SignMask(t)
      BY <1>1, <1>2, <2>3, <2>4 DEF SignMask
    <3>2. -d = 0
      <4>1. \A k \in Int : k <= 0 /\ k >= 0 => -k = 0
        OBVIOUS
      <4>2. d \in Int /\ d <= 0 /\ d >= 0
        BY <2>3, <2>4
      <4> QED
        BY <4>1, <4>2
    <3> QED
      BY <2>2, <3>1, <3>2
  <2>5. CASE d # 0
    <3> HIDE DEF d
    <3>1. -d \in Int /\ -d < 0 /\ Magnitude(-d) = d
      BY <2>3, <2>5 DEF Magnitude
    <3>2. Encoded(c, -d) = UnsVRencode(t, d) + 4 * t
      BY <3>1 DEF Encoded, SignMask
    <3>3. Encoded(c, -d) = x
      BY <1>1, <1>2, <2>3, <3>2
    <3> QED
      BY <2>2, <3>1, <3>3
  <2> QED
    BY <2>4, <2>5
<1>4. CASE ~IsNegative(c, x)
  <2> DEFINE d == UnsVRdecode(t, x)
  <2>1. x \in 0 .. 4 * t - 1
    BY <1>1, <1>2, <1>4 DEF IsNegative, SignMask
  <2>2. Decoded(c, x) = d
    BY <1>4 DEF Decoded
  <2>3. d \in Nat /\ UnsVRencode(t, d) = x
    BY <1>1, <2>1, CodeTrip
  <2> HIDE DEF d
  <2>4. Magnitude(d) = d /\ ~(d < 0)
    BY <2>3 DEF Magnitude
  <2>5. Encoded(c, d) = x
    BY <1>2, <2>3, <2>4 DEF Encoded
  <2> QED
    BY <2>2, <2>3, <2>5
<1> QED
  BY <1>3, <1>4
-----------------------------------------------------------------------------
\* The code that travels is that of the measured value, if it came from our
\* encoder, and what the station makes of it is what it stands for.
CodecIInv == /\ codec \in Codecs
             /\ pc \in {"measured", "sent", "decoded", "shown"}
             /\ measured \in Measurable(codec)
             /\ genuine \in BOOLEAN
             /\ code \in Codes(codec)
             /\ decoded \in Int /\ shown \in Int
             /\ pc # "measured" /\ genuine => code = Encoded(codec, measured)
             /\ Done => decoded = Decoded(codec, code)

LEMMA CodecInitIInv == Init => CodecIInv
<1> SUFFICES ASSUME Init PROVE CodecIInv
  OBVIOUS
<1>1. codec \in Codecs /\ codec.thres \in Nat \ {0} /\ codec.signed \in BOOLEAN
  BY CodecsTyped DEF Init, Thresholds
<1>2. 0 \in Measurable(codec) /\ 0 \in Codes(codec)
  BY <1>1, VarRateAssumption DEF Measurable, Codes, SignMask
<1>3. codec \in Codecs /\ decoded = 0 /\ shown = 0
  BY DEF Init
<1>4. CASE pc = "measured" /\ measured \in Measurable(codec) /\ genuine = TRUE /\ code = 0
  BY <1>2, <1>3, <1>4 DEF CodecIInv, Done
<1>5. CASE pc = "sent" /\ measured = 0 /\ genuine = FALSE /\ code \in Codes(codec)
  <2>1. ~Done /\ (pc # "measured" /\ genuine => code = Encoded(codec, measured))
    BY <1>5, Zenon DEF Done
  <2>2. genuine \in BOOLEAN /\ pc \in {"measured", "sent", "decoded", "shown"}
    BY <1>5
  <2> QED
    BY <1>2, <1>3, <1>5, <2>1, <2>2 DEF CodecIInv
<1> QED
  BY <1>4, <1>5 DEF Init

LEMMA CodecStepIInv == CodecIInv /\ [Next]_vars => CodecIInv'
<1> SUFFICES ASSUME CodecIInv, [Next]_vars PROVE CodecIInv'
  OBVIOUS
<1> USE DEF CodecIInv
<1>1. CASE Encode
  <2>1. Encoded(codec, measured) \in Codes(codec)
    BY ThroughCodec
  <2> QED
    BY <1>1, <2>1 DEF Encode, Done
<1>2. CASE Decode
  <2>1. Decoded(codec, code) \in Int
    BY AnyCode
  <2> QED
    BY <1>2, <2>1 DEF Decode, Done
<1>3. CASE Show
  BY <1>3 DEF Show, Done
<1>4. CASE UNCHANGED vars
  BY <1>4 DEF vars, Done
<1> QED
  BY <1>1, <1>2, <1>3, <1>4 DEF Next

\* Every code fits the bits that the packet has for it, whatever is measured.
THEOREM CodesFit == Spec => []TypeOK
<1>1. CodecIInv => TypeOK
  BY DEF CodecIInv, TypeOK
<1> QED
  BY CodecInitIInv, CodecStepIInv, <1>1, PTL DEF Spec

LEMMA CodecIInvPrecise == CodecIInv => Precise
<1> SUFFICES ASSUME CodecIInv, Done, genuine = TRUE PROVE Precise
  BY DEF Precise, CodecIInv
<1> DEFINE t == codec.thres
           m == Magnitude(measured)
           d == Seen(codec, m)
<1>1. /\ measured \in Int /\ m \in Nat /\ t \in Thresholds /\ t \in Nat /\ t > 0
      /\ measured < 0 => m = -measured /\ decoded = -d
      /\ measured >= 0 => m = measured /\ decoded = d
  BY ThroughCodec, CodecsTyped, MagnitudeIs DEF CodecIInv, Done, Thresholds
<1>2. /\ d \in Nat
      /\ m < 15 * t => d - m <= Tolerance(t, m) /\ m - d <= Tolerance(t, m)
      /\ m >= 15 * t => d = 15 * t - 4
      /\ m > 0 => d > 0
  BY <1>1, RoundTrip DEF Seen
<1>3. Tolerance(t, m) \in Nat
  BY <1>1 DEF Tolerance
<1> HIDE DEF t, m, d
<1>4. Magnitude(decoded) = d
  BY <1>1, <1>2 DEF Magnitude
<1>5. m < 15 * t => Magnitude(d - m) <= Tolerance(t, m)
  BY <1>1, <1>2, <1>3 DEF Magnitude
<1>6. (measured < 0 => decoded <= 0) /\ (measured > 0 => decoded > 0)
  BY <1>1, <1>2
<1> QED
  BY <1>2, <1>4, <1>5, <1>6 DEF Precise, t, m

\* What the UR2V and SR2V codecs make of a measured value is off by no more than
\* half a step of its range, whatever the threshold.
THEOREM CodecsPrecise == Spec => []Precise
BY CodecInitIInv, CodecStepIInv, CodecIInvPrecise, PTL DEF Spec

LEMMA CodecIInvOrdered == CodecIInv => Ordered
<1> SUFFICES ASSUME CodecIInv, Done, genuine = TRUE, measured < MaxMeasured
             PROVE  decoded <= Decoded(codec, Encoded(codec, measured + 1))
  BY DEF Ordered, CodecIInv
<1> DEFINE v == measured
           next == Decoded(codec, Encoded(codec, v + 1))
<1>1. v \in Measurable(codec) /\ v + 1 \in Measurable(codec) /\ v \in Int
  BY VarRateAssumption, CodecsTyped DEF CodecIInv, Measurable
<1>2. /\ codec.thres \in Thresholds /\ codec \in Codecs
      /\ decoded = Decoded(codec, Encoded(codec, v))
  BY CodecsTyped DEF CodecIInv, Done
<1>3. CASE v >= 0
  <2>1. Magnitude(v) = v /\ Magnitude(v + 1) = v + 1 /\ v + 1 >= 0 /\ v \in Nat
    BY <1>1, <1>3 DEF Magnitude
  <2>2. decoded = Seen(codec, v) /\ next = Seen(codec, v + 1)
    BY <1>1, <1>2, <1>3, <2>1, ThroughCodec
  <2> QED
    BY <1>2, <2>1, <2>2, NextIsNoLess DEF Seen
<1>4. CASE v < -1
  <2> DEFINE w == -v - 1
  <2>1. w \in Nat /\ Magnitude(v) = w + 1 /\ Magnitude(v + 1) = w /\ v < 0 /\ v + 1 < 0
    BY <1>1, <1>4 DEF Magnitude
  <2>2. decoded = -Seen(codec, w + 1) /\ next = -Seen(codec, w)
    BY <1>1, <1>2, <2>1, ThroughCodec
  <2> HIDE DEF w
  <2>3. /\ Seen(codec, w) <= Seen(codec, w + 1)
        /\ Seen(codec, w) \in Nat /\ Seen(codec, w + 1) \in Nat
    BY <1>2, <2>1, NextIsNoLess, RoundTrip DEF Seen
  <2> QED
    BY <2>2, <2>3
<1>5. CASE v >= -1 /\ v < 0
  <2>1. Magnitude(v) = 1 /\ Magnitude(v + 1) = 0 /\ v < 0 /\ v + 1 >= 0
    <3>1. v + 1 = 0 /\ v < 0 /\ -v = 1
      BY <1>1, <1>5
    <3> QED
      BY <3>1 DEF Magnitude
  <2>2. decoded = -Seen(codec, 1) /\ next = Seen(codec, 0)
    BY <1>1, <1>2, <2>1, ThroughCodec
  <2>3. Seen(codec, 1) \in Nat /\ Seen(codec, 0) \in Nat
    BY <1>2, RoundTrip DEF Seen
  <2> QED
    BY <2>2, <2>3
<1> QED
  BY <1>1, <1>3, <1>4, <1>5

\* A larger value is never taken for a smaller one, with a sign or without.
THEOREM CodecsOrdered == Spec => []Ordered
BY CodecInitIInv, CodecStepIInv, CodecIInvOrdered, PTL DEF Spec

\* Decoding loses nothing, for every code that may come.
THEOREM CodecsReversible == Spec => []Reversible
<1>1. CodecIInv => Reversible
  BY AnyCode DEF CodecIInv, Reversible
<1> QED
  BY CodecInitIInv, CodecStepIInv, <1>1, PTL DEF Spec
-----------------------------------------------------------------------------
(***************************************************************************)
(* Packets and codecs together.                                            *)
(***************************************************************************)

\* The codec of each field, told by its sign and its number of codes, is the one
\* that the code decodes the field with.
LEMMA CodecIs ==
  ASSUME NEW i \in Coded
  PROVE  /\ CodecOf(i) = DecoderOf(i) /\ CodecOf(i) \in Codecs
         /\ Codes(CodecOf(i)) = 0 .. Pow2(Layout[i].width) - 1
<1> DEFINE C(c) == c.signed = (i \in {Climb, TurnRate}) /\ Codes(c) = 0 .. Pow2(Layout[i].width) - 1
           d == DecoderOf(i)
<1>1. i \in {8, 9, 10, 11}
  BY DEF Coded, Climb, TurnRate
<1>2. d \in Codecs /\ C(d)
  <2>1. CASE i = 8
    <3>1. d = SR2V6 /\ i \in {Climb, TurnRate} /\ Layout[i].width = 9
      BY <2>1, ReportAssumption DEF DecoderOf, Climb, TurnRate
    <3>2. SR2V6 \in Codecs
      BY ReportAssumption, VarRateAssumption
    <3>3. SR2V6.signed = TRUE /\ Codes(SR2V6) = 0 .. Pow2(9) - 1
      BY SmallPows DEF SR2V6, Codes, SignMask
    <3> HIDE DEF d
    <3> QED
      BY <3>1, <3>2, <3>3
  <2>2. CASE i = 9 \/ i = 10
    <3>1. d = UR2V8 /\ i \notin {Climb, TurnRate} /\ Layout[i].width = 10
      BY <2>2, ReportAssumption DEF DecoderOf, Climb, TurnRate, Speed, Heading
    <3>2. UR2V8 \in Codecs
      BY ReportAssumption, VarRateAssumption
    <3>3. UR2V8.signed = FALSE /\ Codes(UR2V8) = 0 .. Pow2(10) - 1
      BY SmallPows DEF UR2V8, Codes, SignMask
    <3>4. UR2V8.signed = (i \in {Climb, TurnRate})
      <4>1. (i \in {Climb, TurnRate}) = FALSE
        BY <3>1
      <4> QED
        BY <3>3, <4>1, Zenon
    <3> HIDE DEF d
    <3> QED
      BY <3>1, <3>2, <3>3, <3>4
  <2>3. CASE i = 11
    <3>1. d = SR2V5 /\ i \in {Climb, TurnRate} /\ Layout[i].width = 8
      BY <2>3, ReportAssumption DEF DecoderOf, Climb, TurnRate
    <3>2. SR2V5 \in Codecs
      BY ReportAssumption, VarRateAssumption
    <3>3. SR2V5.signed = TRUE /\ Codes(SR2V5) = 0 .. Pow2(8) - 1
      BY SmallPows DEF SR2V5, Codes, SignMask
    <3> HIDE DEF d
    <3> QED
      BY <3>1, <3>2, <3>3
  <2> QED
    BY <1>1, <2>1, <2>2, <2>3
<1>3. ASSUME NEW c \in Codecs, C(c) PROVE c = d
  <2>1. c \in CodecType /\ d \in CodecType /\ c.signed = d.signed /\ Codes(c) = Codes(d)
    BY <1>2, <1>3, CodecsTyped
  <2>2. /\ c.thres \in Nat \ {0} /\ d.thres \in Nat \ {0} /\ c.signed \in BOOLEAN
        /\ c = [thres |-> c.thres, signed |-> c.signed]
        /\ d = [thres |-> d.thres, signed |-> d.signed]
    <3> HIDE DEF d
    <3> QED
      BY <2>1 DEF CodecType
  <2> HIDE DEF d
  <2>3. c.thres = d.thres
    <3> DEFINE top(x) == (IF x.signed THEN 8 * x.thres ELSE 4 * x.thres) - 1
    <3>1. \A x \in {c, d} : top(x) \in Nat /\ Codes(x) = 0 .. top(x)
      BY <2>1, <2>2 DEF Codes, SignMask
    <3>2. \A m, n \in Nat : 0 .. m = 0 .. n => m = n
      <4> SUFFICES ASSUME NEW m \in Nat, NEW n \in Nat, 0 .. m = 0 .. n PROVE m = n
        OBVIOUS
      <4>1. m \in 0 .. n /\ n \in 0 .. m
        OBVIOUS
      <4> QED
        BY <4>1
    <3>3. top(c) = top(d)
      <4> HIDE DEF top
      <4> QED
        BY <2>1, <3>1, <3>2
    <3> QED
      BY <2>1, <2>2, <3>3
  <2> QED
    BY <2>1, <2>2, <2>3
<1>4. CodecOf(i) = CHOOSE c \in Codecs : C(c)
  BY DEF CodecOf
<1> HIDE DEF C
<1>5. CodecOf(i) = d
  <2> HIDE DEF d
  <2> QED
    BY <1>2, <1>3, <1>4
<1> QED
  BY <1>2, <1>5 DEF C

\* The casts on the way to the decoders keep every code.
LEMMA CastKeeps ==
  ASSUME NEW i \in Coded, NEW x \in 0 .. Pow2(Layout[i].width) - 1
  PROVE  Cast(i, x) = x
<1>1. i \in {8, 9, 10, 11}
  BY DEF Coded, Climb, TurnRate
<1>2. CASE i = 8
  <2>1. Layout[i].width = 9
    BY <1>2, ReportAssumption DEF Climb
  <2>2. x \in 0 .. 511
    <3>1. Pow2(Layout[i].width) = 512
      BY <2>1, SmallPows
    <3> QED
      BY <3>1
  <2>3. AsSigned(65536, x) = x /\ AsUnsigned(65536, x) = x
    BY <2>2 DEF AsSigned, AsUnsigned
  <2> QED
    BY <1>2, <2>3 DEF Cast, Climb, TurnRate
<1>3. CASE i = 9 \/ i = 10
  <2>1. Layout[i].width = 10
    BY <1>3, ReportAssumption DEF Speed, Heading
  <2>2. x \in 0 .. 1023
    <3>1. Pow2(Layout[i].width) = 1024
      BY <2>1, SmallPows
    <3> QED
      BY <3>1
  <2> QED
    BY <1>3, <2>2 DEF Cast, Climb, TurnRate, AsUnsigned
<1>4. CASE i = 11
  <2>1. Layout[i].width = 8
    BY <1>4, ReportAssumption DEF TurnRate
  <2>2. x \in 0 .. 255
    <3>1. Pow2(Layout[i].width) = 256
      BY <2>1, SmallPows
    <3> QED
      BY <3>1
  <2>3. AsUnsigned(256, AsSigned(256, x)) = x
    <3>1. x % 256 = x
      BY <2>2
    <3>2. CASE x < 128
      BY <3>1, <3>2 DEF AsSigned, AsUnsigned
    <3>3. CASE x >= 128
      <4>1. AsSigned(256, x) = x - 256
        BY <2>2, <3>1, <3>3 DEF AsSigned
      <4>2. (x - 256) % 256 = x
        BY <2>2
      <4> QED
        BY <4>1, <4>2 DEF AsUnsigned
    <3> QED
      BY <2>2, <3>2, <3>3
  <2> QED
    BY <1>4, <2>3 DEF Cast, Climb, TurnRate
<1> QED
  BY <1>1, <1>2, <1>3, <1>4

LEMMA CodedTyped ==
  ASSUME NEW i \in Coded
  PROVE  /\ i \in 1 .. Len(Layout) /\ Layout[i].at \in Nat /\ Layout[i].width \in Nat
         /\ Layout[i].at + Layout[i].width <= 8 * Bytes
<1> DEFINE Fields == [at : Nat, width : 1 .. 32, signed : BOOLEAN]
<1>1. Layout \in Seq(Fields)
  BY PacketAssumption
<1>2. i \in 1 .. Len(Layout)
  <2>1. i \in DOMAIN Layout
    BY ReportAssumption
  <2> HIDE DEF Fields
  <2> QED
    BY <1>1, <2>1
<1>3. Layout[i] \in Fields
  <2> HIDE DEF Fields
  <2> QED
    BY <1>1, <1>2
<1>4. Layout[i].at \in Nat /\ Layout[i].width \in 1 .. 32
  BY <1>3
<1>5. Layout[i].at + Layout[i].width <= 8 * Bytes
  BY <1>2, PacketAssumption
<1> QED
  BY <1>2, <1>4, <1>5, WidthTyped

\* When the packet has been taken apart, nothing of it is left.
Finished == phase = "done" => Len(fields) = Len(Layout)

\* The code that travels is what the packet has at the place of the watched field,
\* and has been decoded if and only if this field has been read.
Watching ==
  watched # 0 =>
    /\ watched \in Coded
    /\ codec = CodecOf(watched) /\ code = CodeOf(packet, watched)
    /\ pc \in {"sent", "decoded", "shown"}
    /\ pc = "sent" <=> Len(fields) < watched
    /\ pc # "sent" => decoded = Decoded(codec, code)

ReportIInv == PacketIInv /\ Meaning /\ Finished /\ Watching

LEMMA ReportInitIInv == ReportInit => ReportIInv
<1> SUFFICES ASSUME ReportInit PROVE ReportIInv
  OBVIOUS
<1>0. Len(<<>>) = 0
  OBVIOUS
<1>1. CASE watched = 0
  <2>1. packet = NoPacket /\ fields = <<>> /\ phase = "idle"
    BY <1>1 DEF ReportInit, Coded, Climb, TurnRate
  <2>2. Len(fields) = 0 /\ fields \in Seq({}) /\ Len(Layout) > 0
    BY <2>1, PacketAssumption
  <2>3. PacketIInv
    BY <2>1, <2>2 DEF PacketIInv, FieldsLeft, CursorAtField, Progress
  <2>4. Meaning
    <3>1. packet \in Packet
      BY <2>1 DEF NoPacket, Packet, Byte
    <3> QED
      BY <2>1, <3>1 DEF Meaning, ReadSoFar, FieldsAreMeant, HeaderIsMeant
  <2> QED
    BY <1>1, <2>1, <2>3, <2>4 DEF ReportIInv, Finished, Watching
<1>2. CASE watched # 0
  <2>1. /\ watched \in Coded /\ PacketInit
        /\ codec = CodecOf(watched) /\ code = CodeOf(packet, watched) /\ pc = "sent"
    BY <1>2 DEF ReportInit
  <2>2. phase = "header" /\ Len(fields) = 0 /\ 0 < watched
    BY <1>0, <2>1 DEF PacketInit, Coded, Climb, TurnRate
  <2> QED
    BY <2>1, <2>2, PacketInitIInv, PacketInitMeaning DEF ReportIInv, Finished, Watching
<1> QED
  BY <1>1, <1>2

\* All of the composition's steps leave the packet to the bit reader.
LEMMA ReportReads == [ReportNext]_reportVars => [PacketNext]_packetVars /\ watched' = watched
BY DEF ReportNext, ByItself, ReadOther, ReadWatched, ShowWatched, PacketNext, reportVars

\* What the steps of the bit reader do to the number of the fields.
LEMMA FieldsGrow ==
  ASSUME PacketIInv, [PacketNext]_packetVars
  PROVE  /\ packet' = packet /\ Len(fields) \in Nat
         /\ Return => Len(fields') = Len(fields) + 1
         /\ ~Return => Len(fields') = Len(fields)
         /\ Finished => Finished'
<1>1. PICK S : fields \in Seq(S)
  BY DEF PacketIInv, FieldsLeft
<1>2. CASE Return
  <2> DEFINE v == IF Field.signed THEN SignExtended(Field.width, value) ELSE value
  <2>1. /\ packet' = packet /\ fields' = Append(fields, v)
        /\ phase' = IF Len(fields') = Len(Layout) THEN "done" ELSE "call"
    BY <1>2 DEF Return
  <2> HIDE DEF v
  <2>2. fields \in Seq(S \union {v})
    BY <1>1
  <2>3. Len(fields') = Len(fields) + 1 /\ Len(fields) \in Nat
    BY <2>1, <2>2
  <2> QED
    BY <1>2, <2>1, <2>3 DEF Finished
<1>3. CASE ~Return
  <2>1. packet' = packet /\ fields' = fields /\ (phase' = phase \/ phase' # "done")
    BY <1>3 DEF PacketNext, ReadHeader, Call, Loop, packetVars, cursorVars
  <2> QED
    BY <1>1, <1>3, <2>1 DEF Finished
<1> QED
  BY <1>2, <1>3

\* Where the watched field is read, what is decoded is its code.
LEMMA ReadWatchedDecodes == ReportIInv /\ ReadWatched => Decode
<1> SUFFICES ASSUME ReportIInv, ReadWatched PROVE Decode
  OBVIOUS
<1>1. /\ watched # 0 /\ phase = "loop" /\ Len(fields) + 1 = watched /\ remaining = 0
      /\ decoded' = Decoded(DecoderOf(watched), Cast(watched, value)) /\ pc' = "decoded"
      /\ UNCHANGED <<codec, measured, genuine, code, shown>>
  BY DEF ReadWatched, AtWatched, Return
<1>2. /\ watched \in Coded /\ codec = CodecOf(watched) /\ code = CodeOf(packet, watched)
      /\ pc = "sent" <=> Len(fields) < watched
  BY <1>1 DEF ReportIInv, Watching
<1>3. pc = "sent"
  BY <1>1, <1>2, FieldFits DEF ReportIInv, PacketIInv, FieldsLeft
<1>4. value = code
  <2>1. Field = Layout[watched] /\ Field.width \in Nat
    BY <1>1, <1>2, CodedTyped DEF Field
  <2>2. Field.width - remaining = Field.width
    BY <1>1, <2>1
  <2> QED
    BY <1>1, <1>2, <2>1, <2>2 DEF ReportIInv, Meaning, ReadSoFar, CodeOf
<1>5. Cast(watched, value) = code
  <2>1. packet \in Packet
    BY DEF ReportIInv, Meaning
  <2>2. code \in 0 .. Pow2(Layout[watched].width) - 1
    BY <1>2, <2>1, CodedTyped, NumberFits DEF CodeOf
  <2> QED
    BY <1>2, <1>4, <2>2, CastKeeps
<1> QED
  BY <1>1, <1>2, <1>3, <1>5, CodecIs DEF Decode

LEMMA ReportStepIInv == ReportIInv /\ [ReportNext]_reportVars => ReportIInv'
<1> SUFFICES ASSUME ReportIInv, [ReportNext]_reportVars PROVE ReportIInv'
  OBVIOUS
<1>1. PacketIInv' /\ Meaning' /\ Finished'
  BY ReportReads, PacketStepIInv, PacketStepMeaning, FieldsGrow DEF ReportIInv
<1>2. Watching'
  <2> SUFFICES ASSUME watched # 0 PROVE Watching'
    BY ReportReads DEF Watching
  <2>0. /\ watched \in Coded /\ watched \in Nat /\ codec = CodecOf(watched)
        /\ code = CodeOf(packet, watched) /\ pc \in {"sent", "decoded", "shown"}
        /\ pc = "sent" <=> Len(fields) < watched
        /\ pc # "sent" => decoded = Decoded(codec, code)
    BY DEF ReportIInv, Watching, Coded, Climb, TurnRate
  <2>1. /\ packet' = packet /\ watched' = watched /\ Len(fields) \in Nat
        /\ Return => Len(fields') = Len(fields) + 1
        /\ ~Return => Len(fields') = Len(fields)
    BY ReportReads, FieldsGrow DEF ReportIInv
  <2>2. CASE ReadWatched
    <3>1. Decode /\ Return /\ Len(fields) + 1 = watched
      BY <2>2, ReadWatchedDecodes DEF ReadWatched, AtWatched
    <3> QED
      BY <2>0, <2>1, <3>1 DEF Watching, Decode
  <2>3. CASE ReadOther
    <3>1. UNCHANGED <<codec, code, pc, decoded>>
      BY <2>3 DEF ReadOther, vars
    <3>2. Len(fields') < watched <=> Len(fields) < watched
      <4>1. CASE Return
        <5>1. phase = "loop" /\ Len(fields) + 1 # watched
          BY <2>3, <4>1 DEF ReadOther, AtWatched, Return, ReadHeader, Call, Loop
        <5> QED
          BY <2>0, <2>1, <4>1, <5>1
      <4>2. CASE ~Return
        BY <2>1, <4>2
      <4> QED
        BY <4>1, <4>2
    <3> QED
      BY <2>0, <2>1, <3>1, <3>2 DEF Watching
  <2>4. CASE ShowWatched
    <3>1. pc = "decoded" /\ pc' = "shown" /\ UNCHANGED <<fields, codec, code, decoded>>
      BY <2>4 DEF ShowWatched, Show, packetVars
    <3> QED
      BY <2>0, <2>1, <3>1 DEF Watching
  <2>5. CASE UNCHANGED reportVars
    BY <2>0, <2>5 DEF Watching, reportVars, packetVars, vars
  <2> QED
    BY <2>2, <2>3, <2>4, <2>5 DEF ReportNext, ByItself
<1> QED
  BY <1>1, <1>2 DEF ReportIInv

LEMMA ReportIInvAlways == ReportSpec => []ReportIInv
BY ReportInitIInv, ReportStepIInv, PTL DEF ReportSpec

\* Passing the fields to the decoders leaves the reading of the packet as it is.
THEOREM ReportInBounds == ReportSpec => []InBounds
<1>1. ReportIInv => InBounds
  BY PacketIInvBounds DEF ReportIInv
<1> QED
  BY ReportIInvAlways, <1>1, PTL

\* In the composition too, fields and header are what the packet says.
THEOREM ReportIsMeant == ReportSpec => [](FieldsAreMeant /\ HeaderIsMeant)
<1>1. ReportIInv => FieldsAreMeant /\ HeaderIsMeant
  BY DEF ReportIInv, Meaning
<1> QED
  BY ReportIInvAlways, <1>1, PTL

\* Climb rate, speed, heading and turn rate reach, whole, the decoder of the codec
\* that they were encoded with, for every packet.
THEOREM EachToItsDecoder == ReportSpec => []DecodedAsCoded
<1>1. ReportIInv => DecodedAsCoded
  <2> SUFFICES ASSUME ReportIInv, watched # 0, phase = "done"
               PROVE  Done /\ decoded = Decoded(codec, code) /\ Len(fields) = Len(Layout)
    BY DEF DecodedAsCoded
  <2>1. /\ Len(fields) = Len(Layout) /\ watched \in Coded
        /\ pc \in {"sent", "decoded", "shown"}
        /\ pc = "sent" <=> Len(fields) < watched
        /\ pc # "sent" => decoded = Decoded(codec, code)
    BY DEF ReportIInv, Finished, Watching
  <2>2. watched <= Len(Layout) /\ Len(Layout) \in Nat /\ watched \in Nat
    BY <2>1, CodedTyped, PacketAssumption
  <2>3. pc # "sent"
    BY <2>1, <2>2
  <2> QED
    BY <2>1, <2>3 DEF Done
<1> QED
  BY ReportIInvAlways, <1>1, PTL

\* What happens to a field of a packet is what the codec by itself does with a code:
\* the composition implements the specification of the codecs.
THEOREM ReportIsCodec == ReportSpec => Spec
<1>1. ReportInit => Init
  <2> SUFFICES ASSUME ReportInit, ~Init PROVE FALSE
    OBVIOUS
  <2>1. /\ watched \in Coded /\ PacketInit
        /\ codec = CodecOf(watched) /\ code = CodeOf(packet, watched)
        /\ pc = "sent" /\ genuine = FALSE /\ measured = 0 /\ decoded = 0 /\ shown = 0
    BY DEF ReportInit
  <2>2. codec \in Codecs /\ Codes(codec) = 0 .. Pow2(Layout[watched].width) - 1
    BY <2>1, CodecIs
  <2>3. code \in Codes(codec)
    <3>1. packet \in Packet
      BY <2>1, PacketInitMeaning DEF Meaning
    <3> QED
      BY <2>1, <2>2, <3>1, CodedTyped, NumberFits DEF CodeOf
  <2> QED
    BY <2>1, <2>2, <2>3 DEF Init
<1>2. ReportIInv /\ [ReportNext]_reportVars => [Next]_vars
  <2> SUFFICES ASSUME ReportIInv, [ReportNext]_reportVars PROVE [Next]_vars
    OBVIOUS
  <2>1. CASE ReadWatched
    BY <2>1, ReadWatchedDecodes DEF Next
  <2>2. CASE ByItself \/ ReadOther \/ ShowWatched \/ UNCHANGED reportVars
    BY <2>2 DEF ByItself, ReadOther, ShowWatched, Next, reportVars
  <2> QED
    BY <2>1, <2>2 DEF ReportNext
<1> QED
  BY <1>1, <1>2, ReportIInvAlways, PTL DEF ReportSpec, Spec

\* So that what is proved of the codecs holds of the fields that a packet brings.
THEOREM ReportCodesFit == ReportSpec => []TypeOK
BY ReportIsCodec, CodesFit, PTL

\* A code that an encoder of ogn_conv.c made is decoded with no more than the
\* error of its range, and larger values are not taken for smaller ones.
THEOREM ReportPrecise == ReportSpec => [](Precise /\ Ordered)
BY ReportIsCodec, CodecsPrecise, CodecsOrdered, PTL

\* Whatever a packet has in one of the four fields, encoding what the station
\* makes of it gives what was in the packet.
THEOREM ReportReversible == ReportSpec => []Reversible
BY ReportIsCodec, CodecsReversible, PTL
==============================================================================
