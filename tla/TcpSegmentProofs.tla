-------------------------- MODULE TcpSegmentProofs --------------------------
(***************************************************************************)
(* For every set of ports, addresses, sequence numbers and flags, every    *)
(* payload up to a full segment and every byte the network may change:     *)
(* what writeSegmentTo writes is parsed back as the segment it was, and    *)
(* its checksum is the one of RFC 1071.                                    *)
(***************************************************************************)
EXTENDS TcpSegment, SequenceTheorems, WellFoundedInduction, TLAPS

-----------------------------------------------------------------------------
(* Induction: a set that has zero, and with every number the next one, has *)
(* every number.                                                           *)
LEMMA Induction ==
  ASSUME NEW S, 0 \in S, \A n \in Nat : n \in S => n + 1 \in S
  PROVE  \A n \in Nat : n \in S
<1> DEFINE T == {n \in Nat : n \notin S}
<1> SUFFICES ASSUME T # {} PROVE FALSE
  OBVIOUS
<1>1. PICK x \in T : \A y \in T : ~(<<y, x>> \in OpToRel(<, Nat))
  <2>1. T \subseteq Nat
    OBVIOUS
  <2> QED BY Zenon, <2>1, NatLessThanWellFounded, WFMin
<1>2. OpToRel(<, Nat) = {p \in Nat \X Nat : p[1] < p[2]}
  BY Zenon DEF OpToRel
<1>3. x \in Nat /\ x # 0 /\ x - 1 \in Nat /\ x - 1 < x /\ (x - 1) + 1 = x
  BY Z3
<1>4. x - 1 \in T
  BY <1>3
<1>5. <<x - 1, x>> \in {p \in Nat \X Nat : p[1] < p[2]}
  BY <1>3, Zenon
<1> QED BY Zenon, <1>1, <1>2, <1>4, <1>5

(* Words and bytes as bounds.                                              *)
LEMMA Bounds ==
  /\ \A n : n \in Word <=> n \in Int /\ 0 <= n /\ n <= 65535
  /\ \A n : n \in Byte <=> n \in Int /\ 0 <= n /\ n <= 255
<1>1. \A n : n \in Word <=> n \in Int /\ 0 <= n /\ n <= 65535
  <2>1. UINT16_MAX \in Int
    BY SMT DEF UINT16_MAX
  <2>2. \A n : n \in Word <=> n \in Int /\ 0 <= n /\ n <= UINT16_MAX
    BY <2>1, SMT DEF Word
  <2> QED BY <2>2, SMT DEF UINT16_MAX
<1>2. \A n : n \in Byte <=> n \in Int /\ 0 <= n /\ n <= 255
  BY SMT DEF Byte
<1> QED BY <1>1, <1>2, SMT

(* The fold of a sum that carries at most once.                            *)
LEMMA FoldIs ==
  \A n \in Int : 0 <= n /\ n <= 131070 =>
    Fold(n) = IF n <= 65535 THEN n ELSE n - 65535
<1> SUFFICES ASSUME NEW n \in Int, 0 <= n, n <= 131070
             PROVE  Fold(n) = IF n <= 65535 THEN n ELSE n - 65535
  OBVIOUS
<1>1. CASE n <= 65535
  <2>1. n % 65536 = n
    BY SMT, <1>1
  <2>2. n \div 65536 = 0
    BY SMT, <1>1
  <2> QED BY SMT, <1>1, <2>1, <2>2 DEF Fold
<1>2. CASE 65536 <= n
  <2>1. n % 65536 = n - 65536
    BY SMT, <1>2
  <2>2. n \div 65536 = 1
    BY SMT, <1>2
  <2> QED BY SMT, <1>2, <2>1, <2>2 DEF Fold
<1> QED BY SMT, <1>1, <1>2

(* Adding a word to a sum is adding modulo 65535.                          *)
LEMMA AddIs ==
  ASSUME NEW s \in Word, NEW v \in Word
  PROVE  /\ addHostUInt16(s, v) \in Word
         /\ addHostUInt16(s, v) = s + v \/ addHostUInt16(s, v) = s + v - UINT16_MAX
<1>1. PICK n : n = s + v
  OBVIOUS
<1>2. n \in Int /\ 0 <= n /\ n <= 131070
  BY SMT, <1>1, Bounds
<1>3. addHostUInt16(s, v) = Fold(n)
  BY Zenon, <1>1 DEF addHostUInt16
<1>4. Fold(n) = IF n <= 65535 THEN n ELSE n - 65535
  BY SMT, <1>2, FoldIs
<1> QED BY SMT, <1>1, <1>2, <1>3, <1>4, Bounds DEF UINT16_MAX

(* Adding a word to a sum keeps it a word.                                 *)
LEMMA AddType == \A s, v \in Word : addHostUInt16(s, v) \in Word
BY SMT, AddIs

(* A number and its two bytes.                                             *)
LEMMA UInt16Is ==
  ASSUME NEW n \in Word
  PROVE  /\ UInt16(n) \in Seq(Byte) /\ Len(UInt16(n)) = 2
         /\ UInt16(n)[1] \in Byte /\ UInt16(n)[2] \in Byte
         /\ UInt16(n)[1] * 256 + UInt16(n)[2] = n
<1>1. n \in Int /\ 0 <= n /\ n <= 65535
  BY SMT, Bounds
<1>2. n \div 256 \in Int /\ 0 <= n \div 256
  BY SMT, <1>1
<1>3. n \div 256 <= 255
  BY SMT, <1>1
<1>4. n % 256 \in Int /\ 0 <= n % 256 /\ n % 256 <= 255
  BY SMT, <1>1
<1>5. (n \div 256) * 256 + (n % 256) = n
  BY SMT, <1>1
<1>6. n \div 256 \in Byte /\ n % 256 \in Byte
  BY SMT, <1>2, <1>3, <1>4, Bounds
<1> QED BY SMT, <1>5, <1>6 DEF UInt16

-----------------------------------------------------------------------------
(* Running sums.                                                           *)

(* The loop of the constructor of Checksum ends with a sum.                *)
LEMMA SumExists ==
  ASSUME NEW n \in Nat, NEW b \in Word, NEW w \in [1..n -> Word]
  PROVE  \E g \in [0..n -> Word] :
           g = [i \in 0..n |-> IF i = 0 THEN b ELSE addHostUInt16(g[i - 1], w[i])]
<1> DEFINE P(k, g) == g = [i \in 0..k |-> IF i = 0 THEN b ELSE addHostUInt16(g[i - 1], w[i])]
           S == {k \in Nat : k <= n => \E g \in [0..k -> Word] : P(k, g)}
<1>1. 0 \in S
  <2>1. [i \in 0..0 |-> b] \in [0..0 -> Word]
    OBVIOUS
  <2>2. P(0, [i \in 0..0 |-> b])
    BY SMT
  <2> HIDE DEF P
  <2> QED BY <2>1, <2>2, Zenon
<1>2. ASSUME NEW k \in Nat, k \in S PROVE k + 1 \in S
  <2> SUFFICES ASSUME k + 1 <= n PROVE \E g \in [0..(k + 1) -> Word] : P(k + 1, g)
    <3> HIDE DEF P
    <3> QED BY SMT
  <2>1. PICK g \in [0..k -> Word] : P(k, g)
    <3>1. k <= n
      BY SMT
    <3> HIDE DEF P
    <3> QED BY <1>2, <3>1, Zenon
  <2> DEFINE v == addHostUInt16(g[k], w[k + 1])
             h == [i \in 0..(k + 1) |-> IF i = k + 1 THEN v ELSE g[i]]
  <2>2. v \in Word
    <3>1. g[k] \in Word /\ w[k + 1] \in Word
      BY SMT
    <3> QED BY <3>1, AddType, Zenon
  <2>3. h \in [0..(k + 1) -> Word]
    <3> HIDE DEF v
    <3> QED BY <2>2, SMT
  <2>4. P(k + 1, h)
    <3>1. ASSUME NEW i \in 0..(k + 1)
          PROVE  h[i] = IF i = 0 THEN b ELSE addHostUInt16(h[i - 1], w[i])
      <4>1. CASE i = k + 1
        <5>1. i # 0 /\ i - 1 \in 0..(k + 1) /\ i - 1 # k + 1 /\ i - 1 = k
          BY <4>1, SMT
        <5>2. h[i - 1] = g[k] /\ h[i] = v
          BY <4>1, <5>1, Zenon
        <5> QED BY <4>1, <5>1, <5>2, Zenon
      <4>2. CASE i # k + 1
        <5>1. i \in 0..k /\ (i = 0 \/ (i - 1 \in 0..(k + 1) /\ i - 1 # k + 1))
          BY <4>2, SMT
        <5>2. h[i] = g[i] /\ (i = 0 \/ h[i - 1] = g[i - 1])
          BY <4>2, <5>1, Zenon
        <5>3. g[i] = IF i = 0 THEN b ELSE addHostUInt16(g[i - 1], w[i])
          BY <2>1, <5>1, Zenon
        <5> QED BY <5>2, <5>3, Zenon
      <4> QED BY <4>1, <4>2, Zenon
    <3> QED BY <3>1, Zenon
  <2> QED BY <2>3, <2>4
<1>3. n \in S
  <2> HIDE DEF S
  <2> QED BY <1>1, <1>2, Induction, Zenon
<1> QED BY <1>3, SMT

(* A word read from bytes.                                                 *)
LEMMA ReadIs ==
  ASSUME NEW bytes \in Seq(Byte), NEW pos \in Nat, pos + 2 <= Len(bytes)
  PROVE  /\ readUInt16(bytes, pos) \in Word
         /\ readUInt16(bytes, pos) = bytes[pos + 1] * 256 + bytes[pos + 2]
<1>1. bytes[pos + 1] \in Byte /\ bytes[pos + 2] \in Byte
  BY SMT
<1>2. readUInt16(bytes, pos) = bytes[pos + 1] * 256 + bytes[pos + 2]
  BY Zenon DEF readUInt16
<1>3. PICK a, b : a = bytes[pos + 1] /\ b = bytes[pos + 2]
  BY Zenon
<1>4. a \in Byte /\ b \in Byte
  BY <1>1, <1>3, Zenon
<1>5. a * 256 + b \in Word
  BY ONLY <1>4, Bounds, SMT
<1> QED BY <1>2, <1>3, <1>5, Zenon

(* What an odd byte contributes.                                           *)
LEMMA OddIs ==
  ASSUME NEW bytes \in Seq(Byte)
  PROVE  /\ OddByte(bytes) \in Word
         /\ Len(bytes) % 2 = 1 => OddByte(bytes) = 256 * bytes[Len(bytes)]
         /\ Len(bytes) % 2 # 1 => OddByte(bytes) = 0
<1>1. Len(bytes) \in Nat
  BY SMT
<1>2. CASE Len(bytes) % 2 = 1
  <2>1. Len(bytes) # 0
    BY SMT, <1>2
  <2>2. bytes[Len(bytes)] \in Byte
    BY SMT, <1>1, <2>1
  <2>3. OddByte(bytes) = 256 * bytes[Len(bytes)]
    BY SMT, <1>2, <2>2, Bounds DEF OddByte
  <2> QED BY SMT, <1>2, <2>2, <2>3, Bounds
<1>3. CASE Len(bytes) % 2 # 1
  BY SMT, <1>3, Bounds DEF OddByte
<1> QED BY <1>2, <1>3, Zenon

(* The function that Checksum's loop computes.                             *)
LEMMA ChecksumIs ==
  ASSUME NEW bytes \in Seq(Byte), NEW n \in Nat, n = Len(bytes) \div 2, 2 * n <= Len(bytes)
  PROVE  \E f \in [0..n -> Word] :
           /\ f[0] = OddByte(bytes)
           /\ \A i \in 1..n : f[i] = addHostUInt16(f[i - 1], readUInt16(bytes, 2 * i - 2))
           /\ Checksum(bytes) = f[n]
<1> DEFINE R(g) == [i \in 0..n |-> IF i = 0 THEN OddByte(bytes)
                     ELSE addHostUInt16(g[i - 1], readUInt16(bytes, 2 * i - 2))]
           w == [i \in 1..n |-> readUInt16(bytes, 2 * i - 2)]
           f == CHOOSE g : g = R(g)
<1>1. w \in [1..n -> Word]
  <2>1. ASSUME NEW i \in 1..n PROVE readUInt16(bytes, 2 * i - 2) \in Word
    <3>1. 2 * i - 2 \in Nat /\ (2 * i - 2) + 2 <= Len(bytes)
      BY SMT
    <3> QED BY <3>1, ReadIs, SMT
  <2> QED BY <2>1, Zenon
<1>2. PICK g \in [0..n -> Word] :
        g = [i \in 0..n |-> IF i = 0 THEN OddByte(bytes) ELSE addHostUInt16(g[i - 1], w[i])]
  <2> HIDE DEF w
  <2>1. OddByte(bytes) \in Word
    BY OddIs
  <2> QED BY <1>1, <2>1, SumExists, Zenon
<1>3. g = R(g)
  <2>1. ASSUME NEW i \in 0..n, i # 0 PROVE i \in 1..n
    BY SMT
  <2> QED BY <1>2, <2>1, Zenon
<1>4. f = R(f)
  <2> HIDE DEF R
  <2> QED BY <1>3, Zenon
<1>5. Checksum(bytes) = f[n]
  BY Zenon DEF Checksum
<1>6. \A i \in 0..n : f[i] \in Word
  <2> DEFINE S == {k \in Nat : k <= n => f[k] \in Word}
  <2> HIDE DEF f
  <2>1. 0 \in S
    <3>1. 0 \in 0..n
      BY SMT
    <3>2. f[0] = OddByte(bytes)
      BY <1>4, <3>1, Zenon
    <3> QED BY <3>2, OddIs
  <2>2. ASSUME NEW k \in Nat, k \in S PROVE k + 1 \in S
    <3> SUFFICES ASSUME k + 1 <= n PROVE f[k + 1] \in Word
      OBVIOUS
    <3>1. k + 1 \in 0..n /\ k + 1 \in 1..n /\ k + 1 # 0 /\ (k + 1) - 1 = k /\ f[k] \in Word
      BY <2>2, SMT
    <3>2. f[k + 1] = addHostUInt16(f[k], w[k + 1])
      BY <1>4, <3>1, Zenon
    <3>3. w[k + 1] \in Word
      BY <1>1, <3>1, Zenon
    <3> HIDE DEF w
    <3> QED BY <3>1, <3>2, <3>3, AddType, Zenon
  <2>3. \A k \in Nat : k \in S
    <3> HIDE DEF S
    <3> QED BY <2>1, <2>2, Induction, Zenon
  <2> QED BY <2>3, SMT
<1>7. f \in [0..n -> Word]
  <2>1. f = [i \in 0..n |-> f[i]]
    <3> HIDE DEF f
    <3> QED BY <1>4, Zenon
  <2> HIDE DEF f
  <2> QED BY <1>6, <2>1, Zenon
<1>8. f[0] = OddByte(bytes)
  <2>1. 0 \in 0..n
    BY SMT
  <2> HIDE DEF f
  <2> QED BY <1>4, <2>1, Zenon
<1>9. \A i \in 1..n : f[i] = addHostUInt16(f[i - 1], readUInt16(bytes, 2 * i - 2))
  <2> HIDE DEF f
  <2>1. \A i \in 1..n : i \in 0..n /\ i # 0
    BY SMT
  <2> QED BY <1>4, <2>1, Zenon
<1> HIDE DEF f
<1> QED BY <1>5, <1>7, <1>8, <1>9, Zenon

(* The sum of the first numbers of a list, for every length of it.         *)
LEMMA TotalExists ==
  ASSUME NEW n \in Nat, NEW w \in [1..n -> Int]
  PROVE  \E g \in [0..n -> Int] : g = [i \in 0..n |-> IF i = 0 THEN 0 ELSE g[i - 1] + w[i]]
<1> DEFINE P(k, g) == g = [i \in 0..k |-> IF i = 0 THEN 0 ELSE g[i - 1] + w[i]]
           S == {k \in Nat : k <= n => \E g \in [0..k -> Int] : P(k, g)}
<1>1. 0 \in S
  <2>1. [i \in 0..0 |-> 0] \in [0..0 -> Int]
    OBVIOUS
  <2>2. P(0, [i \in 0..0 |-> 0])
    BY SMT
  <2> HIDE DEF P
  <2> QED BY <2>1, <2>2, Zenon
<1>2. ASSUME NEW k \in Nat, k \in S PROVE k + 1 \in S
  <2> SUFFICES ASSUME k + 1 <= n PROVE \E g \in [0..(k + 1) -> Int] : P(k + 1, g)
    <3> HIDE DEF P
    <3> QED BY SMT
  <2>1. PICK g \in [0..k -> Int] : P(k, g)
    <3>1. k <= n
      BY SMT
    <3> HIDE DEF P
    <3> QED BY <1>2, <3>1, Zenon
  <2> DEFINE v == g[k] + w[k + 1]
             h == [i \in 0..(k + 1) |-> IF i = k + 1 THEN v ELSE g[i]]
  <2>2. v \in Int
    BY SMT
  <2>3. h \in [0..(k + 1) -> Int]
    <3> HIDE DEF v
    <3> QED BY <2>2, SMT
  <2>4. P(k + 1, h)
    <3>1. ASSUME NEW i \in 0..(k + 1)
          PROVE  h[i] = IF i = 0 THEN 0 ELSE h[i - 1] + w[i]
      <4>1. CASE i = k + 1
        <5>1. i # 0 /\ i - 1 \in 0..(k + 1) /\ i - 1 # k + 1 /\ i - 1 = k
          BY <4>1, SMT
        <5>2. h[i - 1] = g[k] /\ h[i] = v
          BY <4>1, <5>1, Zenon
        <5> QED BY <4>1, <5>1, <5>2, Zenon
      <4>2. CASE i # k + 1
        <5>1. i \in 0..k /\ (i = 0 \/ (i - 1 \in 0..(k + 1) /\ i - 1 # k + 1))
          BY <4>2, SMT
        <5>2. h[i] = g[i] /\ (i = 0 \/ h[i - 1] = g[i - 1])
          BY <4>2, <5>1, Zenon
        <5>3. g[i] = IF i = 0 THEN 0 ELSE g[i - 1] + w[i]
          BY <2>1, <5>1, Zenon
        <5> QED BY <5>2, <5>3, Zenon
      <4> QED BY <4>1, <4>2, Zenon
    <3> QED BY <3>1, Zenon
  <2> QED BY <2>3, <2>4
<1>3. n \in S
  <2> HIDE DEF S
  <2> QED BY <1>1, <1>2, Induction, Zenon
<1> QED BY <1>3, SMT

(* The function that the sum of RFC 1071 computes.                         *)
LEMMA ByteSumIs ==
  ASSUME NEW bytes \in Seq(Byte)
  PROVE  \E f \in [0..Len(bytes) -> Int] :
           /\ f[0] = 0
           /\ \A i \in 1..Len(bytes) : f[i] = f[i - 1] + Worth(bytes, i)
           /\ ByteSum(bytes) = f[Len(bytes)]
<1> DEFINE n == Len(bytes)
           R(g) == [i \in 0..n |-> IF i = 0 THEN 0 ELSE g[i - 1] + Worth(bytes, i)]
           w == [i \in 1..n |-> Worth(bytes, i)]
           f == CHOOSE g : g = R(g)
<1>0. n \in Nat
  BY SMT
<1>1. w \in [1..n -> Int]
  <2>1. ASSUME NEW i \in 1..n PROVE Worth(bytes, i) \in Int
    <3>1. bytes[i] \in Byte
      BY SMT
    <3> QED BY SMT, <3>1, Bounds DEF Worth
  <2> QED BY <2>1, Zenon
<1>2. PICK g \in [0..n -> Int] :
        g = [i \in 0..n |-> IF i = 0 THEN 0 ELSE g[i - 1] + w[i]]
  <2> HIDE DEF w, n
  <2> QED BY <1>0, <1>1, TotalExists, Zenon
<1>3. g = R(g)
  <2>1. ASSUME NEW i \in 0..n, i # 0 PROVE i \in 1..n
    BY SMT
  <2> QED BY <1>2, <2>1, Zenon
<1>4. f = R(f)
  <2> HIDE DEF R
  <2> QED BY <1>3, Zenon
<1>5. ByteSum(bytes) = f[n]
  BY Zenon DEF ByteSum
<1>6. \A i \in 0..n : f[i] \in Int
  <2> DEFINE S == {k \in Nat : k <= n => f[k] \in Int}
  <2> HIDE DEF f
  <2>1. 0 \in S
    <3>1. 0 \in 0..n
      BY SMT
    <3>2. f[0] = 0
      BY <1>4, <3>1, Zenon
    <3> QED BY <3>2, SMT
  <2>2. ASSUME NEW k \in Nat, k \in S PROVE k + 1 \in S
    <3> SUFFICES ASSUME k + 1 <= n PROVE f[k + 1] \in Int
      OBVIOUS
    <3>1. k + 1 \in 0..n /\ k + 1 \in 1..n /\ k + 1 # 0 /\ (k + 1) - 1 = k /\ f[k] \in Int
      BY <2>2, SMT
    <3>2. f[k + 1] = f[k] + w[k + 1]
      BY <1>4, <3>1, Zenon
    <3>3. w[k + 1] \in Int
      BY <1>1, <3>1, Zenon
    <3> HIDE DEF w
    <3> QED BY <3>1, <3>2, <3>3, SMT
  <2>3. \A k \in Nat : k \in S
    <3> HIDE DEF S
    <3> QED BY <2>1, <2>2, Induction, Zenon
  <2> QED BY <2>3, SMT
<1>7. f \in [0..n -> Int]
  <2> HIDE DEF f
  <2>1. f = [i \in 0..n |-> f[i]]
    BY <1>4, Zenon
  <2> QED BY <1>6, <2>1, Zenon
<1>8. f[0] = 0
  <2>1. 0 \in 0..n
    BY SMT
  <2> HIDE DEF f
  <2> QED BY <1>4, <2>1, Zenon
<1>9. \A i \in 1..n : f[i] = f[i - 1] + Worth(bytes, i)
  <2> HIDE DEF f
  <2>1. \A i \in 1..n : i \in 0..n /\ i # 0
    BY SMT
  <2> QED BY <1>4, <2>1, Zenon
<1> HIDE DEF f
<1> QED BY <1>5, <1>7, <1>8, <1>9, Zenon

-----------------------------------------------------------------------------
(* The two sums compared.                                                  *)

(* Half of a length, rounded down.                                         *)
LEMMA HalfIs ==
  ASSUME NEW l \in Nat
  PROVE  /\ l \div 2 \in Nat /\ 2 * (l \div 2) <= l
         /\ l % 2 = 1 => l = 2 * (l \div 2) + 1
         /\ l % 2 # 1 => l = 2 * (l \div 2)
<1>1. l \div 2 \in Int /\ 0 <= l \div 2
  BY SMT
<1>2. l = 2 * (l \div 2) + (l % 2)
  BY SMT
<1>3. l % 2 \in {0, 1}
  BY SMT
<1> QED BY SMT, <1>1, <1>2, <1>3

(* Odd and even positions.                                                 *)
LEMMA Parity == \A k \in Nat : (2 * k + 1) % 2 = 1 /\ (2 * k + 2) % 2 = 0
BY SMT

(* The arithmetic of one more word: the sums stay equal modulo UINT16_MAX.       *)
LEMMA Carry ==
  ASSUME NEW c0 \in Int, NEW c1 \in Int, NEW v \in Int, NEW o \in Int,
         NEW t0 \in Int, NEW t1 \in Int, NEW m \in Int,
         c0 + UINT16_MAX * m = o + t0, t1 = t0 + v, c1 = c0 + v \/ c1 = c0 + v - UINT16_MAX
  PROVE  \E k \in Int : c1 + UINT16_MAX * k = o + t1
<1>1. CASE c1 = c0 + v
  <2>1. c1 + UINT16_MAX * m = o + t1
    BY SMT, <1>1 DEF UINT16_MAX
  <2> QED BY Zenon, <2>1
<1>2. CASE c1 = c0 + v - UINT16_MAX
  <2>1. m + 1 \in Int /\ c1 + UINT16_MAX * (m + 1) = o + t1
    BY SMT, <1>2 DEF UINT16_MAX
  <2> QED BY Zenon, <2>1
<1> QED BY Zenon, <1>1, <1>2

(* What a byte is worth is a number.                                       *)
LEMMA WorthType ==
  ASSUME NEW bytes \in Seq(Byte), NEW i \in 1..Len(bytes)
  PROVE  Worth(bytes, i) \in Int
<1>1. bytes[i] \in Byte
  BY SMT
<1> QED BY SMT, <1>1, Bounds DEF Worth

(* What a pair of bytes is worth is the word they are read as.             *)
LEMMA PairIs ==
  ASSUME NEW bytes \in Seq(Byte), NEW k \in Nat, 2 * k + 2 <= Len(bytes)
  PROVE  readUInt16(bytes, 2 * k) = Worth(bytes, 2 * k + 1) + Worth(bytes, 2 * k + 2)
<1>1. (2 * k + 1) % 2 = 1 /\ (2 * k + 2) % 2 = 0
  BY Parity, Zenon
<1>2. bytes[2 * k + 1] \in Int /\ bytes[2 * k + 2] \in Int
  <2>1. bytes[2 * k + 1] \in Byte /\ bytes[2 * k + 2] \in Byte
    BY SMT
  <2> QED BY <2>1, Bounds, SMT
<1>3. Worth(bytes, 2 * k + 1) = 256 * bytes[2 * k + 1]
  BY <1>1, SMT DEF Worth
<1>4. Worth(bytes, 2 * k + 2) = bytes[2 * k + 2]
  BY <1>1, SMT DEF Worth
<1>5. readUInt16(bytes, 2 * k) = bytes[2 * k + 1] * 256 + bytes[2 * k + 2]
  BY ReadIs, SMT
<1> QED BY <1>2, <1>3, <1>4, <1>5, SMT

(* Modulo UINT16_MAX, Checksum computes the sum of RFC 1071.                    *)
LEMMA SumsAgree ==
  ASSUME NEW bytes \in Seq(Byte)
  PROVE  /\ Checksum(bytes) \in Word /\ ByteSum(bytes) \in Int
         /\ \E m \in Int : Checksum(bytes) + UINT16_MAX * m = ByteSum(bytes)
<1> DEFINE l == Len(bytes)
           n == l \div 2
<1>1. l \in Nat /\ n \in Nat /\ 2 * n <= l
  BY HalfIs, SMT
<1>2. PICK c \in [0..n -> Word] :
        /\ c[0] = OddByte(bytes)
        /\ \A i \in 1..n : c[i] = addHostUInt16(c[i - 1], readUInt16(bytes, 2 * i - 2))
        /\ Checksum(bytes) = c[n]
  BY <1>1, ChecksumIs, Zenon
<1>3. PICK t \in [0..l -> Int] :
        /\ t[0] = 0
        /\ \A i \in 1..l : t[i] = t[i - 1] + Worth(bytes, i)
        /\ ByteSum(bytes) = t[l]
  BY ByteSumIs, Zenon
<1> DEFINE S == {k \in Nat : k <= n => \E m \in Int : c[k] + UINT16_MAX * m = OddByte(bytes) + t[2 * k]}
<1>4. OddByte(bytes) \in Int
  BY OddIs, Bounds, SMT
<1>5. 0 \in S
  <2>1. PICK o : o = OddByte(bytes)
    BY Zenon
  <2>2. o \in Int /\ UINT16_MAX \in Int
    BY <1>4, <2>1, SMT DEF UINT16_MAX
  <2>3. o + UINT16_MAX * 0 = o + 0 /\ 2 * 0 = 0 /\ 0 \in Int /\ 0 \in Nat
    BY ONLY <2>2, SMT
  <2>4. c[0] + UINT16_MAX * 0 = OddByte(bytes) + t[2 * 0]
    BY <1>2, <1>3, <2>1, <2>3, Zenon
  <2> QED BY <2>3, <2>4, Zenon
<1>6. ASSUME NEW k \in Nat, k \in S PROVE k + 1 \in S
  <2> SUFFICES ASSUME k + 1 <= n
               PROVE  \E m \in Int : c[k + 1] + UINT16_MAX * m = OddByte(bytes) + t[2 * (k + 1)]
    BY SMT
  <2> DEFINE v == readUInt16(bytes, 2 * k)
  <2> HIDE DEF n
  <2>1. PICK m \in Int : c[k] + UINT16_MAX * m = OddByte(bytes) + t[2 * k]
    BY <1>6, SMT
  <2>2. 2 * k + 2 <= l /\ k + 1 \in 1..n /\ 2 * (k + 1) - 2 = 2 * k /\ (k + 1) - 1 = k /\ k \in 0..n
    BY <1>1, SMT
  <2>3. v \in Word
    BY <2>2, ReadIs, SMT
  <2>4. c[k + 1] = addHostUInt16(c[k], v) /\ c[k] \in Word
    BY <1>2, <2>2, Zenon
  <2>5. c[k + 1] = c[k] + v \/ c[k + 1] = c[k] + v - UINT16_MAX
    <3> HIDE DEF v
    <3>1. LET a == addHostUInt16(c[k], v) IN a = c[k] + v \/ a = c[k] + v - UINT16_MAX
      BY <2>3, <2>4, AddIs
    <3> QED BY <2>4, <3>1, SMT
  <2>6. t[2 * k + 2] = t[2 * k] + v /\ t[2 * k] \in Int
    <3> HIDE DEF l
    <3>1. t[2 * k + 1] = t[2 * k] + Worth(bytes, 2 * k + 1)
      <4>1. 2 * k + 1 \in 1..l /\ (2 * k + 1) - 1 = 2 * k
        BY <1>1, <2>2, SMT
      <4> QED BY <1>3, <4>1, Zenon
    <3>2. t[2 * k + 2] = t[2 * k + 1] + Worth(bytes, 2 * k + 2)
      <4>1. 2 * k + 2 \in 1..l /\ (2 * k + 2) - 1 = 2 * k + 1
        BY <1>1, <2>2, SMT
      <4> QED BY <1>3, <4>1, Zenon
    <3>3. t[2 * k] \in Int
      BY <1>1, <2>2, SMT
    <3>4. v = Worth(bytes, 2 * k + 1) + Worth(bytes, 2 * k + 2)
      BY <2>2, PairIs, Zenon DEF l
    <3>5. Worth(bytes, 2 * k + 1) \in Int /\ Worth(bytes, 2 * k + 2) \in Int
      <4>1. 2 * k + 1 \in 1..Len(bytes) /\ 2 * k + 2 \in 1..Len(bytes)
        BY <1>1, <2>2, SMT DEF l
      <4> QED BY <4>1, WorthType, Zenon
    <3>6. t[2 * k + 1] \in Int /\ t[2 * k + 2] \in Int
      <4>1. 2 * k + 1 \in 0..l /\ 2 * k + 2 \in 0..l
        BY <1>1, <2>2, SMT
      <4> QED BY <4>1, Zenon
    <3> HIDE DEF v
    <3>8. t[2 * k + 2] = t[2 * k] + (Worth(bytes, 2 * k + 1) + Worth(bytes, 2 * k + 2))
      BY ONLY <3>1, <3>2, <3>3, <3>5, <3>6, SMT
    <3> QED BY <3>3, <3>4, <3>8, Zenon
  <2>7. v \in Int /\ c[k] \in Int /\ c[k + 1] \in Int /\ 2 * (k + 1) = 2 * k + 2 /\ t[2 * k + 2] \in Int
    <3>1. c[k + 1] \in Word
      BY <2>2, SMT
    <3>2. 2 * k + 2 \in 0..l
      BY <1>1, <2>2, SMT
    <3>3. t[2 * k + 2] \in Int
      BY <3>2, Zenon
    <3>4. 2 * (k + 1) = 2 * k + 2
      BY SMT
    <3> HIDE DEF v
    <3> QED BY <2>3, <2>4, <3>1, <3>3, <3>4, Bounds, SMT
  <2> HIDE DEF v
  <2>8. \E j \in Int : c[k + 1] + UINT16_MAX * j = OddByte(bytes) + t[2 * k + 2]
    <3>1. PICK c0, c1, o, t0, t1 : /\ c0 = c[k] /\ c1 = c[k + 1] /\ o = OddByte(bytes)
                                   /\ t0 = t[2 * k] /\ t1 = t[2 * k + 2]
      BY Zenon
    <3>2. c0 \in Int /\ c1 \in Int /\ v \in Int /\ o \in Int /\ t0 \in Int /\ t1 \in Int
      BY <1>4, <2>6, <2>7, <3>1, Zenon
    <3>3. c0 + UINT16_MAX * m = o + t0 /\ t1 = t0 + v /\ (c1 = c0 + v \/ c1 = c0 + v - UINT16_MAX)
      BY <2>1, <2>5, <2>6, <3>1, Zenon
    <3>4. \E j \in Int : c1 + UINT16_MAX * j = o + t1
      BY ONLY <3>2, <3>3, m \in Int, Carry, SMT
    <3> QED BY <3>1, <3>4, Zenon
  <2> QED BY <2>7, <2>8, Zenon
<1>7. PICK m \in Int : c[n] + UINT16_MAX * m = OddByte(bytes) + t[2 * n]
  <2>1. n \in S
    <3> HIDE DEF S, n
    <3> QED BY <1>1, <1>5, <1>6, Induction, Zenon
  <2> QED BY <1>1, <2>1, SMT
<1>8. ByteSum(bytes) = OddByte(bytes) + t[2 * n]
  <2>1. CASE l % 2 = 1
    <3>1. l = 2 * n + 1 /\ OddByte(bytes) = 256 * bytes[l]
      BY <1>1, <2>1, HalfIs, OddIs, SMT
    <3>2. t[l] = t[l - 1] + Worth(bytes, l) /\ l - 1 = 2 * n
      <4> HIDE DEF l, n
      <4>1. l \in 1..l /\ l - 1 = 2 * n
        BY <1>1, <3>1, SMT
      <4> QED BY <1>3, <4>1, Zenon
    <3>3. Worth(bytes, l) = 256 * bytes[l]
      BY <2>1, Zenon DEF Worth
    <3>4. t[l - 1] \in Int
      <4> HIDE DEF l, n
      <4>1. l - 1 \in 0..l
        BY <1>1, <3>1, SMT
      <4> QED BY <4>1, Zenon
    <3> HIDE DEF l, n
    <3> QED BY <1>3, <1>4, <3>1, <3>2, <3>3, <3>4, SMT
  <2>2. CASE l % 2 # 1
    <3>1. l = 2 * n /\ OddByte(bytes) = 0
      BY <1>1, <2>2, HalfIs, OddIs, SMT
    <3>2. t[l] \in Int
      BY <1>1, SMT
    <3> HIDE DEF l, n
    <3> QED BY <1>3, <3>1, <3>2, SMT
  <2> QED BY <2>1, <2>2, Zenon
<1>9. c[n] \in Word /\ t[l] \in Int
  <2> HIDE DEF n, l
  <2> QED BY <1>1, SMT
<1> HIDE DEF n, l
<1> QED BY <1>2, <1>3, <1>7, <1>8, <1>9, SMT

(* Changing one byte changes the sum by the difference of what the two     *)
(* bytes are worth.                                                        *)
LEMMA OneByteChanged ==
  ASSUME NEW bytes \in Seq(Byte), NEW i \in 1..Len(bytes), NEW b \in Byte
  PROVE  LET new == [bytes EXCEPT ![i] = b]
         IN /\ new \in Seq(Byte) /\ Len(new) = Len(bytes)
            /\ ByteSum(new) = ByteSum(bytes) + (Worth(new, i) - Worth(bytes, i))
<1> DEFINE new == [bytes EXCEPT ![i] = b]
           n == Len(bytes)
           d == Worth(new, i) - Worth(bytes, i)
<1>1. new \in Seq(Byte) /\ Len(new) = n /\ n \in Nat
  BY SMT
<1>2. new[i] = b /\ \A j \in 1..n : j # i => new[j] = bytes[j]
  BY SMT
<1>3. PICK f \in [0..n -> Int] :
        /\ f[0] = 0
        /\ \A j \in 1..n : f[j] = f[j - 1] + Worth(bytes, j)
        /\ ByteSum(bytes) = f[n]
  BY ByteSumIs, Zenon
<1> HIDE DEF new
<1>4. PICK g \in [0..n -> Int] :
        /\ g[0] = 0
        /\ \A j \in 1..n : g[j] = g[j - 1] + Worth(new, j)
        /\ ByteSum(new) = g[n]
  BY <1>1, ByteSumIs, Zenon
<1>5. Worth(bytes, i) \in Int /\ Worth(new, i) \in Int /\ d \in Int
  <2>1. Worth(bytes, i) \in Int /\ Worth(new, i) \in Int
    BY <1>1, WorthType, Zenon
  <2> QED BY <2>1, SMT
<1> DEFINE S == {k \in Nat : k <= n => g[k] = f[k] + (IF i <= k THEN d ELSE 0)}
<1>6. 0 \in S
  BY <1>3, <1>4, SMT
<1>7. ASSUME NEW k \in Nat, k \in S PROVE k + 1 \in S
  <2> HIDE DEF n
  <2> SUFFICES ASSUME k + 1 <= n
               PROVE  g[k + 1] = f[k + 1] + (IF i <= k + 1 THEN d ELSE 0)
    BY SMT
  <2>1. k + 1 \in 1..n /\ k + 1 \in 0..n /\ k \in 0..n /\ (k + 1) - 1 = k /\ k <= n
    BY <1>1, SMT
  <2>2. f[k + 1] = f[k] + Worth(bytes, k + 1) /\ g[k + 1] = g[k] + Worth(new, k + 1)
    BY <1>3, <1>4, <2>1, Zenon
  <2>3. f[k] \in Int /\ g[k] \in Int
    BY <2>1, Zenon
  <2>4. g[k] = f[k] + (IF i <= k THEN d ELSE 0)
    <3> HIDE DEF d
    <3> QED BY <1>7, <2>1, Zenon
  <2>5. CASE k + 1 = i
    <3>1. ~(i <= k) /\ i <= k + 1
      BY <2>5, SMT
    <3>2. g[k] = f[k] + 0
      BY <2>4, <3>1, Zenon
    <3>3. f[k + 1] = f[k] + Worth(bytes, i) /\ g[k + 1] = g[k] + Worth(new, i)
      BY <2>2, <2>5, Zenon
    <3>4. g[k + 1] = f[k + 1] + d
      BY ONLY <1>5, <2>3, <3>2, <3>3, SMT
    <3> QED BY <3>1, <3>4, Zenon
  <2>6. CASE k + 1 # i
    <3>1. new[k + 1] = bytes[k + 1]
      BY <1>2, <2>1, <2>6, Zenon
    <3>2. Worth(new, k + 1) = Worth(bytes, k + 1)
      BY <3>1, Zenon DEF Worth
    <3>3. Worth(bytes, k + 1) \in Int
      BY <2>1, WorthType, Zenon DEF n
    <3>4. (i <= k + 1) <=> (i <= k)
      BY <2>6, SMT
    <3>5. CASE i <= k
      <4>1. g[k] = f[k] + d
        BY <2>4, <3>5, Zenon
      <4>2. g[k + 1] = f[k + 1] + d
        <5> HIDE DEF d
        <5> QED BY ONLY <1>5, <2>2, <2>3, <3>2, <3>3, <4>1, SMT
      <4> QED BY <3>4, <3>5, <4>2, Zenon
    <3>6. CASE ~(i <= k)
      <4>1. g[k] = f[k] + 0
        BY <2>4, <3>6, Zenon
      <4>2. g[k + 1] = f[k + 1] + 0
        BY ONLY <2>2, <2>3, <3>2, <3>3, <4>1, SMT
      <4> QED BY <3>4, <3>6, <4>2, Zenon
    <3> QED BY <3>5, <3>6
  <2> QED BY <2>5, <2>6
<1>8. g[n] = f[n] + d
  <2>1. n \in S
    <3> HIDE DEF S, n
    <3> QED BY <1>1, <1>6, <1>7, Induction, Zenon
  <2>2. n <= n /\ i <= n
    BY <1>1, SMT
  <2> HIDE DEF n, d
  <2> QED BY <2>1, <2>2, Zenon
<1> QED BY <1>1, <1>3, <1>4, <1>8, Zenon DEF new

-----------------------------------------------------------------------------
(* Bytes put together.                                                     *)

(* A buffer and the bytes written after it.                                *)
LEMMA Join ==
  ASSUME NEW s \in Seq(Byte), NEW t \in Seq(Byte)
  PROVE  /\ s \o t \in Seq(Byte) /\ Len(s \o t) = Len(s) + Len(t)
         /\ \A i \in 1..Len(s) : (s \o t)[i] = s[i]
         /\ \A i \in 1..Len(t) : (s \o t)[Len(s) + i] = t[i]
<1>1. /\ s \o t \in Seq(Byte) /\ Len(s \o t) = Len(s) + Len(t)
      /\ \A i \in 1..(Len(s) + Len(t)) : (s \o t)[i] = IF i <= Len(s) THEN s[i] ELSE t[i - Len(s)]
  BY ConcatProperties, Zenon
<1>2. Len(s) \in Nat /\ Len(t) \in Nat
  BY SMT
<1>3. ASSUME NEW i \in 1..Len(s) PROVE (s \o t)[i] = s[i]
  <2>1. i \in 1..(Len(s) + Len(t)) /\ i <= Len(s)
    BY <1>2, SMT
  <2> QED BY <1>1, <2>1, Zenon
<1>4. ASSUME NEW i \in 1..Len(t) PROVE (s \o t)[Len(s) + i] = t[i]
  <2>1. /\ Len(s) + i \in 1..(Len(s) + Len(t)) /\ ~(Len(s) + i <= Len(s))
        /\ (Len(s) + i) - Len(s) = i
    BY <1>2, SMT
  <2> QED BY <1>1, <2>1, Zenon
<1> QED BY <1>1, <1>3, <1>4, Zenon

(* What is read from it.                                                   *)
LEMMA JoinReads ==
  ASSUME NEW s \in Seq(Byte), NEW t \in Seq(Byte)
  PROVE  /\ \A pos \in Nat : pos + 2 <= Len(s) => readUInt16(s \o t, pos) = readUInt16(s, pos)
         /\ \A pos \in Nat : pos + 2 <= Len(t) =>
              readUInt16(s \o t, Len(s) + pos) = readUInt16(t, pos)
<1>1. Len(s) \in Nat /\ Len(t) \in Nat
  BY SMT
<1>2. ASSUME NEW pos \in Nat, pos + 2 <= Len(s)
      PROVE  readUInt16(s \o t, pos) = readUInt16(s, pos)
  <2>1. pos + 1 \in 1..Len(s) /\ pos + 2 \in 1..Len(s)
    BY <1>1, <1>2, SMT
  <2>2. (s \o t)[pos + 1] = s[pos + 1] /\ (s \o t)[pos + 2] = s[pos + 2]
    BY <2>1, Join, Zenon
  <2> QED BY <2>2, Zenon DEF readUInt16
<1>3. ASSUME NEW pos \in Nat, pos + 2 <= Len(t)
      PROVE  readUInt16(s \o t, Len(s) + pos) = readUInt16(t, pos)
  <2>1. /\ pos + 1 \in 1..Len(t) /\ pos + 2 \in 1..Len(t)
        /\ (Len(s) + pos) + 1 = Len(s) + (pos + 1) /\ (Len(s) + pos) + 2 = Len(s) + (pos + 2)
    BY <1>1, <1>3, SMT
  <2>2. /\ (s \o t)[Len(s) + (pos + 1)] = t[pos + 1]
        /\ (s \o t)[Len(s) + (pos + 2)] = t[pos + 2]
    BY <2>1, Join, Zenon
  <2> QED BY <2>1, <2>2, Zenon DEF readUInt16
<1> QED BY <1>2, <1>3, Zenon

(* A buffer of k bytes continued with the l bytes of t: what was written   *)
(* stays, and t follows.                                                   *)
Continues(new, s, k, t, l) ==
  /\ new \in Seq(Byte) /\ Len(new) = k + l
  /\ \A i \in 1..k : new[i] = s[i]
  /\ \A i \in 1..l : new[k + i] = t[i]
  /\ \A pos \in Nat : pos + 2 <= k => readUInt16(new, pos) = readUInt16(s, pos)
  /\ \A pos \in Nat : pos + 2 <= l => readUInt16(new, k + pos) = readUInt16(t, pos)

(* Both facts in one.                                                      *)
LEMMA Writes ==
  \A s, t \in Seq(Byte) : \A k, l : Len(s) = k /\ Len(t) = l => Continues(s \o t, s, k, t, l)
<1> SUFFICES ASSUME NEW s \in Seq(Byte), NEW t \in Seq(Byte)
             PROVE  Continues(s \o t, s, Len(s), t, Len(t))
  BY Zenon
<1>1. /\ s \o t \in Seq(Byte) /\ Len(s \o t) = Len(s) + Len(t)
      /\ \A i \in 1..Len(s) : (s \o t)[i] = s[i]
      /\ \A i \in 1..Len(t) : (s \o t)[Len(s) + i] = t[i]
  BY Join, Zenon
<1>2. /\ \A pos \in Nat : pos + 2 <= Len(s) => readUInt16(s \o t, pos) = readUInt16(s, pos)
      /\ \A pos \in Nat : pos + 2 <= Len(t) =>
           readUInt16(s \o t, Len(s) + pos) = readUInt16(t, pos)
  BY JoinReads, Zenon
<1> QED BY <1>1, <1>2, Zenon DEF Continues

(* The bytes of a number read back.                                        *)
LEMMA ReadsBack16 ==
  ASSUME NEW n \in Word
  PROVE  UInt16(n) \in Seq(Byte) /\ Len(UInt16(n)) = 2 /\ readUInt16(UInt16(n), 0) = n
<1>1. 0 + 1 = 1 /\ 0 + 2 = 2
  BY SMT
<1>2. readUInt16(UInt16(n), 0) = UInt16(n)[1] * 256 + UInt16(n)[2]
  BY <1>1, Zenon DEF readUInt16
<1> QED BY <1>2, UInt16Is, Zenon

(* So do those of a number written as two words.                           *)
LEMMA ReadsBack32 ==
  ASSUME NEW n, n.hi \in Word, n.lo \in Word
  PROVE  /\ UInt32(n) \in Seq(Byte) /\ Len(UInt32(n)) = 4
         /\ readUInt16(UInt32(n), 0) = n.hi /\ readUInt16(UInt32(n), 2) = n.lo
<1>1. /\ UInt16(n.hi) \in Seq(Byte) /\ Len(UInt16(n.hi)) = 2 /\ readUInt16(UInt16(n.hi), 0) = n.hi
      /\ UInt16(n.lo) \in Seq(Byte) /\ Len(UInt16(n.lo)) = 2 /\ readUInt16(UInt16(n.lo), 0) = n.lo
  BY ReadsBack16, Zenon
<1>2. Continues(UInt32(n), UInt16(n.hi), 2, UInt16(n.lo), 2)
  BY <1>1, Writes, Zenon DEF UInt32
<1>3. 2 + 2 = 4 /\ 0 + 2 <= 2 /\ 2 + 0 = 2 /\ 0 \in Nat
  BY SMT
<1> QED BY <1>1, <1>2, <1>3, Zenon DEF Continues

-----------------------------------------------------------------------------
(* Segments.                                                               *)

Segments ==
  [source : Endpoints, destination : Endpoints, sequence : [hi : Halves, lo : Halves],
   acknowledgment : [hi : Halves, lo : Halves], flags : Flags, window : {UINT16_MAX},
   data : Payloads]

(* What the fields of a segment are.                                       *)
LEMMA SegmentFields ==
  ASSUME NEW seg \in Segments
  PROVE  /\ seg.source.port \in Word /\ seg.destination.port \in Word
         /\ seg.source.ip.hi \in Word /\ seg.source.ip.lo \in Word
         /\ seg.destination.ip.hi \in Word /\ seg.destination.ip.lo \in Word
         /\ seg.sequence.hi \in Word /\ seg.sequence.lo \in Word
         /\ seg.acknowledgment.hi \in Word /\ seg.acknowledgment.lo \in Word
         /\ seg.flags \in Byte /\ seg.window \in Word
         /\ seg.data \in Seq(Byte) /\ Len(seg.data) <= kMaxSegmentSize
<1>1. seg.source \in Endpoints /\ seg.destination \in Endpoints
  BY Zenon DEF Segments
<1>2. \A e \in Endpoints : e.port \in Word /\ e.ip.hi \in Word /\ e.ip.lo \in Word
  <2>1. Ports \subseteq Word /\ Addresses \subseteq [hi : Word, lo : Word]
    BY SegmentAssumption, Zenon
  <2>2. \A e \in Endpoints : e.port \in Ports /\ e.ip \in Addresses
    BY Zenon DEF Endpoints
  <2>3. \A a \in Addresses : a.hi \in Word /\ a.lo \in Word
    BY <2>1, Zenon
  <2> QED BY <2>1, <2>2, <2>3, Zenon
<1>3. Halves \subseteq Word /\ Flags \subseteq Byte
  BY SegmentAssumption, Zenon
<1>4. /\ seg.sequence.hi \in Word /\ seg.sequence.lo \in Word
      /\ seg.acknowledgment.hi \in Word /\ seg.acknowledgment.lo \in Word
  <2>1. seg.sequence \in [hi : Halves, lo : Halves] /\ seg.acknowledgment \in [hi : Halves, lo : Halves]
    BY Zenon DEF Segments
  <2> QED BY <1>3, <2>1, Zenon
<1>5. seg.flags \in Byte
  BY <1>3, Zenon DEF Segments
<1>6. seg.window \in Word
  <2>1. seg.window = UINT16_MAX
    BY Zenon DEF Segments
  <2> QED BY <2>1, Bounds, SMT DEF UINT16_MAX
<1>7. seg.data \in Seq(Byte) /\ Len(seg.data) <= kMaxSegmentSize
  <2>1. PICK m \in 0..kMaxSegmentSize : seg.data \in [1..m -> PayloadBytes]
    <3>1. seg.data \in Payloads
      BY Zenon DEF Segments
    <3> QED BY <3>1, Zenon DEF Payloads
  <2>2. PayloadBytes \subseteq Byte /\ kMaxSegmentSize \in Int
    BY SegmentAssumption, SMT
  <2> QED BY <2>1, <2>2, SMT
<1> QED BY <1>1, <1>2, <1>4, <1>5, <1>6, <1>7, Zenon

(* The header, field by field.                                             *)
LEMMA HeaderIs ==
  ASSUME NEW seg \in Segments
  PROVE  LET h == Header(seg)
         IN /\ h \in Seq(Byte) /\ Len(h) = 20
            /\ readUInt16(h, 0) = seg.source.port /\ readUInt16(h, 2) = seg.destination.port
            /\ readUInt16(h, 4) = seg.sequence.hi /\ readUInt16(h, 6) = seg.sequence.lo
            /\ readUInt16(h, 8) = seg.acknowledgment.hi
            /\ readUInt16(h, 10) = seg.acknowledgment.lo
            /\ h[13] = DataOffset /\ h[14] = seg.flags
            /\ readUInt16(h, 14) = seg.window
            /\ h[17] = 0 /\ h[18] = 0
<1> DEFINE h2 == UInt16(seg.source.port) \o UInt16(seg.destination.port)
           h3 == h2 \o UInt32(seg.sequence)
           h4 == h3 \o UInt32(seg.acknowledgment)
           c == <<DataOffset, seg.flags>>
           h5 == h4 \o c
           h6 == h5 \o UInt16(seg.window)
           h7 == h6 \o UInt16(0)
           h8 == h7 \o UInt16(0)
<1>0. Header(seg) = h8
  BY Zenon DEF Header
<1>1. /\ h2 \in Seq(Byte) /\ Len(h2) = 4
      /\ readUInt16(h2, 0) = seg.source.port /\ readUInt16(h2, 2) = seg.destination.port
  <2> DEFINE s == UInt16(seg.source.port)
             t == UInt16(seg.destination.port)
  <2>1. /\ s \in Seq(Byte) /\ Len(s) = 2 /\ readUInt16(s, 0) = seg.source.port
        /\ t \in Seq(Byte) /\ Len(t) = 2 /\ readUInt16(t, 0) = seg.destination.port
    BY SegmentFields, ReadsBack16, Zenon
  <2> HIDE DEF s, t
  <2>2. Continues(s \o t, s, 2, t, 2)
    BY <2>1, Writes, Zenon
  <2>3. 2 + 2 = 4 /\ 0 + 2 <= 2 /\ 2 + 0 = 2 /\ 0 \in Nat
    BY SMT
  <2>4. h2 = s \o t
    BY Zenon DEF s, t
  <2> QED BY <2>1, <2>2, <2>3, <2>4, Zenon DEF Continues
<1> HIDE DEF h2
<1>2. /\ h3 \in Seq(Byte) /\ Len(h3) = 8
      /\ readUInt16(h3, 0) = seg.source.port /\ readUInt16(h3, 2) = seg.destination.port
      /\ readUInt16(h3, 4) = seg.sequence.hi /\ readUInt16(h3, 6) = seg.sequence.lo
  <2> DEFINE t == UInt32(seg.sequence)
  <2>1. /\ t \in Seq(Byte) /\ Len(t) = 4
        /\ readUInt16(t, 0) = seg.sequence.hi /\ readUInt16(t, 2) = seg.sequence.lo
    BY SegmentFields, ReadsBack32, Zenon
  <2> HIDE DEF t
  <2>2. Continues(h2 \o t, h2, 4, t, 4)
    BY <1>1, <2>1, Writes, Zenon
  <2>3. /\ 4 + 4 = 8 /\ 0 + 2 <= 4 /\ 2 + 2 <= 4 /\ 4 + 0 = 4 /\ 4 + 2 = 6
        /\ 0 \in Nat /\ 2 \in Nat
    BY SMT
  <2>4. h3 = h2 \o t
    BY Zenon DEF t
  <2> HIDE DEF h3
  <2> QED BY <1>1, <2>1, <2>2, <2>3, <2>4, Zenon DEF Continues
<1> HIDE DEF h3
<1>3. /\ h4 \in Seq(Byte) /\ Len(h4) = 12
      /\ readUInt16(h4, 0) = seg.source.port /\ readUInt16(h4, 2) = seg.destination.port
      /\ readUInt16(h4, 4) = seg.sequence.hi /\ readUInt16(h4, 6) = seg.sequence.lo
      /\ readUInt16(h4, 8) = seg.acknowledgment.hi /\ readUInt16(h4, 10) = seg.acknowledgment.lo
  <2> DEFINE t == UInt32(seg.acknowledgment)
  <2>1. /\ t \in Seq(Byte) /\ Len(t) = 4
        /\ readUInt16(t, 0) = seg.acknowledgment.hi /\ readUInt16(t, 2) = seg.acknowledgment.lo
    BY SegmentFields, ReadsBack32, Zenon
  <2> HIDE DEF t
  <2>2. Continues(h3 \o t, h3, 8, t, 4)
    BY <1>2, <2>1, Writes, Zenon
  <2>3. /\ 8 + 4 = 12 /\ 0 + 2 <= 8 /\ 2 + 2 <= 8 /\ 4 + 2 <= 8 /\ 6 + 2 <= 8
        /\ 8 + 0 = 8 /\ 8 + 2 = 10 /\ 0 + 2 <= 4 /\ 2 + 2 <= 4
        /\ 0 \in Nat /\ 2 \in Nat /\ 4 \in Nat /\ 6 \in Nat
    BY SMT
  <2>4. h4 = h3 \o t
    BY Zenon DEF t
  <2> HIDE DEF h4
  <2> QED BY <1>2, <2>1, <2>2, <2>3, <2>4, Zenon DEF Continues
<1> HIDE DEF h4
<1>4. /\ h5 \in Seq(Byte) /\ Len(h5) = 14 /\ h5[13] = DataOffset /\ h5[14] = seg.flags
      /\ \A pos \in Nat : pos + 2 <= 12 => readUInt16(h5, pos) = readUInt16(h4, pos)
  <2>1. c \in Seq(Byte) /\ Len(c) = 2 /\ c[1] = DataOffset /\ c[2] = seg.flags
    <3>1. DataOffset \in Byte
      BY Bounds, SMT DEF DataOffset
    <3>2. seg.flags \in Byte
      BY SegmentFields, Zenon
    <3> QED BY <3>1, <3>2, SMT
  <2> HIDE DEF c
  <2>2. Continues(h5, h4, 12, c, 2)
    BY <1>3, <2>1, Writes, Zenon
  <2>3. 12 + 2 = 14 /\ 12 + 1 = 13 /\ 1 \in 1..2 /\ 2 \in 1..2
    BY SMT
  <2> HIDE DEF h5
  <2> QED BY <1>3, <2>1, <2>2, <2>3, Zenon DEF Continues
<1> HIDE DEF h5
<1>5. /\ h6 \in Seq(Byte) /\ Len(h6) = 16 /\ readUInt16(h6, 14) = seg.window
      /\ \A i \in 1..14 : h6[i] = h5[i]
      /\ \A pos \in Nat : pos + 2 <= 14 => readUInt16(h6, pos) = readUInt16(h5, pos)
  <2> DEFINE t == UInt16(seg.window)
  <2>1. t \in Seq(Byte) /\ Len(t) = 2 /\ readUInt16(t, 0) = seg.window
    BY SegmentFields, ReadsBack16, Zenon
  <2>2. h6 = h5 \o t
    BY Zenon
  <2> HIDE DEF t, h6
  <2>3. Continues(h6, h5, 14, t, 2)
    BY <1>4, <2>1, <2>2, Writes, Zenon
  <2>4. 14 + 2 = 16 /\ 14 + 0 = 14 /\ 0 + 2 <= 2 /\ 0 \in Nat
    BY SMT
  <2> QED BY <1>4, <2>1, <2>3, <2>4, Zenon DEF Continues
<1> HIDE DEF h6
<1>6. UInt16(0) \in Seq(Byte) /\ Len(UInt16(0)) = 2 /\ UInt16(0)[1] = 0 /\ UInt16(0)[2] = 0
  <2>1. 0 \in Word
    BY Bounds, SMT
  <2>2. 0 \div 256 = 0 /\ 0 % 256 = 0
    BY SMT
  <2> QED BY <2>1, <2>2, UInt16Is, SMT DEF UInt16
<1>7. /\ h7 \in Seq(Byte) /\ Len(h7) = 18 /\ h7[17] = 0 /\ h7[18] = 0
      /\ \A i \in 1..16 : h7[i] = h6[i]
      /\ \A pos \in Nat : pos + 2 <= 16 => readUInt16(h7, pos) = readUInt16(h6, pos)
  <2> DEFINE t == UInt16(0)
  <2>1. t \in Seq(Byte) /\ Len(t) = 2 /\ t[1] = 0 /\ t[2] = 0 /\ h7 = h6 \o t
    BY <1>6, Zenon
  <2> HIDE DEF t, h7
  <2>2. Continues(h7, h6, 16, t, 2)
    BY <1>5, <2>1, Writes, Zenon
  <2>3. 16 + 2 = 18 /\ 16 + 1 = 17 /\ 1 \in 1..2 /\ 2 \in 1..2
    BY SMT
  <2> QED BY <1>5, <2>1, <2>2, <2>3, Zenon DEF Continues
<1> HIDE DEF h7
<1>8. /\ h8 \in Seq(Byte) /\ Len(h8) = 20
      /\ \A i \in 1..18 : h8[i] = h7[i]
      /\ \A pos \in Nat : pos + 2 <= 18 => readUInt16(h8, pos) = readUInt16(h7, pos)
  <2> DEFINE t == UInt16(0)
  <2>1. t \in Seq(Byte) /\ Len(t) = 2 /\ h8 = h7 \o t
    BY <1>6, Zenon
  <2> HIDE DEF t, h8
  <2>2. Continues(h8, h7, 18, t, 2)
    BY <1>7, <2>1, Writes, Zenon
  <2>3. 18 + 2 = 20
    BY SMT
  <2> QED BY <1>7, <2>1, <2>2, <2>3, Zenon DEF Continues
<1> HIDE DEF h8
<1>9. h8[13] = DataOffset /\ h8[14] = seg.flags /\ h8[17] = 0 /\ h8[18] = 0
  <2>1. /\ 13 \in 1..14 /\ 14 \in 1..14 /\ 13 \in 1..16 /\ 14 \in 1..16
        /\ 13 \in 1..18 /\ 14 \in 1..18 /\ 17 \in 1..18 /\ 18 \in 1..18
    BY SMT
  <2>2. h6[13] = DataOffset /\ h6[14] = seg.flags
    BY <1>4, <1>5, <2>1, Zenon
  <2>3. h7[13] = DataOffset /\ h7[14] = seg.flags
    BY <1>7, <2>1, <2>2, Zenon
  <2>4. h8[13] = DataOffset /\ h8[14] = seg.flags
    BY <1>8, <2>1, <2>3, Zenon
  <2>5. h8[17] = 0 /\ h8[18] = 0
    BY <1>7, <1>8, <2>1, Zenon
  <2> QED BY <2>4, <2>5, Zenon
<1>10. \A pos \in Nat : pos + 2 <= 12 => readUInt16(h8, pos) = readUInt16(h4, pos)
  <2>1. \A pos \in Nat : pos + 2 <= 12 => pos + 2 <= 14 /\ pos + 2 <= 16 /\ pos + 2 <= 18
    BY SMT
  <2>2. \A pos \in Nat : pos + 2 <= 12 => readUInt16(h6, pos) = readUInt16(h4, pos)
    BY <1>4, <1>5, <2>1, Zenon
  <2>3. \A pos \in Nat : pos + 2 <= 12 => readUInt16(h7, pos) = readUInt16(h4, pos)
    BY <1>7, <2>1, <2>2, Zenon
  <2> QED BY <1>8, <2>1, <2>3, Zenon
<1>11. readUInt16(h8, 14) = seg.window
  <2>1. 14 \in Nat /\ 14 + 2 <= 16 /\ 14 + 2 <= 18
    BY SMT
  <2> QED BY <1>5, <1>7, <1>8, <2>1, Zenon
<1>12. /\ readUInt16(h8, 0) = seg.source.port /\ readUInt16(h8, 2) = seg.destination.port
       /\ readUInt16(h8, 4) = seg.sequence.hi /\ readUInt16(h8, 6) = seg.sequence.lo
       /\ readUInt16(h8, 8) = seg.acknowledgment.hi
       /\ readUInt16(h8, 10) = seg.acknowledgment.lo
  <2>1. /\ 0 \in Nat /\ 2 \in Nat /\ 4 \in Nat /\ 6 \in Nat /\ 8 \in Nat /\ 10 \in Nat
        /\ 0 + 2 <= 12 /\ 2 + 2 <= 12 /\ 4 + 2 <= 12 /\ 6 + 2 <= 12 /\ 8 + 2 <= 12 /\ 10 + 2 <= 12
    BY SMT
  <2> QED BY <1>3, <1>10, <2>1, Zenon
<1> QED BY <1>0, <1>8, <1>9, <1>11, <1>12, Zenon

-----------------------------------------------------------------------------
(* What is written is parsed back.                                         *)

(* A segment is its fields.                                                *)
LEMMA SegmentRecord ==
  ASSUME NEW seg \in Segments
  PROVE  seg = [source |-> [ip |-> seg.source.ip, port |-> seg.source.port],
                destination |-> [ip |-> seg.destination.ip, port |-> seg.destination.port],
                sequence |-> [hi |-> seg.sequence.hi, lo |-> seg.sequence.lo],
                acknowledgment |-> [hi |-> seg.acknowledgment.hi, lo |-> seg.acknowledgment.lo],
                flags |-> seg.flags, window |-> seg.window, data |-> seg.data]
<1>1. \A e \in Endpoints : e = [ip |-> e.ip, port |-> e.port]
  BY SMT DEF Endpoints
<1>2. \A n \in [hi : Halves, lo : Halves] : n = [hi |-> n.hi, lo |-> n.lo]
  BY SMT
<1>3. seg = [source |-> seg.source, destination |-> seg.destination,
             sequence |-> seg.sequence, acknowledgment |-> seg.acknowledgment,
             flags |-> seg.flags, window |-> seg.window, data |-> seg.data]
  BY SMT DEF Segments
<1>4. /\ seg.source \in Endpoints /\ seg.destination \in Endpoints
      /\ seg.sequence \in [hi : Halves, lo : Halves]
      /\ seg.acknowledgment \in [hi : Halves, lo : Halves]
  BY Zenon DEF Segments
<1>5. /\ seg.source = [ip |-> seg.source.ip, port |-> seg.source.port]
      /\ seg.destination = [ip |-> seg.destination.ip, port |-> seg.destination.port]
      /\ seg.sequence = [hi |-> seg.sequence.hi, lo |-> seg.sequence.lo]
      /\ seg.acknowledgment = [hi |-> seg.acknowledgment.hi, lo |-> seg.acknowledgment.lo]
  BY <1>1, <1>2, <1>4, Zenon
<1> QED BY <1>3, <1>5, Zenon

(* The end of a buffer.                                                    *)
LEMMA Tails ==
  ASSUME NEW buf \in Seq(Byte), NEW data \in Seq(Byte), NEW k \in Nat,
         Len(buf) = k + Len(data),
         \A i \in 1..Len(data) : buf[k + i] = data[i]
  PROVE  SubSeq(buf, k + 1, Len(buf)) = data
<1> DEFINE r == SubSeq(buf, k + 1, Len(buf))
<1>1. Len(data) \in Nat /\ Len(buf) \in Nat
  BY SMT
<1>2. k + 1 \in Int /\ Len(buf) \in Int /\ \A i \in (k + 1)..Len(buf) : buf[i] \in Byte
  BY <1>1, SMT
<1>3. /\ r \in Seq(Byte)
      /\ Len(r) = IF k + 1 <= Len(buf) THEN Len(buf) - (k + 1) + 1 ELSE 0
      /\ \A i \in 1..(Len(buf) - (k + 1) + 1) : r[i] = buf[(k + 1) + i - 1]
  BY <1>2, SMT
<1> HIDE DEF r
<1>4. Len(r) = Len(data)
  BY <1>1, <1>3, SMT
<1>5. ASSUME NEW i \in 1..Len(data) PROVE r[i] = data[i]
  <2>1. i \in 1..(Len(buf) - (k + 1) + 1) /\ (k + 1) + i - 1 = k + i
    BY <1>1, SMT
  <2> QED BY <1>3, <2>1, Zenon
<1>6. r = data
  BY <1>3, <1>4, <1>5, SMT
<1> QED BY <1>6, Zenon DEF r

(* A buffer with the fields of a segment, n words of options and its data  *)
(* is parsed as the segment.                                               *)
LEMMA ParsesAs ==
  ASSUME NEW seg \in Segments, NEW n \in Nat, NEW buf \in Seq(Byte),
         Len(buf) = (20 + 4 * n) + Len(seg.data),
         buf[13] = (5 + n) * 16,
         \A i \in 1..16 : i # 13 => buf[i] = Header(seg)[i],
         \A i \in 1..Len(seg.data) : buf[(20 + 4 * n) + i] = seg.data[i]
  PROVE  parse(seg.source.ip, seg.destination.ip, buf) = seg
<1> DEFINE h == Header(seg)
<1>1. \A pos \in {0, 2, 4, 6, 8, 10, 14} : readUInt16(buf, pos) = readUInt16(h, pos)
  <2> SUFFICES ASSUME NEW pos \in {0, 2, 4, 6, 8, 10, 14}
               PROVE  readUInt16(buf, pos) = readUInt16(h, pos)
    BY Zenon
  <2>1. pos + 1 \in 1..16 /\ pos + 2 \in 1..16 /\ pos + 1 # 13 /\ pos + 2 # 13
    BY SMT
  <2>2. buf[pos + 1] = h[pos + 1] /\ buf[pos + 2] = h[pos + 2]
    BY <2>1, Zenon
  <2> HIDE DEF h
  <2> QED BY <2>2, Zenon DEF readUInt16
<1>2. buf[14] = seg.flags
  <2>1. 14 \in 1..16 /\ 14 # 13
    BY SMT
  <2>2. h[14] = seg.flags
    BY HeaderIs, Zenon
  <2> QED BY <2>1, <2>2, Zenon
<1>3. /\ readUInt16(buf, 0) = seg.source.port /\ readUInt16(buf, 2) = seg.destination.port
      /\ readUInt16(buf, 4) = seg.sequence.hi /\ readUInt16(buf, 6) = seg.sequence.lo
      /\ readUInt16(buf, 8) = seg.acknowledgment.hi
      /\ readUInt16(buf, 10) = seg.acknowledgment.lo
      /\ readUInt16(buf, 14) = seg.window
  <2> HIDE DEF h
  <2>1. /\ readUInt16(h, 0) = seg.source.port /\ readUInt16(h, 2) = seg.destination.port
        /\ readUInt16(h, 4) = seg.sequence.hi /\ readUInt16(h, 6) = seg.sequence.lo
        /\ readUInt16(h, 8) = seg.acknowledgment.hi
        /\ readUInt16(h, 10) = seg.acknowledgment.lo
        /\ readUInt16(h, 14) = seg.window
    BY HeaderIs, Zenon DEF h
  <2> QED BY <1>1, <2>1, Zenon
<1>4. buf[13] \div 4 = 20 + 4 * n
  <2>1. (5 + n) * 16 = 4 * (20 + 4 * n)
    BY SMT
  <2>2. \A k \in Nat : (4 * k) \div 4 = k
    BY SMT
  <2>3. 20 + 4 * n \in Nat
    BY SMT
  <2> QED BY <2>1, <2>2, <2>3, Zenon
<1>5. SubSeq(buf, (buf[13] \div 4) + 1, Len(buf)) = seg.data
  <2>1. 20 + 4 * n \in Nat
    BY SMT
  <2>2. seg.data \in Seq(Byte)
    BY SegmentFields, Zenon
  <2>3. SubSeq(buf, (20 + 4 * n) + 1, Len(buf)) = seg.data
    BY <2>1, <2>2, Tails, Zenon
  <2> QED BY <1>4, <2>3, Zenon
<1>6. readUInt32(buf, 4) = [hi |-> seg.sequence.hi, lo |-> seg.sequence.lo]
  <2>1. 4 + 2 = 6
    BY SMT
  <2> QED BY <1>3, <2>1, Zenon DEF readUInt32
<1>7. readUInt32(buf, 8) = [hi |-> seg.acknowledgment.hi, lo |-> seg.acknowledgment.lo]
  <2>1. 8 + 2 = 10
    BY SMT
  <2> QED BY <1>3, <2>1, Zenon DEF readUInt32
<1>8. parse(seg.source.ip, seg.destination.ip, buf)
        = [source |-> [ip |-> seg.source.ip, port |-> seg.source.port],
           destination |-> [ip |-> seg.destination.ip, port |-> seg.destination.port],
           sequence |-> [hi |-> seg.sequence.hi, lo |-> seg.sequence.lo],
           acknowledgment |-> [hi |-> seg.acknowledgment.hi, lo |-> seg.acknowledgment.lo],
           flags |-> seg.flags, window |-> seg.window, data |-> seg.data]
  BY <1>2, <1>3, <1>5, <1>6, <1>7, Zenon DEF parse
<1> QED BY <1>8, SegmentRecord, Zenon

(* The bytes before the checksum is put in: nothing was refused.           *)
LEMMA BytesAre ==
  ASSUME NEW seg \in Segments
  PROVE  LET bytes == writeBytes(Header(seg), seg.data)
         IN /\ bytes \in Seq(Byte) /\ Len(bytes) = 20 + Len(seg.data)
            /\ \A i \in 1..20 : bytes[i] = Header(seg)[i]
            /\ \A i \in 1..Len(seg.data) : bytes[20 + i] = seg.data[i]
<1>1. Header(seg) \in Seq(Byte) /\ Len(Header(seg)) = 20
  BY HeaderIs, Zenon
<1>2. seg.data \in Seq(Byte) /\ Len(seg.data) <= kMaxSegmentSize
  BY SegmentFields, Zenon
<1>3. ~(20 + Len(seg.data) > kMaxTCPPacketLength)
  BY <1>2, SegmentAssumption, SMT DEF kMaxTCPPacketLength, kTcpHeaderLength
<1>4. writeBytes(Header(seg), seg.data) = Header(seg) \o seg.data
  BY <1>1, <1>3, Zenon DEF writeBytes
<1>5. Continues(Header(seg) \o seg.data, Header(seg), 20, seg.data, Len(seg.data))
  BY <1>1, <1>2, Writes, Zenon
<1> QED BY <1>4, <1>5, Zenon DEF Continues

(* What the pseudo header of a segment adds to its sum.                    *)
Pseudo(seg) ==
  seg.source.ip.hi + seg.source.ip.lo + seg.destination.ip.hi
    + seg.destination.ip.lo + TCP + (20 + Len(seg.data))

(* The length of a segment fits into 16 bits.                              *)
LEMMA LengthIs ==
  ASSUME NEW seg \in Segments
  PROVE  tcp_length(seg) = 20 + Len(seg.data) /\ tcp_length(seg) \in Word
<1>1. Len(seg.data) \in Nat /\ Len(seg.data) <= kMaxSegmentSize
  BY SegmentFields, SMT
<1>2. 20 + Len(seg.data) <= 65535
  BY <1>1, SegmentAssumption, SMT DEF kTcpHeaderLength, UINT16_MAX
<1>3. PICK k : k = Len(seg.data) + 20
  BY Zenon
<1>4. k \in Int /\ 0 <= k /\ k <= 65535
  BY <1>1, <1>2, <1>3, SMT
<1>5. k % (UINT16_MAX + 1) = k
  BY <1>4, SMT DEF UINT16_MAX
<1>6. tcp_length(seg) = k
  BY <1>3, <1>5, Zenon DEF tcp_length, kTcpHeaderLength
<1> QED BY <1>1, <1>3, <1>4, <1>6, Bounds, SMT

(* The pseudo header is a number.                                          *)
LEMMA PseudoType ==
  ASSUME NEW seg \in Segments
  PROVE  Pseudo(seg) \in Int
<1>1. /\ seg.source.ip.hi \in Int /\ seg.source.ip.lo \in Int
      /\ seg.destination.ip.hi \in Int /\ seg.destination.ip.lo \in Int
  BY SegmentFields, Bounds, SMT
<1>2. Len(seg.data) \in Int /\ TCP \in Int
  BY SegmentFields, SMT DEF TCP
<1>3. \A a, b \in Int : a + b \in Int
  BY SMT
<1>4. 20 + Len(seg.data) \in Int
  BY <1>2, SMT
<1> QED BY <1>1, <1>2, <1>3, <1>4, Zenon DEF Pseudo

(* Adding a word to a sum that is equal to t modulo UINT16_MAX.            *)
LEMMA AddCongruent ==
  ASSUME NEW s \in Word, NEW t \in Int, NEW v \in Word,
         \E m \in Int : s + UINT16_MAX * m = t
  PROVE  /\ addHostUInt16(s, v) \in Word
         /\ \E m \in Int : addHostUInt16(s, v) + UINT16_MAX * m = t + v
<1>1. PICK m \in Int : s + UINT16_MAX * m = t
  BY Zenon
<1>2. PICK a : a = addHostUInt16(s, v)
  BY Zenon
<1>3. a \in Word /\ (a = s + v \/ a = s + v - UINT16_MAX)
  BY <1>2, AddIs, Zenon
<1>4. s \in Int /\ v \in Int /\ a \in Int
  BY <1>3, Bounds, SMT
<1>5. a + UINT16_MAX * m = t + v \/ a + UINT16_MAX * (m + 1) = t + v
  BY <1>1, <1>3, <1>4, SMT DEF UINT16_MAX
<1>6. m + 1 \in Int
  BY SMT
<1> QED BY <1>2, <1>3, <1>5, <1>6, Zenon

(* The sum of a segment is a word, and modulo UINT16_MAX the sum of its    *)
(* bytes and of the pseudo header.                                         *)
LEMMA SegmentSumIs ==
  ASSUME NEW seg \in Segments, NEW bytes \in Seq(Byte)
  PROVE  /\ SegmentSum(seg, bytes) \in Word
         /\ \E m \in Int : SegmentSum(seg, bytes) + UINT16_MAX * m = ByteSum(bytes) + Pseudo(seg)
<1> DEFINE s0 == Checksum(bytes)
           s1 == addHostUInt16(s0, seg.source.ip.lo)
           s2 == addHostUInt16(s1, seg.source.ip.hi)
           s3 == addHostUInt16(s2, seg.destination.ip.lo)
           s4 == addHostUInt16(s3, seg.destination.ip.hi)
           s5 == addHostUInt16(s4, TCP)
           s6 == addHostUInt16(s5, tcp_length(seg))
           Cong(s, t) == s \in Word /\ t \in Int /\ \E m \in Int : s + UINT16_MAX * m = t
           b == ByteSum(bytes)
           t1 == b + seg.source.ip.lo
           t2 == t1 + seg.source.ip.hi
           t3 == t2 + seg.destination.ip.lo
           t4 == t3 + seg.destination.ip.hi
           t5 == t4 + TCP
           t6 == t5 + tcp_length(seg)
<1>1. SegmentSum(seg, bytes) = s6
  BY Zenon DEF SegmentSum, addIPAddress
<1>2. ASSUME NEW s, NEW t, NEW v \in Word, Cong(s, t) PROVE Cong(addHostUInt16(s, v), t + v)
  <2>1. v \in Int
    BY Bounds, SMT
  <2>2. t + v \in Int
    BY <1>2, <2>1, SMT
  <2> QED BY <1>2, <2>2, AddCongruent, Zenon
<1>3. Cong(s0, b)
  BY SumsAgree, Zenon
<1> HIDE DEF Cong
<1>4. /\ seg.source.ip.hi \in Word /\ seg.source.ip.lo \in Word
      /\ seg.destination.ip.hi \in Word /\ seg.destination.ip.lo \in Word
  BY SegmentFields, Zenon
<1>5. TCP \in Word
  BY Bounds, SMT DEF TCP
<1>6. tcp_length(seg) \in Word /\ tcp_length(seg) = 20 + Len(seg.data)
  BY LengthIs, Zenon
<1> HIDE DEF s0, b
<1>7. Cong(s1, t1)
  BY <1>2, <1>3, <1>4, Zenon
<1> HIDE DEF s1, t1
<1>8. Cong(s2, t2)
  BY <1>2, <1>4, <1>7, Zenon
<1> HIDE DEF s2, t2
<1>9. Cong(s3, t3)
  BY <1>2, <1>4, <1>8, Zenon
<1> HIDE DEF s3, t3
<1>10. Cong(s4, t4)
  BY <1>2, <1>4, <1>9, Zenon
<1> HIDE DEF s4, t4
<1>11. Cong(s5, t5)
  BY <1>2, <1>5, <1>10, Zenon
<1> HIDE DEF s5, t5
<1>12. Cong(s6, t6)
  BY <1>2, <1>6, <1>11, Zenon
<1>13. t6 = b + Pseudo(seg)
  <2>1. b \in Int
    BY <1>3, Zenon DEF Cong
  <2>2. /\ seg.source.ip.hi \in Int /\ seg.source.ip.lo \in Int
        /\ seg.destination.ip.hi \in Int /\ seg.destination.ip.lo \in Int
        /\ TCP \in Int /\ tcp_length(seg) \in Int
    <3>1. \A n \in Word : n \in Int
      BY ONLY Bounds, SMT
    <3> QED BY <1>4, <1>5, <1>6, <3>1, Zenon
  <2>3. PICK a, c, d, e, f, g : /\ a = seg.source.ip.hi /\ c = seg.source.ip.lo
                                /\ d = seg.destination.ip.hi /\ e = seg.destination.ip.lo
                                /\ f = TCP /\ g = tcp_length(seg)
    BY Zenon
  <2>4. a \in Int /\ c \in Int /\ d \in Int /\ e \in Int /\ f \in Int /\ g \in Int
    BY <2>2, <2>3, Zenon
  <2>5. t6 = ((((((b + c) + a) + e) + d) + f) + g)
    BY <2>3, Zenon DEF t5, t4, t3, t2, t1
  <2>6. Pseudo(seg) = a + c + d + e + f + g
    BY <1>6, <2>3, Zenon DEF Pseudo
  <2> HIDE DEF t6
  <2> QED BY <2>1, <2>4, <2>5, <2>6, SMT
<1> QED BY <1>1, <1>12, <1>13, Zenon DEF Cong, b

-----------------------------------------------------------------------------
(* The checksum on the wire.                                               *)

(* What bytes at odd and even positions are worth.                         *)
LEMMA Worth1718 ==
  ASSUME NEW bytes \in Seq(Byte), 20 <= Len(bytes)
  PROVE  Worth(bytes, 17) = 256 * bytes[17] /\ Worth(bytes, 18) = bytes[18]
<1>1. 17 % 2 = 1
  BY SMT
<1>2. 18 % 2 = 0
  BY SMT
<1> QED BY <1>1, <1>2, SMT DEF Worth

(* Putting the complement of a sum into an empty checksum field adds it to *)
(* the sum of the bytes, and changes nothing else.                         *)
LEMMA ChecksumPut ==
  ASSUME NEW bytes \in Seq(Byte), 20 <= Len(bytes), bytes[17] = 0, bytes[18] = 0,
         NEW sum \in Word
  PROVE  LET w == writeChecksum(bytes, 16, sum)
         IN /\ w \in Seq(Byte) /\ Len(w) = Len(bytes)
            /\ \A i \in 1..Len(bytes) : i # 17 /\ i # 18 => w[i] = bytes[i]
            /\ ByteSum(w) = ByteSum(bytes) + (UINT16_MAX - sum)
<1> DEFINE x == UInt16(UINT16_MAX - sum)[1]
           y == UInt16(UINT16_MAX - sum)[2]
           b1 == [bytes EXCEPT ![17] = x]
           b2 == [b1 EXCEPT ![18] = y]
<1>1. UINT16_MAX - sum \in Word
  BY Bounds, SMT DEF UINT16_MAX
<1>2. x \in Byte /\ y \in Byte /\ x * 256 + y = UINT16_MAX - sum
  BY <1>1, UInt16Is, Zenon
<1> HIDE DEF x, y
<1>3. 17 \in 1..Len(bytes) /\ 18 \in 1..Len(bytes) /\ Len(bytes) \in Nat
  BY SMT
<1>4. /\ b1 \in Seq(Byte) /\ Len(b1) = Len(bytes)
      /\ ByteSum(b1) = ByteSum(bytes) + (Worth(b1, 17) - Worth(bytes, 17))
  BY <1>2, <1>3, OneByteChanged, Zenon
<1>5. b1[17] = x /\ b1[18] = 0 /\ \A i \in 1..Len(bytes) : i # 17 => b1[i] = bytes[i]
  BY <1>3, SMT
<1> HIDE DEF b1
<1>6. /\ b2 \in Seq(Byte) /\ Len(b2) = Len(bytes)
      /\ ByteSum(b2) = ByteSum(b1) + (Worth(b2, 18) - Worth(b1, 18))
  BY <1>2, <1>3, <1>4, OneByteChanged, Zenon
<1>7. b2[18] = y /\ \A i \in 1..Len(bytes) : i # 18 => b2[i] = b1[i]
  BY <1>3, <1>4, SMT
<1> HIDE DEF b2
<1>8. /\ Worth(bytes, 17) = 256 * 0 /\ Worth(b1, 17) = 256 * x
      /\ Worth(b1, 18) = 0 /\ Worth(b2, 18) = y
  <2>1. 20 <= Len(b1) /\ 20 <= Len(b2)
    BY <1>4, <1>6, Zenon
  <2>2. Worth(bytes, 17) = 256 * bytes[17]
    BY Worth1718, Zenon
  <2>3. Worth(b1, 17) = 256 * b1[17] /\ Worth(b1, 18) = b1[18]
    BY <1>4, <2>1, Worth1718, Zenon
  <2>4. Worth(b2, 18) = b2[18]
    BY <1>6, <2>1, Worth1718, Zenon
  <2> QED BY <1>5, <1>7, <2>2, <2>3, <2>4, Zenon
<1>9. ByteSum(bytes) \in Int /\ ByteSum(b1) \in Int
  BY <1>4, SumsAgree, Zenon
<1>10. x \in Int /\ y \in Int
  BY <1>2, Bounds, SMT
<1>11. ByteSum(b2) = ByteSum(bytes) + (UINT16_MAX - sum)
  <2>1. ByteSum(b1) = ByteSum(bytes) + (256 * x - 256 * 0)
    BY <1>4, <1>8, Zenon
  <2>2. ByteSum(b2) = ByteSum(b1) + (y - 0)
    BY <1>6, <1>8, Zenon
  <2>3. ByteSum(b2) = ByteSum(bytes) + (x * 256 + y)
    BY <1>9, <1>10, <2>1, <2>2, SMT
  <2> QED BY <1>2, <2>3, Zenon
<1>12. writeChecksum(bytes, 16, sum) = b2
  <2>1. 16 + 1 = 17 /\ 16 + 2 = 18
    BY SMT
  <2> QED BY <2>1, Zenon DEF writeChecksum, b1, b2, x, y
<1>13. \A i \in 1..Len(bytes) : i # 17 /\ i # 18 => b2[i] = bytes[i]
  BY <1>5, <1>7, Zenon
<1> QED BY <1>6, <1>11, <1>12, <1>13, Zenon

(* What writeSegmentTo writes.                                             *)
LEMMA WireIs ==
  ASSUME NEW seg \in Segments
  PROVE  LET w == writeSegmentTo(seg)
         IN /\ w \in Seq(Byte) /\ Len(w) = 20 + Len(seg.data)
            /\ \A i \in 1..16 : w[i] = Header(seg)[i]
            /\ \A i \in 1..Len(seg.data) : w[20 + i] = seg.data[i]
            /\ \E k \in Int : Pseudo(seg) + ByteSum(w) = UINT16_MAX * k
<1> DEFINE bytes == writeBytes(Header(seg), seg.data)
           sum == SegmentSum(seg, bytes)
           w == writeChecksum(bytes, 16, sum)
<1>1. /\ bytes \in Seq(Byte) /\ Len(bytes) = 20 + Len(seg.data)
      /\ \A i \in 1..20 : bytes[i] = Header(seg)[i]
      /\ \A i \in 1..Len(seg.data) : bytes[20 + i] = seg.data[i]
  BY BytesAre, Zenon
<1> HIDE DEF bytes
<1>2. sum \in Word /\ \E m \in Int : sum + UINT16_MAX * m = ByteSum(bytes) + Pseudo(seg)
  BY <1>1, SegmentSumIs, Zenon
<1> HIDE DEF sum
<1>3. Len(seg.data) \in Nat /\ 20 <= Len(bytes)
  <2>1. seg.data \in Seq(Byte)
    BY SegmentFields, Zenon
  <2>2. Len(seg.data) \in Nat
    BY <2>1, SMT
  <2>3. \A l \in Nat : 20 <= 20 + l
    BY SMT
  <2> QED BY <1>1, <2>2, <2>3, Zenon
<1>4. bytes[17] = 0 /\ bytes[18] = 0
  <2>1. 17 \in 1..20 /\ 18 \in 1..20
    BY SMT
  <2>2. Header(seg)[17] = 0 /\ Header(seg)[18] = 0
    BY HeaderIs, Zenon
  <2> QED BY <1>1, <2>1, <2>2, Zenon
<1>5. /\ w \in Seq(Byte) /\ Len(w) = Len(bytes)
      /\ \A i \in 1..Len(bytes) : i # 17 /\ i # 18 => w[i] = bytes[i]
      /\ ByteSum(w) = ByteSum(bytes) + (UINT16_MAX - sum)
  BY <1>1, <1>2, <1>3, <1>4, ChecksumPut, Zenon
<1>6. writeSegmentTo(seg) = w
  BY Zenon DEF writeSegmentTo, sum, bytes
<1> HIDE DEF w
<1>7. \A i \in 1..16 : w[i] = Header(seg)[i]
  <2>1. \A l \in Nat : \A i \in 1..16 : i \in 1..20 /\ i \in 1..(20 + l) /\ i # 17 /\ i # 18
    BY SMT
  <2>2. \A i \in 1..16 : i \in 1..20 /\ i \in 1..Len(bytes) /\ i # 17 /\ i # 18
    BY <1>1, <1>3, <2>1, Zenon
  <2> QED BY <1>1, <1>5, <2>2, Zenon
<1>8. \A i \in 1..Len(seg.data) : w[20 + i] = seg.data[i]
  <2>1. \A l \in Nat : \A i \in 1..l : 20 + i \in 1..(20 + l) /\ 20 + i # 17 /\ 20 + i # 18
    BY SMT
  <2>2. \A i \in 1..Len(seg.data) : 20 + i \in 1..Len(bytes) /\ 20 + i # 17 /\ 20 + i # 18
    BY <1>1, <1>3, <2>1, Zenon
  <2> QED BY <1>1, <1>5, <2>2, Zenon
<1>9. \E k \in Int : Pseudo(seg) + ByteSum(w) = UINT16_MAX * k
  <2>1. PICK m \in Int : sum + UINT16_MAX * m = ByteSum(bytes) + Pseudo(seg)
    BY <1>2, Zenon
  <2>2. ByteSum(bytes) \in Int
    BY <1>1, SumsAgree, Zenon
  <2>3. Pseudo(seg) \in Int
    BY PseudoType, Zenon
  <2>4. PICK p, b, v : p = Pseudo(seg) /\ b = ByteSum(bytes) /\ v = ByteSum(w)
    BY Zenon
  <2>5. p \in Int /\ b \in Int /\ sum + UINT16_MAX * m = b + p /\ v = b + (UINT16_MAX - sum)
    BY <1>5, <2>1, <2>2, <2>3, <2>4, Zenon
  <2>6. sum \in Int
    BY <1>2, Bounds, SMT
  <2>7. p + v = UINT16_MAX * (m + 1) /\ m + 1 \in Int
    BY ONLY <2>5, <2>6, m \in Int, SMT DEF UINT16_MAX
  <2> QED BY <2>4, <2>7, Zenon
<1> QED BY <1>1, <1>5, <1>6, <1>7, <1>8, <1>9, Zenon

(* Multiples of UINT16_MAX.                                                *)
LEMMA MultipleIs ==
  ASSUME NEW n \in Int, NEW k \in Int, n = UINT16_MAX * k
  PROVE  n % UINT16_MAX = 0
BY SMT DEF UINT16_MAX

(* A number that is less than UINT16_MAX away from a multiple is none.     *)
LEMMA NoMultiple ==
  ASSUME NEW n \in Int, NEW k \in Int, n = UINT16_MAX * k,
         NEW d \in Int, d # 0, -UINT16_MAX < d, d < UINT16_MAX
  PROVE  (n + d) % UINT16_MAX # 0
<1>1. n % UINT16_MAX = 0
  BY MultipleIs, Zenon
<1> QED BY <1>1, SMT DEF UINT16_MAX

(* A segment with one byte changed does not verify.                        *)
LEMMA ChangeShows ==
  ASSUME NEW w \in Seq(Byte), NEW p \in Int,
         \E k \in Int : p + ByteSum(w) = UINT16_MAX * k,
         NEW i \in 1..Len(w), NEW b \in Byte, w[i] # b
  PROVE  (p + ByteSum([w EXCEPT ![i] = b])) % UINT16_MAX # 0
<1> DEFINE new == [w EXCEPT ![i] = b]
           d == Worth(new, i) - Worth(w, i)
<1>1. new \in Seq(Byte) /\ Len(new) = Len(w) /\ ByteSum(new) = ByteSum(w) + d
  BY OneByteChanged, Zenon
<1>2. new[i] = b /\ w[i] \in Byte
  BY SMT
<1> HIDE DEF new
<1>3. d \in Int /\ d # 0 /\ -UINT16_MAX < d /\ d < UINT16_MAX
  <2>1. PICK a : a = w[i]
    BY Zenon
  <2>2. a \in Int /\ 0 <= a /\ a <= 255 /\ b \in Int /\ 0 <= b /\ b <= 255 /\ a # b
    BY <1>2, <2>1, Bounds, SMT
  <2>3. CASE i % 2 = 1
    <3>1. d = 256 * b - 256 * a
      BY <1>2, <2>1, <2>3, Zenon DEF Worth
    <3> HIDE DEF d
    <3> QED BY <2>2, <3>1, SMT DEF UINT16_MAX
  <2>4. CASE i % 2 # 1
    <3>1. d = b - a
      BY <1>2, <2>1, <2>4, Zenon DEF Worth
    <3> HIDE DEF d
    <3> QED BY <2>2, <3>1, SMT DEF UINT16_MAX
  <2> QED BY <2>3, <2>4, Zenon
<1> HIDE DEF d
<1>4. PICK k \in Int : p + ByteSum(w) = UINT16_MAX * k
  BY Zenon
<1>5. ByteSum(w) \in Int
  BY SumsAgree, Zenon
<1>6. PICK n : n = p + ByteSum(w)
  BY Zenon
<1>7. n \in Int /\ n = UINT16_MAX * k
  <2>1. n \in Int
    BY <1>5, <1>6, SMT
  <2> QED BY <1>4, <1>6, <2>1, Zenon
<1>8. (n + d) % UINT16_MAX # 0
  BY <1>3, <1>7, NoMultiple, Zenon
<1>9. p + ByteSum(new) = n + d
  BY <1>1, <1>3, <1>5, <1>6, SMT
<1> QED BY <1>8, <1>9, Zenon DEF new

(* What another TCP would send is parsed back too.                         *)
LEMMA OptionsParse ==
  ASSUME NEW seg \in Segments, NEW n \in 0..10
  PROVE  parse(seg.source.ip, seg.destination.ip, WithOptions(writeSegmentTo(seg), n)) = seg
<1> DEFINE w == writeSegmentTo(seg)
           l == Len(seg.data)
           buf == WithOptions(w, n)
<1>1. /\ w \in Seq(Byte) /\ Len(w) = 20 + l
      /\ \A i \in 1..16 : w[i] = Header(seg)[i]
      /\ \A i \in 1..l : w[20 + i] = seg.data[i]
  BY WireIs, Zenon
<1>2. l \in Nat /\ n \in Nat /\ n <= 10
  <2>1. seg.data \in Seq(Byte)
    BY SegmentFields, Zenon
  <2> QED BY <2>1, SMT
<1> HIDE DEF w, l
<1>b. \A i \in 1..(20 + l) : w[i] \in Byte
  <2>1. w \in Seq(Byte) /\ Len(w) = 20 + l
    BY <1>1, Zenon
  <2>2. \A i \in 1..Len(w) : w[i] \in Byte
    BY ONLY <2>1, SMT
  <2> QED BY <2>1, <2>2, Zenon
<1> DEFINE e(i) == CASE i = 13 -> (5 + n) * 16
                     [] i # 13 /\ i <= 20 -> w[i]
                     [] i > 20 /\ i <= 20 + 4 * n -> 1
                     [] i > 20 + 4 * n -> w[i - 4 * n]
<1>3. buf = [i \in 1..((20 + l) + 4 * n) |-> e(i)]
  BY <1>1, Zenon DEF WithOptions, kTcpHeaderLength
<1> HIDE DEF buf
<1>4. ASSUME NEW i \in 1..((20 + l) + 4 * n) PROVE e(i) \in Byte
  <2>1. CASE i = 13
    <3>1. e(i) = (5 + n) * 16
      BY <2>1, SMT
    <3> HIDE DEF e
    <3> QED BY <1>2, <3>1, Bounds, SMT
  <2>2. CASE i # 13 /\ i <= 20
    <3>1. e(i) = w[i]
      BY <2>2, SMT
    <3>2. i \in 1..(20 + l)
      BY <1>2, <2>2, SMT
    <3> HIDE DEF e
    <3> QED BY <1>b, <3>1, <3>2, Zenon
  <2>3. CASE i > 20 /\ i <= 20 + 4 * n
    <3>1. e(i) = 1
      BY <1>2, <2>3, SMT
    <3> HIDE DEF e
    <3> QED BY <3>1, Bounds, SMT
  <2>4. CASE i > 20 + 4 * n
    <3>1. e(i) = w[i - 4 * n]
      BY <1>2, <2>4, SMT
    <3>2. PICK j : j = i - 4 * n
      BY Zenon
    <3>3. j \in 1..(20 + l)
      BY <1>2, <2>4, <3>2, SMT
    <3> HIDE DEF e
    <3>4. w[j] \in Byte
      BY <1>b, <3>3, Zenon
    <3> QED BY <3>1, <3>2, <3>4, Zenon
  <2> HIDE DEF e
  <2> QED BY <1>2, <2>1, <2>2, <2>3, <2>4, SMT
<1>5. buf \in Seq(Byte) /\ Len(buf) = (20 + 4 * n) + l
  <2> HIDE DEF e
  <2>1. (20 + l) + 4 * n \in Nat /\ (20 + l) + 4 * n = (20 + 4 * n) + l
    BY <1>2, SMT
  <2> QED BY <1>3, <1>4, <2>1, SMT
<1>6. buf[13] = (5 + n) * 16
  <2>1. 13 \in 1..((20 + l) + 4 * n)
    BY <1>2, SMT
  <2>2. e(13) = (5 + n) * 16
    BY SMT
  <2> HIDE DEF e
  <2> QED BY <1>3, <2>1, <2>2, Zenon
<1>7. ASSUME NEW i \in 1..16, i # 13 PROVE buf[i] = Header(seg)[i]
  <2>1. i \in 1..((20 + l) + 4 * n) /\ i <= 20
    BY <1>2, SMT
  <2>2. e(i) = w[i]
    BY <1>7, <2>1, SMT
  <2> HIDE DEF e
  <2> QED BY <1>1, <1>3, <2>1, <2>2, Zenon
<1>8. ASSUME NEW i \in 1..l PROVE buf[(20 + 4 * n) + i] = seg.data[i]
  <2>1. PICK j : j = (20 + 4 * n) + i
    BY Zenon
  <2>2. j \in 1..((20 + l) + 4 * n) /\ j > 20 + 4 * n /\ j - 4 * n = 20 + i /\ j # 13 /\ j > 20
    BY <1>2, <2>1, SMT
  <2>3. e(j) = w[j - 4 * n]
    BY <1>2, <2>2, SMT
  <2> HIDE DEF e
  <2> QED BY <1>1, <1>3, <2>1, <2>2, <2>3, Zenon
<1>9. parse(seg.source.ip, seg.destination.ip, buf) = seg
  BY <1>2, <1>5, <1>6, <1>7, <1>8, ParsesAs, Zenon DEF l
<1> QED BY <1>9, Zenon DEF buf, w

(* The bytes as they were written are parsed back.                         *)
LEMMA WireParses ==
  ASSUME NEW seg \in Segments
  PROVE  parse(seg.source.ip, seg.destination.ip, writeSegmentTo(seg)) = seg
<1> DEFINE w == writeSegmentTo(seg)
           l == Len(seg.data)
<1>1. /\ w \in Seq(Byte) /\ Len(w) = 20 + l
      /\ \A i \in 1..16 : w[i] = Header(seg)[i]
      /\ \A i \in 1..l : w[20 + i] = seg.data[i]
  BY WireIs, Zenon
<1>2. seg.data \in Seq(Byte) /\ Header(seg)[13] = DataOffset
  BY SegmentFields, HeaderIs, Zenon
<1>3. l \in Nat
  BY <1>2, SMT
<1> HIDE DEF w, l
<1>4. w[13] = (5 + 0) * 16
  <2>1. 13 \in 1..16 /\ DataOffset = (5 + 0) * 16
    BY SMT DEF DataOffset
  <2> QED BY <1>1, <1>2, <2>1, Zenon
<1>5. 20 + 4 * 0 = 20 /\ 0 \in Nat
  BY SMT
<1>6. Len(w) = (20 + 4 * 0) + l /\ \A i \in 1..l : w[(20 + 4 * 0) + i] = seg.data[i]
  BY <1>1, <1>5, Zenon
<1>7. parse(seg.source.ip, seg.destination.ip, w) = seg
  BY <1>1, <1>4, <1>5, <1>6, ParsesAs, Zenon DEF l
<1> QED BY <1>7, Zenon DEF w

-----------------------------------------------------------------------------
(* The specification.                                                      *)

(* One byte of what was written has changed.                               *)
Changed(w) == \E i \in 1..Len(w), b \in Byte : w[i] # b /\ wire = [w EXCEPT ![i] = b]

(* What is on the wire is what was written, or that with one byte changed, *)
(* and a reply was made before any change.                                 *)
Inv ==
  /\ segment \in Segments
  /\ errors \in {0, 1}
  /\ wire = <<>> => errors = 0 /\ reply = <<>>
  /\ wire # <<>> =>
       IF errors = 0 THEN wire = writeSegmentTo(segment) ELSE Changed(writeSegmentTo(segment))
  /\ reply # <<>> => reply = wire /\ wire = writeSegmentTo(segment)

(* SegmentFactory::createSegment makes a segment whose fields are in range. *)
LEMMA InitInv == Init => Inv
<1> SUFFICES ASSUME Init PROVE Inv
  OBVIOUS
<1>1. PICK s \in Endpoints, d \in Endpoints, hi \in Halves, lo \in Halves,
           ctl \in Flags, data \in Payloads :
        segment = createSegment(s, d, [hi |-> hi, lo |-> lo],
                                [hi |-> lo, lo |-> hi], ctl, data)
  BY Zenon DEF Init
<1>2. segment \in Segments
  BY <1>1, SMT DEF createSegment, Segments
<1>3. wire = <<>> /\ errors = 0 /\ reply = <<>> /\ errors \in {0, 1}
  BY Zenon DEF Init
<1> QED BY <1>2, <1>3, Zenon DEF Inv

(* Sending, a byte changed on the way and the answer of ResetDispatcher    *)
(* keep the invariant.                                                     *)
LEMMA NextInv == Inv /\ [Next]_vars => Inv'
<1> SUFFICES ASSUME Inv, [Next]_vars PROVE Inv'
  OBVIOUS
<1> DEFINE w == writeSegmentTo(segment)
<1>0. w \in Seq(Byte)
  BY WireIs, Zenon DEF Inv
<1>1. CASE Send
  BY <1>1, Zenon DEF Inv, Send
<1>2. CASE Corrupt
  <2>1. PICK i \in DOMAIN wire, b \in Noise : wire[i] # b /\ wire' = [wire EXCEPT ![i] = b]
    BY <1>2, Zenon DEF Corrupt
  <2>2. wire = w /\ segment' = segment /\ reply' = reply /\ reply = <<>> /\ errors' = 1
    BY <1>2, Zenon DEF Corrupt, Inv
  <2>3. b \in Byte
    BY SegmentAssumption, Zenon
  <2>4. i \in 1..Len(w)
    BY <1>0, <2>2, SMT
  <2>5. Changed(w)'
    BY <2>1, <2>2, <2>3, <2>4, Zenon DEF Changed
  <2>6. 1 # 0 /\ 1 \in {0, 1}
    BY SMT
  <2>7. wire' # <<>>
    BY <1>0, <2>1, <2>2, <2>4, SMT
  <2> QED BY <2>2, <2>5, <2>6, <2>7, Zenon DEF Inv
<1>3. CASE onReceivePacket
  <2>1. wire = w /\ segment \in Segments
    BY <1>3, Zenon DEF Inv, onReceivePacket
  <2>2. parse(segment.source.ip, segment.destination.ip, wire) = segment
    BY <2>1, WireParses, Zenon
  <2> QED BY <1>3, <2>1, <2>2, Zenon DEF Inv, onReceivePacket
<1>4. CASE UNCHANGED vars
  BY <1>4, Zenon DEF vars, Inv, Changed
<1> QED BY <1>1, <1>2, <1>3, <1>4, Zenon DEF Next

(* The wire carries what Segment::writeSegmentTo made of the segment, or   *)
(* that with one byte changed, in every reachable state.                   *)
THEOREM WireCarriesSegment == Spec => []Inv
BY InitInv, NextInv, PTL DEF Spec

(* What is written is parsed back, in the invariant.                       *)
LEMMA InvParses == Inv => ParsesBack
<1> SUFFICES ASSUME Inv PROVE ParsesBack
  OBVIOUS
<1>1. ASSUME Sent, NEW n \in 0..10
      PROVE  parse(segment.source.ip, segment.destination.ip, WithOptions(wire, n)) = segment
  <2>1. wire = writeSegmentTo(segment) /\ segment \in Segments
    BY <1>1, Zenon DEF Inv, Sent
  <2> QED BY <2>1, OptionsParse, Zenon
<1>2. reply # <<>> => reply = wire
  BY Zenon DEF Inv
<1> QED BY <1>1, <1>2, Zenon DEF ParsesBack

(* Segment::parse gives back every segment Segment::writeSegmentTo wrote,  *)
(* whatever its ports, numbers, flags and payload are, and with any number *)
(* of words of options in its header; the reset that is made of it is the  *)
(* segment itself.                                                         *)
THEOREM WrittenIsParsedBack == Spec => []ParsesBack
BY WireCarriesSegment, InvParses, PTL

(* The sum decides whether a byte was changed, in the invariant.           *)
LEMMA InvVerifies == Inv => ChecksumExact
<1> SUFFICES ASSUME Inv, wire # <<>> PROVE Verifies <=> errors = 0
  BY Zenon DEF ChecksumExact
<1> DEFINE w == writeSegmentTo(segment)
           p == Pseudo(segment)
<1>0. segment \in Segments /\ errors \in {0, 1}
  BY Zenon DEF Inv
<1>1. /\ w \in Seq(Byte) /\ Len(w) = 20 + Len(segment.data) /\ p \in Int
      /\ \E k \in Int : p + ByteSum(w) = UINT16_MAX * k
  BY <1>0, WireIs, PseudoType, Zenon
<1>2. Len(wire) = Len(w) => PseudoHeader = p
  BY <1>1, Zenon DEF PseudoHeader, Pseudo
<1>3. CASE errors = 0
  <2>1. wire = w
    BY <1>3, Zenon DEF Inv
  <2>2. PICK k \in Int : p + ByteSum(w) = UINT16_MAX * k
    BY <1>1, Zenon
  <2>3. ByteSum(w) \in Int
    BY <1>1, SumsAgree, Zenon
  <2> HIDE DEF w, p
  <2>4. p + ByteSum(w) \in Int
    BY <1>1, <2>3, SMT
  <2>5. (p + ByteSum(w)) % UINT16_MAX = 0
    BY <2>2, <2>4, MultipleIs, Zenon
  <2> QED BY <1>2, <1>3, <2>1, <2>5, Zenon DEF Verifies
<1>4. CASE errors # 0
  <2>1. PICK i \in 1..Len(w), b \in Byte : w[i] # b /\ wire = [w EXCEPT ![i] = b]
    BY <1>4, Zenon DEF Inv, Changed
  <2> HIDE DEF w, p
  <2>2. (p + ByteSum(wire)) % UINT16_MAX # 0
    BY <1>1, <2>1, ChangeShows, Zenon
  <2>3. Len(wire) = Len(w)
    BY <1>1, <2>1, SMT
  <2> QED BY <1>2, <1>4, <2>2, <2>3, Zenon DEF Verifies
<1> QED BY <1>3, <1>4, Zenon

(* The checksum Segment::writeSegmentTo puts into a segment satisfies the  *)
(* receiver's sum for every payload, odd lengths and carries included, and *)
(* no change of one byte goes unnoticed.                                   *)
THEOREM ChecksumDecides == Spec => []ChecksumExact
BY WireCarriesSegment, InvVerifies, PTL
=============================================================================
