-------------------------- MODULE RingBufferProofs --------------------------
(***************************************************************************)
(* For every RingSize: the ring keeps its two ends in order, keeps the     *)
(* stored bytes in order, and is a FIFO queue until a write loses bytes.   *)
(***************************************************************************)
EXTENDS RingBufferUse, TLAPS

-----------------------------------------------------------------------------
(* What the operations of the ring do to the bytes it stores.              *)

(* The members of a ring (ring_buffer.h) have their types.                 *)
LEMMA Fields ==
  ASSUME NEW r \in Ring
  PROVE  r.begin \in Nat /\ r.end \in Nat /\ r.mem \in [0..(RingSize - 1) -> Nat]
BY Zenon DEF Ring

(* In an ordered ring no size_t difference of read, write, consume wraps.  *)
LEMMA Counts ==
  ASSUME NEW r \in Ring, Ordered(r)
  PROVE  /\ remaining(r) = r.end - r.begin
         /\ remaining(r) \in 0..RingSize
         /\ free(r) = RingSize - (r.end - r.begin)
BY RingAssumption, Fields DEF Ordered, remaining, free, SizeSub

(* A stored byte of an ordered ring is a byte of its memory.               *)
LEMMA StoredNat ==
  ASSUME NEW r \in Ring, Ordered(r), NEW i \in Nat, i < r.end - r.begin
  PROVE  Stored(r, i) \in Nat
<1> DEFINE k == r.begin + i
           j == IF k < RingSize THEN k ELSE k - RingSize
<1>1. r.begin \in Nat /\ r.end \in Nat
  BY Zenon, Fields
<1>2. j \in 0..(RingSize - 1)
  BY <1>1, RingAssumption DEF Ordered
<1>3. Stored(r, i) = r.mem[j]
  BY Zenon DEF Stored, At
<1> HIDE DEF j
<1> QED BY Zenon, <1>2, <1>3, Fields

(* read and consume: the bytes that stay are the ones after the n taken.   *)
LEMMA AdvanceStored ==
  ASSUME NEW r \in Ring, Ordered(r), NEW n \in Nat, n <= r.end - r.begin,
         NEW s, s = Advance(r, n)
  PROVE  /\ s \in Ring /\ Ordered(s)
         /\ s.end - s.begin = r.end - r.begin - n
         /\ \A i \in Nat : i < s.end - s.begin => Stored(s, i) = Stored(r, n + i)
<1>0. r.begin \in Nat /\ r.end \in Nat
  BY Zenon, Fields
<1>1. CASE r.begin + n >= RingSize
  <2>1. SizeSub(r.end, RingSize) = r.end - RingSize
    BY <1>0, <1>1, RingAssumption DEF SizeSub
  <2>2. s = [r EXCEPT !.begin = r.begin + n - RingSize, !.end = r.end - RingSize]
    BY Zenon, <1>1, <2>1 DEF Advance
  <2>3. /\ r.begin + n - RingSize \in Nat
        /\ r.end - RingSize \in Nat
    BY <1>0, <1>1, RingAssumption DEF Ordered
  <2>4. /\ s.begin = r.begin + n - RingSize
        /\ s.end = r.end - RingSize
        /\ s.mem = r.mem
        /\ s \in Ring
    BY Zenon, <2>2, <2>3 DEF Ring
  <2>5. Ordered(s) /\ s.end - s.begin = r.end - r.begin - n
    BY <1>0, <1>1, <2>4, RingAssumption DEF Ordered
  <2>6. ASSUME NEW i \in Nat, i < s.end - s.begin
        PROVE  Stored(s, i) = Stored(r, n + i)
    <3> DEFINE k == r.begin + (n + i)
    <3>1. /\ s.begin + i < RingSize
          /\ ~(k < RingSize)
          /\ k - RingSize = s.begin + i
      BY <1>0, <1>1, <2>4, <2>6, RingAssumption DEF Ordered
    <3>2. Stored(r, n + i) = At(r.mem, k)
      BY Zenon DEF Stored
    <3> HIDE DEF k
    <3> QED BY Zenon, <2>4, <3>1, <3>2 DEF Stored, At
  <2> QED BY Zenon, <2>4, <2>5, <2>6
<1>2. CASE ~(r.begin + n >= RingSize)
  <2>1. s = [r EXCEPT !.begin = r.begin + n]
    BY Zenon, <1>2 DEF Advance
  <2>2. /\ s.begin = r.begin + n
        /\ s.end = r.end
        /\ s.mem = r.mem
        /\ s \in Ring
    <3>1. r.begin + n \in Nat
      BY <1>0
    <3> QED BY Zenon, <2>1, <3>1 DEF Ring
  <2>3. Ordered(s) /\ s.end - s.begin = r.end - r.begin - n
    BY <1>0, <1>2, <2>2, RingAssumption DEF Ordered
  <2>4. ASSUME NEW i \in Nat PROVE Stored(s, i) = Stored(r, n + i)
    <3>1. s.begin + i = r.begin + (n + i)
      BY <1>0, <2>2
    <3> QED BY Zenon, <2>2, <3>1 DEF Stored
  <2> QED BY Zenon, <2>2, <2>3, <2>4
<1> QED BY Zenon, <1>1, <1>2

(* memcpy of n bytes changes the n bytes it names and no other.            *)
LEMMA CopyByte ==
  ASSUME NEW mem \in [0..(RingSize - 1) -> Nat],
         NEW at, NEW data, NEW from, NEW n, NEW i \in 0..(RingSize - 1)
  PROVE  Copy(mem, at, data, from, n)[i] =
           IF at <= i /\ i < at + n THEN data[from + (i - at)] ELSE mem[i]
BY Zenon DEF Copy

(* memcpy into the memory of a ring leaves a memory.                       *)
LEMMA CopyType ==
  ASSUME NEW mem \in [0..(RingSize - 1) -> Nat],
         NEW length \in Nat, NEW data \in [0..(length - 1) -> Nat],
         NEW at \in Nat, NEW from \in Nat, NEW n \in Nat, from + n <= length
  PROVE  Copy(mem, at, data, from, n) \in [0..(RingSize - 1) -> Nat]
<1> DEFINE val(i) == IF at <= i /\ i < at + n THEN data[from + (i - at)] ELSE mem[i]
<1>1. Copy(mem, at, data, from, n) = [i \in 0..(RingSize - 1) |-> val(i)]
  BY Zenon DEF Copy
<1>2. ASSUME NEW i \in 0..(RingSize - 1) PROVE val(i) \in Nat
  <2>1. CASE at <= i /\ i < at + n
    <3>1. from + (i - at) \in 0..(length - 1)
      BY <2>1, RingAssumption
    <3> QED BY Zenon, <2>1, <3>1
  <2>2. CASE ~(at <= i /\ i < at + n)
    BY Zenon, <2>2
  <2> QED BY Zenon, <2>1, <2>2
<1> HIDE DEF val
<1> QED BY Zenon, <1>1, <1>2

(* write keeps the stored bytes; with end_ inside the memory it appends    *)
(* the bytes it reports, otherwise it appends nothing.                     *)
LEMMA WriteStored ==
  ASSUME NEW r \in Ring, Ordered(r), NEW length \in Nat,
         NEW data, data \in [0..(length - 1) -> Nat],
         NEW n, n = writeLength(r, length),
         NEW s, s = write(r, data, length)
  PROVE  /\ n \in Nat /\ n <= length
         /\ s \in Ring /\ Ordered(s)
         /\ s.begin = r.begin
         /\ s.end = IF r.end < RingSize THEN r.end + n ELSE r.end
         /\ \A i \in Nat : i < r.end - r.begin => Stored(s, i) = Stored(r, i)
         /\ r.end < RingSize =>
              \A i \in Nat : i < n => Stored(s, r.end - r.begin + i) = data[i]
<1> DEFINE first == RingSize - r.end
<1>0. /\ r.begin \in Nat /\ r.end \in Nat
      /\ r.begin < RingSize /\ r.begin <= r.end /\ r.end <= r.begin + RingSize
      /\ RingSize \in Nat
  BY Zenon, Fields, RingAssumption DEF Ordered
<1>m. r.mem \in [0..(RingSize - 1) -> Nat]
  BY Zenon, Fields
<1>1. n \in Nat /\ n <= length /\ r.end + n <= r.begin + RingSize
  <2>1. free(r) = RingSize - (r.end - r.begin)
    BY Zenon, Counts
  <2>2. CASE full(r)
    <3>1. n = 0 /\ r.begin + RingSize = r.end
      BY Zenon, <2>2 DEF writeLength, full
    <3> QED BY <1>0, <3>1
  <2>3. CASE ~full(r)
    <3>1. n = IF length <= free(r) THEN length ELSE free(r)
      BY Zenon, <2>3 DEF writeLength, Least
    <3> QED BY <1>0, <2>1, <3>1
  <2> QED BY Zenon, <2>2, <2>3
<1>2. CASE full(r)
  <2>1. n = 0 /\ s = r /\ ~(r.end < RingSize)
    BY <1>0, <1>2 DEF writeLength, write, full
  <2> QED BY Zenon, <1>1, <2>1
<1>3. CASE ~full(r) /\ r.end >= RingSize
  <2> DEFINE m == Copy(r.mem, r.end - RingSize, data, 0, n)
             at == r.end - RingSize
  <2>1. s = [r EXCEPT !.mem = m]
    BY Zenon, <1>0, <1>3 DEF write
  <2>2. at \in Nat /\ at + n <= r.begin
    BY <1>0, <1>1, <1>3
  <2>3. /\ m \in [0..(RingSize - 1) -> Nat]
        /\ \A i \in 0..(RingSize - 1) : ~(i < at + n) \/ i < at => m[i] = r.mem[i]
    <3> HIDE DEF at
    <3>1. 0 \in Nat /\ 0 + n <= length
      BY <1>1
    <3>2. Copy(r.mem, at, data, 0, n) \in [0..(RingSize - 1) -> Nat]
      BY Zenon, <1>m, <1>1, <2>2, <3>1, CopyType
    <3>3. ASSUME NEW i \in 0..(RingSize - 1), ~(i < at + n) \/ i < at
          PROVE  Copy(r.mem, at, data, 0, n)[i] = r.mem[i]
      <4>1. ~(at <= i /\ i < at + n)
        BY <1>0, <1>1, <2>2, <3>3
      <4> QED BY <1>m, <4>1, CopyByte
    <3> QED BY Zenon, <3>2, <3>3 DEF at
  <2> HIDE DEF m, at
  <2>4. s \in Ring /\ s.begin = r.begin /\ s.end = r.end /\ s.mem = m
    BY Zenon, <2>1, <2>3 DEF Ring
  <2>5. ASSUME NEW i \in Nat, i < r.end - r.begin
        PROVE  Stored(s, i) = Stored(r, i)
    <3> DEFINE k == r.begin + i
               j == IF k < RingSize THEN k ELSE k - RingSize
    <3>1. j \in 0..(RingSize - 1) /\ (~(j < at + n) \/ j < at)
      <4> HIDE DEF k
      <4>1. k \in Nat /\ r.begin <= k /\ k < r.end
        BY <1>0, <2>5 DEF k
      <4> QED BY ONLY <1>0, <1>1, <1>3, <2>2, <4>1 DEF at
    <3>2. At(m, k) = m[j] /\ At(r.mem, k) = r.mem[j]
      BY Zenon DEF At
    <3> HIDE DEF j
    <3> QED BY Zenon, <2>3, <2>4, <3>1, <3>2 DEF Stored
  <2> QED BY <1>0, <1>1, <1>3, <2>4, <2>5 DEF Ordered
<1>4. CASE ~full(r) /\ r.end < RingSize
  (* Both ways to copy put byte i of data at index r.end + i, modulo the   *)
  (* size, and leave the bytes between r.begin and r.end alone.            *)
  <2> DEFINE m == s.mem
  <2>1. /\ s \in Ring /\ s.begin = r.begin /\ s.end = r.end + n
        /\ \A i \in 0..(RingSize - 1) :
             m[i] = IF i < r.end + n - RingSize THEN data[first + i]
                    ELSE IF r.end <= i /\ i < r.end + n THEN data[i - r.end]
                    ELSE r.mem[i]
    <3>1. CASE r.end + n >= RingSize
      <4> DEFINE m1 == Copy(r.mem, r.end, data, 0, first)
                 m2 == Copy(m1, 0, data, first, n - first)
      <4>1. s = [r EXCEPT !.mem = m2, !.end = @ + n]
        BY <1>0, <1>4, <3>1 DEF write
      <4>2. /\ first \in Nat /\ n - first \in Nat
            /\ 0 + first <= length /\ first + (n - first) <= length
        <5>1. first \in Nat /\ first <= n
          BY <1>0, <1>1, <1>4, <3>1
        <5> HIDE DEF first
        <5> QED BY <1>1, <5>1
      <4> HIDE DEF first
      <4>3. /\ m1 \in [0..(RingSize - 1) -> Nat]
            /\ \A i \in 0..(RingSize - 1) :
                 m1[i] = IF r.end <= i /\ i < r.end + first
                         THEN data[0 + (i - r.end)] ELSE r.mem[i]
        <5>1. m1 \in [0..(RingSize - 1) -> Nat]
          BY Zenon, <1>0, <1>m, <4>2, CopyType
        <5> QED BY <1>m, <5>1, CopyByte
      <4> HIDE DEF m1
      <4>4. /\ m2 \in [0..(RingSize - 1) -> Nat]
            /\ \A i \in 0..(RingSize - 1) :
                 m2[i] = IF 0 <= i /\ i < 0 + (n - first)
                         THEN data[first + (i - 0)] ELSE m1[i]
        <5>1. m2 \in [0..(RingSize - 1) -> Nat]
          BY Zenon, <4>2, <4>3, CopyType
        <5>2. \A i \in 0..(RingSize - 1) :
                 m2[i] = IF 0 <= i /\ i < 0 + (n - first)
                         THEN data[first + (i - 0)] ELSE m1[i]
          <6>1. m1 \in [0..(RingSize - 1) -> Nat]
            BY Zenon, <4>3
          <6> QED BY ONLY Zenon, <6>1 DEF Copy
        <5> QED BY Zenon, <5>1, <5>2
      <4> HIDE DEF m2
      <4>5. s \in Ring /\ s.begin = r.begin /\ s.end = r.end + n /\ m = m2
        <5>1. r.end + n \in Nat
          BY <1>0, <1>1
        <5> QED BY Zenon, <4>1, <4>4, <5>1 DEF Ring
      <4>6. ASSUME NEW i \in 0..(RingSize - 1)
            PROVE  m2[i] = IF i < r.end + n - RingSize THEN data[first + i]
                           ELSE IF r.end <= i /\ i < r.end + n THEN data[i - r.end]
                           ELSE r.mem[i]
        <5>1. /\ m2[i] = IF 0 <= i /\ i < 0 + (n - first) THEN data[first + (i - 0)] ELSE m1[i]
              /\ m1[i] = IF r.end <= i /\ i < r.end + first THEN data[0 + (i - r.end)] ELSE r.mem[i]
          BY Zenon, <4>3, <4>4
        <5>2. /\ i - 0 = i /\ 0 + (i - r.end) = i - r.end
              /\ (0 <= i /\ i < 0 + (n - first)) <=> i < r.end + n - RingSize
              /\ (r.end <= i /\ i < r.end + first) <=> (r.end <= i /\ i < r.end + n)
          BY <1>0, <1>1, <3>1 DEF first
        <5> QED BY Zenon, <5>1, <5>2
      <4> QED BY Zenon, <4>5, <4>6
    <3>2. CASE ~(r.end + n >= RingSize)
      <4> DEFINE m1 == Copy(r.mem, r.end, data, 0, n)
      <4>1. s = [r EXCEPT !.mem = m1, !.end = @ + n]
        BY <1>0, <1>4, <3>2 DEF write
      <4>2. /\ m1 \in [0..(RingSize - 1) -> Nat]
            /\ \A i \in 0..(RingSize - 1) :
                 m1[i] = IF r.end <= i /\ i < r.end + n
                         THEN data[0 + (i - r.end)] ELSE r.mem[i]
        <5>1. 0 \in Nat /\ 0 + n <= length
          BY <1>1
        <5>2. m1 \in [0..(RingSize - 1) -> Nat]
          BY Zenon, <1>0, <1>m, <1>1, <5>1, CopyType
        <5> QED BY <1>m, <5>2, CopyByte
      <4> HIDE DEF m1
      <4>3. s \in Ring /\ s.begin = r.begin /\ s.end = r.end + n /\ m = m1
        <5>1. r.end + n \in Nat
          BY <1>0, <1>1
        <5> QED BY Zenon, <4>1, <4>2, <5>1 DEF Ring
      <4>4. ASSUME NEW i \in 0..(RingSize - 1)
            PROVE  m1[i] = IF i < r.end + n - RingSize THEN data[first + i]
                           ELSE IF r.end <= i /\ i < r.end + n THEN data[i - r.end]
                           ELSE r.mem[i]
        <5>1. ~(i < r.end + n - RingSize) /\ 0 + (i - r.end) = i - r.end
          BY <1>0, <1>1, <3>2
        <5> QED BY Zenon, <4>2, <5>1
      <4> QED BY Zenon, <4>3, <4>4
    <3> QED BY Zenon, <3>1, <3>2
  <2> HIDE DEF m
  <2>2. ASSUME NEW i \in Nat, i < r.end - r.begin
        PROVE  Stored(s, i) = Stored(r, i)
    <3> DEFINE j == r.begin + i
    <3>1. j \in 0..(RingSize - 1) /\ j < RingSize /\ j < r.end /\ ~(j < r.end + n - RingSize)
      <4>1. j \in Nat /\ r.begin <= j /\ j < r.end
        BY <1>0, <2>2
      <4> HIDE DEF j
      <4>2. j \in 0..(RingSize - 1) /\ j < RingSize
        BY <1>0, <1>4, <4>1
      <4>3. r.end + n - RingSize <= r.begin
        BY <1>0, <1>1
      <4> QED BY <1>0, <1>1, <4>1, <4>2, <4>3
    <3>2. Stored(s, i) = At(s.mem, j) /\ Stored(r, i) = At(r.mem, j)
      BY Zenon, <2>1 DEF Stored
    <3> HIDE DEF j
    <3>3. ~(r.end <= j)
      BY <1>0, <3>1
    <3> QED BY Zenon, <2>1, <3>1, <3>2, <3>3 DEF At, m
  <2>3. ASSUME NEW i \in Nat, i < n
        PROVE  Stored(s, r.end - r.begin + i) = data[i]
    <3> DEFINE k == r.end + i
    <3>1. Stored(s, r.end - r.begin + i) = At(m, k)
      <4>1. r.begin + (r.end - r.begin + i) = k
        BY <1>0
      <4> QED BY Zenon, <2>1, <4>1 DEF Stored, m
    <3>2. CASE k < RingSize
      <4>1. /\ k \in 0..(RingSize - 1) /\ ~(k < r.end + n - RingSize)
            /\ r.end <= k /\ k < r.end + n /\ k - r.end = i
        BY ONLY <1>0, <1>1, <1>4, <2>3, <3>2
      <4> HIDE DEF k
      <4> QED BY Zenon, <2>1, <3>1, <3>2, <4>1 DEF At
    <3>3. CASE ~(k < RingSize)
      <4> DEFINE j == k - RingSize
      <4>1. j \in 0..(RingSize - 1) /\ j < r.end + n - RingSize /\ first + j = i
        BY ONLY <1>0, <1>1, <1>4, <2>3, <3>3
      <4>2. At(m, k) = m[j]
        BY Zenon, <3>3 DEF At
      <4> HIDE DEF k, j, first
      <4> QED BY Zenon, <2>1, <3>1, <4>1, <4>2
    <3> QED BY Zenon, <3>2, <3>3
  <2>4. Ordered(s)
    BY <1>0, <1>1, <2>1 DEF Ordered
  <2> QED BY Zenon, <1>1, <1>4, <2>1, <2>2, <2>3, <2>4
<1> QED BY <1>0, <1>2, <1>3, <1>4

(* The ring holds the positions of a stream from `from' on.                *)
Holds(r, from) == \A i \in Nat : i < r.end - r.begin => Stored(r, i) = from + i

(* read and consume of n bytes leave the positions after these n.          *)
LEMMA HoldsAdvance ==
  ASSUME NEW r \in Ring, Ordered(r), NEW n \in Nat, n <= r.end - r.begin,
         NEW s, s = Advance(r, n), NEW from \in Int, Holds(r, from)
  PROVE  Holds(s, from + n)
<1>0. r.begin \in Nat /\ r.end \in Nat
  BY Zenon, Fields
<1>1. /\ s \in Ring
      /\ s.end - s.begin = r.end - r.begin - n
      /\ \A i \in Nat : i < s.end - s.begin => Stored(s, i) = Stored(r, n + i)
  BY AdvanceStored
<1> SUFFICES ASSUME NEW i \in Nat, i < s.end - s.begin
             PROVE  Stored(s, i) = from + n + i
  BY Zenon DEF Holds
<1>2. s.begin \in Nat /\ s.end \in Nat
  BY Zenon, <1>1, Fields
<1>3. n + i \in Nat /\ n + i < r.end - r.begin
  BY <1>0, <1>1, <1>2
<1>4. Stored(r, n + i) = from + (n + i)
  BY Zenon, <1>3 DEF Holds
<1>5. Stored(s, i) = Stored(r, n + i)
  BY Zenon, <1>1
<1> QED BY <1>4, <1>5

(* write appends the next positions, unless it found end_ past the memory. *)
LEMMA HoldsWrite ==
  ASSUME NEW r \in Ring, Ordered(r), NEW length \in Nat, NEW from \in Nat,
         NEW top \in Nat, top = from + (r.end - r.begin),
         NEW data, data \in [0..(length - 1) -> Nat],
         \A i \in 0..(length - 1) : data[i] = top + i,
         NEW n, n = writeLength(r, length),
         NEW s, s = write(r, data, length), r.end < RingSize, Holds(r, from)
  PROVE  Holds(s, from)
<1>0. r.begin \in Nat /\ r.end \in Nat
  BY Zenon, Fields
<1>a. /\ n \in Nat /\ n <= length
      /\ s \in Ring /\ Ordered(s)
      /\ s.begin = r.begin
      /\ s.end = IF r.end < RingSize THEN r.end + n ELSE r.end
      /\ \A i \in Nat : i < r.end - r.begin => Stored(s, i) = Stored(r, i)
      /\ r.end < RingSize =>
           \A i \in Nat : i < n => Stored(s, r.end - r.begin + i) = data[i]
  BY ONLY r \in Ring, Ordered(r), length \in Nat, data \in [0..(length - 1) -> Nat],
          n = writeLength(r, length), s = write(r, data, length), WriteStored
<1>1. /\ n \in Nat /\ n <= length
      /\ s.begin = r.begin /\ s.end = r.end + n
      /\ \A i \in Nat : i < r.end - r.begin => Stored(s, i) = Stored(r, i)
      /\ \A i \in Nat : i < n => Stored(s, r.end - r.begin + i) = data[i]
  BY Zenon, <1>a
<1> SUFFICES ASSUME NEW i \in Nat, i < s.end - s.begin
             PROVE  Stored(s, i) = from + i
  BY Zenon DEF Holds
<1>2. CASE i < r.end - r.begin
  <2>1. Stored(s, i) = Stored(r, i)
    BY Zenon, <1>1, <1>2
  <2>2. Stored(r, i) = from + i
    BY Zenon, <1>2 DEF Holds
  <2> QED BY Zenon, <2>1, <2>2
<1>3. CASE ~(i < r.end - r.begin)
  <2> DEFINE j == i - (r.end - r.begin)
  <2>1. j \in Nat /\ j < n /\ r.end - r.begin + j = i /\ j \in 0..(length - 1)
        /\ top + j = from + i
    BY ONLY <1>0, <1>1, <1>3, i \in Nat, i < s.end - s.begin, length \in Nat,
            from \in Nat, top = from + (r.end - r.begin)
  <2> HIDE DEF j
  <2>2. Stored(s, r.end - r.begin + j) = data[j]
    BY Zenon, <1>1, <2>1
  <2>3. data[j] = top + j
    BY Zenon, <2>1
  <2> QED BY Zenon, <2>1, <2>2, <2>3
<1> QED BY Zenon, <1>2, <1>3

(* What read and read_offset return are the positions at that offset.      *)
LEMMA HoldsFetch ==
  ASSUME NEW r \in Ring, Ordered(r), NEW from \in Int, Holds(r, from),
         NEW off \in Nat, NEW n \in Nat, off + n <= r.end - r.begin,
         NEW bytes, bytes = Fetch(r, r.begin + off, n)
  PROVE  \A i \in 0..(n - 1) : bytes[i] = from + off + i
<1>0. r.begin \in Nat /\ r.end \in Nat
  BY Zenon, Fields
<1> SUFFICES ASSUME NEW i \in 0..(n - 1) PROVE bytes[i] = from + off + i
  BY Zenon
<1>1. off + i \in Nat /\ off + i < r.end - r.begin
  BY <1>0
<1>2. bytes[i] = At(r.mem, (r.begin + off) + i)
  BY Zenon DEF Fetch
<1>3. (r.begin + off) + i = r.begin + (off + i)
  BY <1>0
<1>4. bytes[i] = Stored(r, off + i)
  BY Zenon, <1>2, <1>3 DEF Stored
<1>5. Stored(r, off + i) = from + (off + i)
  BY Zenon, <1>1 DEF Holds
<1> QED BY <1>4, <1>5

-----------------------------------------------------------------------------
(* The inductive invariant: the properties to prove, and that every stored *)
(* byte is one of the stream written so far.                               *)
RingInv ==
  /\ RingTypeOK
  /\ EndsInOrder
  /\ \A i \in 0..(remaining(rbuf) - 1) : Stored(rbuf, i) < reported
  /\ StoredInOrder
  /\ StoredIsStream
  /\ ReadsAreFifo

(* read and consume keep the facts about the stored bytes.                 *)
LEMMA TakeKeeps ==
  ASSUME RingInv, NEW n \in Nat, n <= remaining(rbuf), rbuf' = Advance(rbuf, n),
         taken' = taken + n, UNCHANGED <<reported, gone>>
  PROVE  /\ rbuf' \in Ring /\ EndsInOrder'
         /\ taken' \in Nat
         /\ (\A i \in 0..(remaining(rbuf) - 1) : Stored(rbuf, i) < reported)'
         /\ StoredInOrder'
         /\ StoredIsStream'
<1>1. rbuf \in Ring /\ Ordered(rbuf)
  BY Zenon DEF RingInv, RingTypeOK, EndsInOrder
<1>2. remaining(rbuf) = rbuf.end - rbuf.begin /\ remaining(rbuf) \in Nat
  BY <1>1, Counts
<1>3. /\ rbuf' \in Ring /\ Ordered(rbuf')
      /\ rbuf'.end - rbuf'.begin = rbuf.end - rbuf.begin - n
      /\ \A i \in Nat : i < rbuf'.end - rbuf'.begin => Stored(rbuf', i) = Stored(rbuf, n + i)
  BY <1>1, <1>2, AdvanceStored
<1>4. remaining(rbuf)' = rbuf'.end - rbuf'.begin
  BY Zenon, <1>3, Counts
<1>5. remaining(rbuf)' = remaining(rbuf) - n
  BY Zenon, <1>2, <1>3, <1>4
<1>6. \A i \in Nat : i < remaining(rbuf)' => Stored(rbuf, i)' = Stored(rbuf, n + i)
  BY Zenon, <1>3, <1>4
<1> DEFINE k == remaining(rbuf)
<1>t. reported \in Nat /\ taken \in Nat /\ gone \in Nat
  BY MaxAcceptedAssumption DEF RingInv, RingTypeOK
<1>7. (\A i \in 0..(remaining(rbuf) - 1) : Stored(rbuf, i) < reported)'
  <2> SUFFICES ASSUME NEW i \in 0..(k' - 1) PROVE Stored(rbuf, i)' < reported
    BY Zenon
  <2>1. n + i \in 0..(k - 1) /\ i \in Nat /\ i < k'
    BY ONLY <1>2, <1>5, n \in Nat, n <= k, i \in 0..(k' - 1)
  <2> QED BY Zenon, <1>6, <2>1 DEF RingInv
<1>8. StoredInOrder'
  <2> SUFFICES ASSUME NEW i \in 0..(k' - 1), NEW j \in 0..(k' - 1), i < j
               PROVE  Stored(rbuf, i)' < Stored(rbuf, j)'
    BY Zenon DEF StoredInOrder
  <2>1. n + i \in 0..(k - 1) /\ n + j \in 0..(k - 1) /\ n + i < n + j
        /\ i \in Nat /\ j \in Nat /\ i < k' /\ j < k'
    BY ONLY <1>2, <1>5, n \in Nat, n <= k, i \in 0..(k' - 1), j \in 0..(k' - 1), i < j
  <2> QED BY Zenon, <1>6, <2>1 DEF RingInv, StoredInOrder
<1>9. StoredIsStream'
  <2> SUFFICES ASSUME gone = 0
               PROVE  /\ k' = reported - (taken + n)
                      /\ \A i \in 0..(k' - 1) : Stored(rbuf, i)' = taken + n + i
    BY Zenon DEF StoredIsStream
  <2>1. k = reported - taken
    BY Zenon DEF RingInv, StoredIsStream
  <2>2. ASSUME NEW i \in 0..(k' - 1) PROVE Stored(rbuf, i)' = taken + n + i
    <3>1. n + i \in 0..(k - 1) /\ i \in Nat /\ i < k'
      BY ONLY <1>2, <1>5, n \in Nat, n <= k, i \in 0..(k' - 1)
    <3>2. Stored(rbuf, n + i) = taken + (n + i)
      BY Zenon, <3>1 DEF RingInv, StoredIsStream
    <3> QED BY <1>6, <1>t, <3>1, <3>2
  <2> QED BY <1>5, <1>t, <2>1, <2>2
<1> QED BY <1>3, <1>7, <1>8, <1>9, <1>t DEF EndsInOrder

(* What read and read_offset return is what is stored at the offset.       *)
LEMMA FetchStream ==
  ASSUME RingInv, gone = 0, NEW offset \in Nat, NEW n \in Nat,
         offset + n <= remaining(rbuf),
         NEW bytes, bytes = Fetch(rbuf, rbuf.begin + offset, n)
  PROVE  \A i \in DOMAIN bytes : bytes[i] = taken + offset + i
<1>1. rbuf \in Ring /\ Ordered(rbuf)
  BY Zenon DEF RingInv, RingTypeOK, EndsInOrder
<1>2. remaining(rbuf) \in Nat /\ rbuf.begin \in Nat /\ taken \in Nat
  BY <1>1, Counts, Fields DEF RingInv, RingTypeOK
<1> SUFFICES ASSUME NEW i \in 0..(n - 1) PROVE bytes[i] = taken + offset + i
  BY Zenon DEF Fetch
<1>3. offset + i \in 0..(remaining(rbuf) - 1)
  BY <1>2
<1>4. bytes[i] = At(rbuf.mem, (rbuf.begin + offset) + i)
  BY Zenon DEF Fetch
<1>5. (rbuf.begin + offset) + i = rbuf.begin + (offset + i)
  BY <1>2
<1>6. bytes[i] = Stored(rbuf, offset + i)
  BY Zenon, <1>4, <1>5 DEF Stored
<1>7. Stored(rbuf, offset + i) = taken + (offset + i)
  BY Zenon, <1>3 DEF RingInv, StoredIsStream
<1> QED BY <1>2, <1>6, <1>7

(* A new RingBuffer satisfies the invariant.                               *)
LEMMA RingInitInv == RingInit => RingInv
<1> SUFFICES ASSUME RingInit PROVE RingInv
  BY Zenon
<1>1. rbuf = [begin |-> 0, end |-> 0, mem |-> [i \in 0..(RingSize - 1) |-> 0]]
  BY Zenon DEF RingInit, NewRing
<1>2. rbuf \in Ring /\ Ordered(rbuf) /\ rbuf.end - rbuf.begin = 0
  BY <1>1, RingAssumption DEF Ring, Ordered
<1>3. remaining(rbuf) = 0
  BY Zenon, <1>2, Counts
<1>4. DOMAIN out = {} /\ reported = 0 /\ taken = 0 /\ gone = 0 /\ outFrom = 0
  BY Zenon DEF RingInit
<1>5. RingTypeOK
  BY <1>2, <1>4, MaxAcceptedAssumption DEF RingTypeOK
<1> QED BY <1>2, <1>3, <1>4, <1>5
       DEF RingInv, EndsInOrder, StoredInOrder, StoredIsStream, ReadsAreFifo

(* RingBuffer::write keeps the invariant, in each of its three branches.   *)
LEMMA WriteInv ==
  ASSUME RingInv, NEW length \in Nat, Write(length)
  PROVE  RingInv'
<1> DEFINE data == [i \in 0..(length - 1) |-> reported + i]
           n == writeLength(rbuf, length)
           k == remaining(rbuf)
<1>t. reported \in Nat /\ taken \in Nat /\ gone \in Nat
  BY MaxAcceptedAssumption DEF RingInv, RingTypeOK
<1>1. rbuf \in Ring /\ Ordered(rbuf)
  BY Zenon DEF RingInv, RingTypeOK, EndsInOrder
<1>2. k = rbuf.end - rbuf.begin /\ k \in Nat /\ rbuf.end \in Nat /\ rbuf.begin \in Nat
  BY <1>1, Counts, Fields
<1>3. data \in [0..(length - 1) -> Nat]
  BY <1>t
<1>4. rbuf' = write(rbuf, data, length)
  BY Zenon DEF Write
<1> HIDE DEF data
<1>5. /\ n \in Nat /\ n <= length
      /\ rbuf' \in Ring /\ Ordered(rbuf')
      /\ rbuf'.begin = rbuf.begin
      /\ rbuf'.end = IF rbuf.end < RingSize THEN rbuf.end + n ELSE rbuf.end
      /\ \A i \in Nat : i < rbuf.end - rbuf.begin => Stored(rbuf', i) = Stored(rbuf, i)
      /\ rbuf.end < RingSize =>
           \A i \in Nat : i < n => Stored(rbuf', rbuf.end - rbuf.begin + i) = data[i]
  BY <1>1, <1>3, <1>4, WriteStored
<1> HIDE DEF n, k
<1>6. k' = rbuf'.end - rbuf'.begin
  BY Zenon, <1>5, Counts DEF k
<1>7. /\ reported' = reported + n
      /\ gone' = gone + n - (rbuf'.end - rbuf.end)
      /\ UNCHANGED <<taken, out, outFrom>>
      /\ reported + length <= MaxAccepted
  BY Zenon DEF Write, n
<1>8. \A i \in Nat : i < k => Stored(rbuf', i) = Stored(rbuf, i)
  BY Zenon, <1>2, <1>5
<1>9. \A i \in 0..(k - 1) : Stored(rbuf, i) < reported
  BY Zenon DEF RingInv, k
<1>10. \A i, j \in 0..(k - 1) : i < j => Stored(rbuf, i) < Stored(rbuf, j)
  BY Zenon DEF RingInv, StoredInOrder, k
<1>11. gone = 0 => k = reported - taken /\ \A i \in 0..(k - 1) : Stored(rbuf, i) = taken + i
  BY Zenon DEF RingInv, StoredIsStream, k
<1>12. ReadsAreFifo /\ gone \in Nat /\ outFrom \in Nat /\ DOMAIN out \subseteq Nat
  BY Zenon DEF RingInv, RingTypeOK
<1>13. reported' \in 0..MaxAccepted
  BY <1>t, <1>5, <1>7, MaxAcceptedAssumption
<1>a. CASE rbuf.end < RingSize
  <2>1. k' = k + n /\ gone' = gone
    BY <1>a, <1>2, <1>5, <1>6, <1>7, <1>t
  <2>2. \A i \in Nat : i < n => Stored(rbuf', k + i) = reported + i
    <3> SUFFICES ASSUME NEW i \in Nat, i < n PROVE Stored(rbuf', k + i) = reported + i
      BY Zenon
    <3>1. Stored(rbuf', k + i) = data[i]
      BY Zenon, <1>a, <1>2, <1>5
    <3>2. i \in 0..(length - 1)
      BY <1>5
    <3> QED BY Zenon, <3>1, <3>2 DEF data
  <2>3. ASSUME NEW i \in 0..(k' - 1), ~(i < k)
        PROVE  Stored(rbuf', i) = reported + (i - k)
    <3>1. i - k \in Nat /\ i - k < n /\ k + (i - k) = i
      BY ONLY <1>2, <1>5, <2>1, <2>3, i \in 0..(k' - 1)
    <3>2. Stored(rbuf', k + (i - k)) = reported + (i - k)
      BY Zenon, <2>2, <3>1
    <3> QED BY Zenon, <3>1, <3>2
  <2>4. ASSUME NEW i \in 0..(k' - 1), i < k
        PROVE  i \in 0..(k - 1) /\ Stored(rbuf', i) = Stored(rbuf, i)
    BY <1>2, <1>8, <2>4
  <2>5. \A i \in 0..(k' - 1) : Stored(rbuf', i) < reported'
    <3> SUFFICES ASSUME NEW i \in 0..(k' - 1) PROVE Stored(rbuf', i) < reported'
      BY Zenon
    <3>1. CASE i < k
      <4>1. Stored(rbuf, i) \in Nat
        BY <1>1, <1>2, <2>4, <3>1, StoredNat
      <4> QED BY <1>5, <1>7, <1>9, <1>t, <2>4, <3>1, <4>1
    <3>2. CASE ~(i < k)
      <4>1. i - k < n
        BY <1>2, <1>5, <2>1, <3>2
      <4> QED BY <1>2, <1>5, <1>7, <1>t, <2>1, <2>3, <3>2, <4>1
    <3> QED BY Zenon, <3>1, <3>2
  <2>6. \A i, j \in 0..(k' - 1) : i < j => Stored(rbuf', i) < Stored(rbuf', j)
    <3> SUFFICES ASSUME NEW i \in 0..(k' - 1), NEW j \in 0..(k' - 1), i < j
                 PROVE  Stored(rbuf', i) < Stored(rbuf', j)
      BY Zenon
    <3>1. CASE j < k
      <4>1. i < k
        BY <3>1, <1>2, <2>1, <1>5
      <4> QED BY Zenon, <1>10, <2>4, <3>1, <4>1
    <3>2. CASE ~(j < k) /\ i < k
      <4>1. Stored(rbuf, i) \in Nat /\ Stored(rbuf, i) < reported
        BY <1>1, <1>2, <1>9, <2>4, <3>2, StoredNat
      <4>2. Stored(rbuf', j) = reported + (j - k) /\ j - k \in Nat
        BY <1>2, <1>5, <2>1, <2>3, <3>2
      <4> QED BY <1>t, <2>4, <3>2, <4>1, <4>2
    <3>3. CASE ~(j < k) /\ ~(i < k)
      <4>1. Stored(rbuf', j) = reported + (j - k) /\ Stored(rbuf', i) = reported + (i - k)
        BY Zenon, <2>3, <3>3
      <4> QED BY <1>2, <1>5, <1>t, <2>1, <4>1
    <3> QED BY Zenon, <3>1, <3>2, <3>3
  <2>7. ASSUME gone' = 0
        PROVE  /\ k' = reported' - taken'
               /\ \A i \in 0..(k' - 1) : Stored(rbuf', i) = taken' + i
    <3>1. gone = 0 /\ k = reported - taken
      BY Zenon, <1>11, <2>1, <2>7
    <3>2. k' = reported' - taken'
      BY <1>5, <1>7, <1>t, <2>1, <3>1
    <3>3. ASSUME NEW i \in 0..(k' - 1) PROVE Stored(rbuf', i) = taken + i
      <4>1. CASE i < k
        BY Zenon, <1>11, <2>4, <3>1, <4>1
      <4>2. CASE ~(i < k)
        BY <1>t, <1>2, <1>5, <2>1, <2>3, <3>1, <4>2
      <4> QED BY Zenon, <4>1, <4>2
    <3> QED BY Zenon, <1>7, <3>2, <3>3
  <2>8. ReadsAreFifo'
    BY Zenon, <1>7, <1>12, <2>1 DEF ReadsAreFifo
  <2>9. RingTypeOK'
    BY Zenon, <1>5, <1>7, <1>12, <1>13, <1>t, <2>1 DEF RingTypeOK
  <2> QED BY Zenon, <1>5, <2>5, <2>6, <2>7, <2>8, <2>9
          DEF RingInv, EndsInOrder, StoredInOrder, StoredIsStream, k
<1>b. CASE ~(rbuf.end < RingSize)
  <2>1. k' = k /\ gone' = gone + n
    BY <1>b, <1>2, <1>5, <1>6, <1>7, <1>t
  <2>2. ASSUME NEW i \in 0..(k' - 1)
        PROVE  i \in 0..(k - 1) /\ Stored(rbuf', i) = Stored(rbuf, i)
    BY <1>2, <1>8, <2>1
  <2>3. \A i \in 0..(k' - 1) : Stored(rbuf', i) < reported'
    <3> SUFFICES ASSUME NEW i \in 0..(k' - 1) PROVE Stored(rbuf', i) < reported'
      BY Zenon
    <3>1. Stored(rbuf, i) \in Nat
      BY <1>1, <1>2, <2>2, StoredNat
    <3> QED BY <1>5, <1>7, <1>9, <1>t, <2>2, <3>1
  <2>4. \A i, j \in 0..(k' - 1) : i < j => Stored(rbuf', i) < Stored(rbuf', j)
    BY Zenon, <1>10, <2>2
  <2>5. ASSUME gone' = 0
        PROVE  /\ k' = reported' - taken'
               /\ \A i \in 0..(k' - 1) : Stored(rbuf', i) = taken' + i
    <3>1. gone = 0 /\ n = 0
      BY <1>5, <1>t, <2>1, <2>5
    <3> QED BY <1>7, <1>11, <1>t, <2>1, <2>2, <3>1
  <2>6. ReadsAreFifo'
    <3>1. gone' = 0 => gone = 0
      BY <1>5, <1>t, <2>1
    <3> QED BY Zenon, <1>7, <1>12, <3>1 DEF ReadsAreFifo
  <2>7. RingTypeOK'
    BY <1>5, <1>7, <1>12, <1>13, <1>t, <2>1 DEF RingTypeOK
  <2> QED BY Zenon, <1>5, <2>3, <2>4, <2>5, <2>6, <2>7
          DEF RingInv, EndsInOrder, StoredInOrder, StoredIsStream, k
<1> QED BY Zenon, <1>a, <1>b

(* read and consume keep the invariant.                                    *)
LEMMA TakeInv ==
  ASSUME RingInv, NEW length \in Nat, Read(length) \/ Consume(length)
  PROVE  RingInv'
<1> DEFINE n == Least(length, remaining(rbuf))
<1>t. /\ reported \in 0..MaxAccepted /\ taken \in Nat /\ gone \in Nat /\ outFrom \in Nat
      /\ DOMAIN out \subseteq Nat
  BY Zenon DEF RingInv, RingTypeOK
<1>1. rbuf \in Ring /\ Ordered(rbuf)
  BY Zenon DEF RingInv, RingTypeOK, EndsInOrder
<1>2. /\ remaining(rbuf) = rbuf.end - rbuf.begin /\ remaining(rbuf) \in Nat
      /\ rbuf.begin \in Nat /\ rbuf.end \in Nat
  BY <1>1, Counts, Fields
<1>3. n \in Nat /\ n <= remaining(rbuf)
  BY <1>2 DEF Least
<1>a. CASE empty(rbuf) /\ Read(length)
  <2>1. /\ UNCHANGED <<rbuf, reported, gone>> /\ taken' = taken + 0
        /\ out' = Fetch(rbuf, rbuf.begin, 0) /\ outFrom' = taken
    BY Zenon, <1>a DEF Read, read, readBytes, readLength
  <2>2. taken' = taken /\ DOMAIN out' = {}
    BY <1>t, <2>1 DEF Fetch
  <2> QED BY <1>t, <2>1, <2>2
          DEF RingInv, RingTypeOK, EndsInOrder, StoredInOrder, StoredIsStream, ReadsAreFifo,
              Ordered, remaining, SizeSub, Stored, At
<1>b. CASE ~empty(rbuf) /\ Read(length)
  <2>1. /\ rbuf' = Advance(rbuf, n) /\ taken' = taken + n
        /\ UNCHANGED <<reported, gone>>
        /\ out' = Fetch(rbuf, rbuf.begin, n) /\ outFrom' = taken
    BY Zenon, <1>b DEF Read, read, readBytes, readLength
  <2> HIDE DEF n
  <2>2. /\ rbuf' \in Ring /\ EndsInOrder' /\ taken' \in Nat
        /\ (\A i \in 0..(remaining(rbuf) - 1) : Stored(rbuf, i) < reported)'
        /\ StoredInOrder' /\ StoredIsStream'
    BY Zenon, <1>3, <2>1, TakeKeeps
  <2>3. ReadsAreFifo'
    <3> SUFFICES ASSUME gone = 0 PROVE \A i \in DOMAIN out' : out'[i] = taken + i
      BY Zenon, <2>1 DEF ReadsAreFifo
    <3>1. rbuf.begin + 0 = rbuf.begin /\ taken + 0 = taken /\ 0 + n <= remaining(rbuf)
      BY <1>2, <1>3, <1>t
    <3>2. \A i \in DOMAIN out' : out'[i] = taken + 0 + i
      BY <1>3, <2>1, <3>1, FetchStream
    <3> QED BY Zenon, <3>1, <3>2
  <2>4. DOMAIN out' \subseteq Nat
    BY <1>3, <2>1 DEF Fetch
  <2> QED BY Zenon, <1>t, <2>1, <2>2, <2>3, <2>4 DEF RingInv, RingTypeOK
<1>c. CASE Consume(length)
  <2>1. /\ rbuf' = Advance(rbuf, n) /\ taken' = taken + n
        /\ UNCHANGED <<reported, gone, out, outFrom>>
    BY Zenon, <1>c DEF Consume, consume, consumeLength
  <2> HIDE DEF n
  <2>2. /\ rbuf' \in Ring /\ EndsInOrder' /\ taken' \in Nat
        /\ (\A i \in 0..(remaining(rbuf) - 1) : Stored(rbuf, i) < reported)'
        /\ StoredInOrder' /\ StoredIsStream'
    BY Zenon, <1>3, <2>1, TakeKeeps
  <2>3. ReadsAreFifo'
    BY Zenon, <2>1 DEF RingInv, ReadsAreFifo
  <2> QED BY Zenon, <1>t, <2>1, <2>2, <2>3 DEF RingInv, RingTypeOK
<1> QED BY Zenon, <1>a, <1>b, <1>c

(* read_offset keeps the invariant and returns stored bytes.               *)
LEMMA ReadOffsetInv ==
  ASSUME RingInv, NEW offset \in Nat, NEW length \in Nat, ReadOffset(offset, length)
  PROVE  RingInv'
<1> DEFINE n == Least(length, rbuf.end - (rbuf.begin + offset))
<1>t. /\ reported \in 0..MaxAccepted /\ taken \in Nat /\ gone \in Nat /\ outFrom \in Nat
  BY Zenon DEF RingInv, RingTypeOK
<1>1. rbuf \in Ring /\ Ordered(rbuf)
  BY Zenon DEF RingInv, RingTypeOK, EndsInOrder
<1>2. /\ remaining(rbuf) = rbuf.end - rbuf.begin /\ remaining(rbuf) \in Nat
      /\ rbuf.begin \in Nat /\ rbuf.end \in Nat
  BY <1>1, Counts, Fields
<1>3. /\ offset <= remaining(rbuf) /\ UNCHANGED <<rbuf, reported, taken, gone>>
      /\ outFrom' = taken + offset
  BY Zenon DEF ReadOffset
<1>4. SizeSub(rbuf.end, rbuf.begin + offset) = rbuf.end - (rbuf.begin + offset)
  BY <1>2, <1>3 DEF SizeSub
<1>5. out' = Fetch(rbuf, rbuf.begin + offset, n)
  BY Zenon, <1>4 DEF ReadOffset, offsetBytes, offsetLength
<1>6. n \in Nat /\ offset + n <= remaining(rbuf)
  BY <1>2, <1>3 DEF Least
<1> HIDE DEF n
<1>7. ReadsAreFifo'
  <2> SUFFICES ASSUME gone = 0 PROVE \A i \in DOMAIN out' : out'[i] = taken + offset + i
    BY Zenon, <1>3 DEF ReadsAreFifo
  <2> QED BY <1>5, <1>6, FetchStream
<1>8. DOMAIN out' \subseteq Nat /\ outFrom' \in Nat
  BY <1>3, <1>5, <1>6, <1>t DEF Fetch
<1> QED BY <1>t, <1>3, <1>7, <1>8
        DEF RingInv, RingTypeOK, EndsInOrder, StoredInOrder, StoredIsStream,
            Ordered, remaining, SizeSub, Stored, At

(* For every size of the ring and every sequence of calls: the DCHECKs on  *)
(* begin_ hold, the stored bytes are in order, and until write loses bytes *)
(* the ring holds exactly the stream and read and read_offset return it in *)
(* order (ring_buffer.cpp).                                                *)
THEOREM RingInvariant == RingSpec => []RingInv
<1>1. RingInv /\ [RingNext]_ringVars => RingInv'
  <2> SUFFICES ASSUME RingInv, [RingNext]_ringVars PROVE RingInv'
    BY Zenon
  <2>1. ASSUME NEW length \in 1..(RingSize + 1),
               Write(length) \/ Read(length) \/ Consume(length)
        PROVE  RingInv'
    <3>1. length \in Nat
      BY RingAssumption
    <3> QED BY Zenon, <2>1, <3>1, WriteInv, TakeInv
  <2>2. ASSUME NEW offset \in 0..RingSize, NEW length \in 1..(RingSize + 1),
               ReadOffset(offset, length)
        PROVE  RingInv'
    <3>1. length \in Nat /\ offset \in Nat
      BY RingAssumption
    <3> QED BY Zenon, <2>2, <3>1, ReadOffsetInv
  <2>3. CASE UNCHANGED ringVars
    BY <2>3 DEF ringVars, RingInv, RingTypeOK, EndsInOrder, StoredInOrder, StoredIsStream,
                ReadsAreFifo, Ordered, remaining, SizeSub, Stored, At
  <2> QED BY Zenon, <2>1, <2>2, <2>3 DEF RingNext
<1> QED BY <1>1, RingInitInv, PTL DEF RingSpec

(* The ends never go below zero and the histories have their types.        *)
THEOREM RingTypes == RingSpec => []RingTypeOK
<1>1. RingInv => RingTypeOK
  BY Zenon DEF RingInv
<1> QED BY <1>1, RingInvariant, PTL

(* begin_ stays inside the memory and end_ at most RingSize ahead of it,   *)
(* whatever is called: the DCHECKs of read, write and consume.             *)
THEOREM RingEnds == RingSpec => []EndsInOrder
<1>1. RingInv => EndsInOrder
  BY Zenon DEF RingInv
<1> QED BY <1>1, RingInvariant, PTL

(* The bytes in the ring are in the order of the writes, none of them      *)
(* twice, also after a write that lost bytes.                              *)
THEOREM RingOrder == RingSpec => []StoredInOrder
<1>1. RingInv => StoredInOrder
  BY Zenon DEF RingInv
<1> QED BY <1>1, RingInvariant, PTL

(* Until a write loses bytes, the ring holds exactly what write reported   *)
(* and nobody has taken.                                                   *)
THEOREM RingFifo == RingSpec => []StoredIsStream
<1>1. RingInv => StoredIsStream
  BY Zenon DEF RingInv
<1> QED BY <1>1, RingInvariant, PTL

(* Until a write loses bytes, read and read_offset return the bytes of the *)
(* stream that follow the ones already taken.                              *)
THEOREM RingReads == RingSpec => []ReadsAreFifo
<1>1. RingInv => ReadsAreFifo
  BY Zenon DEF RingInv
<1> QED BY <1>1, RingInvariant, PTL

-----------------------------------------------------------------------------
(* The ring implements the abstract queue of ByteQueue.                    *)

(* The bytes Fetch returns are the stored ones, as the queue names them.   *)
LEMMA FetchQueue ==
  ASSUME RingInv, NEW k \in Nat, NEW n \in Nat, k + n <= remaining(rbuf),
         NEW bytes, bytes = Fetch(rbuf, rbuf.begin + k, n)
  PROVE  bytes = [i \in 0..(n - 1) |->
                    [j \in 0..(remaining(rbuf) - 1) |-> Stored(rbuf, j)][k + i]]
<1>1. rbuf \in Ring /\ Ordered(rbuf)
  BY Zenon DEF RingInv, RingTypeOK, EndsInOrder
<1>2. remaining(rbuf) \in Nat /\ rbuf.begin \in Nat
  BY <1>1, Counts, Fields
<1>3. ASSUME NEW i \in 0..(n - 1)
      PROVE  At(rbuf.mem, (rbuf.begin + k) + i) =
               [j \in 0..(remaining(rbuf) - 1) |-> Stored(rbuf, j)][k + i]
  <2>1. k + i \in 0..(remaining(rbuf) - 1) /\ (rbuf.begin + k) + i = rbuf.begin + (k + i)
    BY <1>2
  <2> QED BY Zenon, <2>1 DEF Stored
<1> QED BY Zenon, <1>3 DEF Fetch

(* read and consume take the first n bytes of the queue.                   *)
LEMMA TakeQueue ==
  ASSUME RingInv, NEW n \in Nat, n <= remaining(rbuf), rbuf' = Advance(rbuf, n)
  PROVE  /\ remaining(rbuf)' = remaining(rbuf) - n
         /\ [i \in 0..(remaining(rbuf) - 1) |-> Stored(rbuf, i)]' =
              [i \in 0..(remaining(rbuf) - n - 1) |->
                 [j \in 0..(remaining(rbuf) - 1) |-> Stored(rbuf, j)][n + i]]
<1>1. rbuf \in Ring /\ Ordered(rbuf)
  BY Zenon DEF RingInv, RingTypeOK, EndsInOrder
<1>2. remaining(rbuf) = rbuf.end - rbuf.begin /\ remaining(rbuf) \in Nat
  BY <1>1, Counts
<1>3. /\ rbuf' \in Ring /\ Ordered(rbuf')
      /\ rbuf'.end - rbuf'.begin = rbuf.end - rbuf.begin - n
      /\ \A i \in Nat : i < rbuf'.end - rbuf'.begin => Stored(rbuf', i) = Stored(rbuf, n + i)
  BY <1>1, <1>2, AdvanceStored
<1>4. remaining(rbuf)' = rbuf'.end - rbuf'.begin
  BY Zenon, <1>3, Counts
<1>5. remaining(rbuf)' = remaining(rbuf) - n
  BY Zenon, <1>2, <1>3, <1>4
<1>6. ASSUME NEW i \in 0..(remaining(rbuf) - n - 1)
      PROVE  Stored(rbuf', i) = [j \in 0..(remaining(rbuf) - 1) |-> Stored(rbuf, j)][n + i]
  <2>1. n + i \in 0..(remaining(rbuf) - 1) /\ i \in Nat /\ i < remaining(rbuf) - n
    BY <1>2
  <2> QED BY Zenon, <1>2, <1>3, <2>1
<1> QED BY Zenon, <1>5, <1>6

(* write appends n bytes to the queue, or nothing.                         *)
LEMMA WriteQueue ==
  ASSUME RingInv, NEW length \in Nat, Write(length)
  PROVE  \E n \in 0..RingSize : Queue!Push(n)
<1> DEFINE data == [i \in 0..(length - 1) |-> reported + i]
           n == rbuf'.end - rbuf.end
           k == remaining(rbuf)
<1>1. rbuf \in Ring /\ Ordered(rbuf) /\ reported \in Nat
  BY MaxAcceptedAssumption DEF RingInv, RingTypeOK, EndsInOrder
<1>2. k = rbuf.end - rbuf.begin /\ k \in Nat /\ rbuf.end \in Nat /\ rbuf.begin \in Nat
  BY <1>1, Counts, Fields
<1>3. data \in [0..(length - 1) -> Nat]
  BY <1>1
<1>4. rbuf' = write(rbuf, data, length) /\ UNCHANGED out
  BY Zenon DEF Write
<1> HIDE DEF data
<1>5. /\ writeLength(rbuf, length) \in Nat
      /\ rbuf' \in Ring /\ Ordered(rbuf')
      /\ rbuf'.begin = rbuf.begin
      /\ rbuf'.end = IF rbuf.end < RingSize THEN rbuf.end + writeLength(rbuf, length) ELSE rbuf.end
      /\ \A i \in Nat : i < rbuf.end - rbuf.begin => Stored(rbuf', i) = Stored(rbuf, i)
  BY <1>1, <1>3, <1>4, WriteStored
<1>6. k' = rbuf'.end - rbuf'.begin /\ k' \in 0..RingSize
  BY Zenon, <1>5, Counts
<1>7. n \in 0..RingSize /\ k' = k + n /\ k + n <= RingSize
  BY <1>2, <1>5, <1>6, RingAssumption
<1>8. \A i \in 0..(k - 1) : Stored(rbuf', i) = Stored(rbuf, i) /\ i \in 0..(k' - 1)
  BY <1>2, <1>5, <1>7
<1> DEFINE bytes == [i \in 0..(remaining(rbuf) - 1) |-> Stored(rbuf, i)]
<1>9. /\ DOMAIN bytes' = 0..(k + n - 1)
      /\ \A i \in 0..(k - 1) : bytes'[i] = bytes[i]
  <2>1. DOMAIN bytes' = 0..(k' - 1)
    BY Zenon
  <2>2. DOMAIN bytes' = 0..(k + n - 1)
    <3>1. k' - 1 = k + n - 1
      BY <1>2, <1>6, <1>7
    <3> HIDE DEF k, n, bytes
    <3> QED BY Zenon, <2>1, <3>1
  <2>3. ASSUME NEW i \in 0..(k - 1) PROVE bytes'[i] = bytes[i]
    <3>1. i \in 0..(k' - 1) /\ Stored(rbuf, i)' = Stored(rbuf, i)
      BY Zenon, <1>8
    <3> QED BY Zenon, <3>1
  <2> QED BY Zenon, <2>2, <2>3
<1>10. Queue!Push(n)
  <2> HIDE DEF n
  <2> QED BY Zenon, <1>4, <1>7, <1>9 DEF Queue!Push
<1> QED BY Zenon, <1>7, <1>10

(* Every step of the ring is a step of the queue.                          *)
LEMMA StepQueue ==
  ASSUME RingInv, RingNext
  PROVE  Queue!QNext
<1>1. rbuf \in Ring /\ Ordered(rbuf)
  BY Zenon DEF RingInv, RingTypeOK, EndsInOrder
<1>2. /\ remaining(rbuf) = rbuf.end - rbuf.begin /\ remaining(rbuf) \in 0..RingSize
      /\ rbuf.begin \in Nat /\ rbuf.end \in Nat
  BY Zenon, <1>1, Counts, Fields
<1>3. RingSize \in Nat
  BY Zenon, RingAssumption
<1>w. ASSUME NEW length \in 1..(RingSize + 1), Write(length) PROVE Queue!QNext
  BY <1>w, <1>3, WriteQueue DEF Queue!QNext
<1>c. ASSUME NEW length \in 1..(RingSize + 1), Consume(length) PROVE Queue!QNext
  <2> DEFINE n == Least(length, remaining(rbuf))
  <2>1. n \in Nat /\ n <= remaining(rbuf) /\ n \in 0..RingSize
    BY <1>2, <1>3 DEF Least
  <2>2. rbuf' = Advance(rbuf, n) /\ UNCHANGED out
    BY Zenon, <1>c DEF Consume, consume, consumeLength
  <2> HIDE DEF n
  <2>3. Queue!Pop(n)
    BY Zenon, <2>1, <2>2, TakeQueue DEF Queue!Pop
  <2> QED BY Zenon, <2>1, <2>3 DEF Queue!QNext
<1>r. ASSUME NEW length \in 1..(RingSize + 1), Read(length) PROVE Queue!QNext
  <2> DEFINE n == readLength(rbuf, length)
  <2>1. n \in Nat /\ n <= remaining(rbuf) /\ n \in 0..RingSize
    BY <1>2, <1>3 DEF Least, readLength
  <2>2. out' = Fetch(rbuf, rbuf.begin, n) /\ rbuf.begin + 0 = rbuf.begin
    BY <1>r, <1>2 DEF Read, readBytes
  <2>3. out' = [i \in 0..(n - 1) |->
                  [j \in 0..(remaining(rbuf) - 1) |-> Stored(rbuf, j)][0 + i]]
    <3> HIDE DEF n
    <3>1. 0 \in Nat /\ 0 + n <= remaining(rbuf)
      BY <1>2, <2>1
    <3> QED BY Zenon, <2>1, <2>2, <3>1, FetchQueue
  <2>a. CASE empty(rbuf)
    <3>1. rbuf' = rbuf /\ n = 0
      BY Zenon, <1>r, <2>a DEF Read, read, readLength
    <3> HIDE DEF n
    <3>2. Queue!Peek(0, n)
      BY <1>2, <2>1, <2>3, <3>1 DEF Queue!Peek
    <3> QED BY <1>3, <2>1, <3>2 DEF Queue!QNext
  <2>b. CASE ~empty(rbuf)
    <3>1. rbuf' = Advance(rbuf, n)
      BY Zenon, <1>r, <2>b DEF Read, read
    <3> HIDE DEF n
    <3>2. \A i \in 0..(n - 1) : 0 + i = i
      BY <2>1
    <3>3. out' = [i \in 0..(n - 1) |-> [j \in 0..(remaining(rbuf) - 1) |-> Stored(rbuf, j)][i]]
      BY <2>3, <3>2
    <3>4. Queue!Pop(n)
      BY Zenon, <2>1, <3>1, <3>3, TakeQueue DEF Queue!Pop
    <3> QED BY Zenon, <2>1, <3>4 DEF Queue!QNext
  <2> QED BY Zenon, <2>a, <2>b
<1>o. ASSUME NEW offset \in 0..RingSize, NEW length \in 1..(RingSize + 1),
             ReadOffset(offset, length)
      PROVE  Queue!QNext
  <2> DEFINE n == Least(length, rbuf.end - (rbuf.begin + offset))
  <2>1. offset <= remaining(rbuf) /\ UNCHANGED rbuf
    BY Zenon, <1>o DEF ReadOffset
  <2>2. SizeSub(rbuf.end, rbuf.begin + offset) = rbuf.end - (rbuf.begin + offset)
    BY <1>2, <2>1 DEF SizeSub
  <2>3. out' = Fetch(rbuf, rbuf.begin + offset, n)
    BY Zenon, <1>o, <2>2 DEF ReadOffset, offsetBytes, offsetLength
  <2>4. n \in Nat /\ offset + n <= remaining(rbuf) /\ n \in 0..RingSize
    BY <1>2, <1>3, <2>1 DEF Least
  <2> HIDE DEF n
  <2>5. out' = [i \in 0..(n - 1) |->
                  [j \in 0..(remaining(rbuf) - 1) |-> Stored(rbuf, j)][offset + i]]
    <3>1. offset \in Nat
      BY <1>3
    <3> QED BY Zenon, <2>3, <2>4, <3>1, FetchQueue
  <2>6. Queue!Peek(offset, n)
    BY Zenon, <2>1, <2>4, <2>5 DEF Queue!Peek
  <2> QED BY Zenon, <2>4, <2>6 DEF Queue!QNext
<1> QED BY Zenon, <1>w, <1>c, <1>r, <1>o DEF RingNext

(* Whatever the calls and whatever write loses, the ring is a bounded      *)
(* queue: no call changes, moves or duplicates a stored byte, and read and *)
(* read_offset return stored bytes (ring_buffer.cpp).                      *)
THEOREM RingIsQueue == RingSpec => IsQueue
<1>1. RingInit => Queue!QInit
  <2> SUFFICES ASSUME RingInit PROVE Queue!QInit
    BY Zenon
  <2>1. rbuf.begin = 0 /\ rbuf.end = 0 /\ remaining(rbuf) = 0
    BY DEF RingInit, NewRing, remaining, SizeSub
  <2>2. 0..(remaining(rbuf) - 1) = {}
    BY <2>1
  <2> QED BY Zenon, <2>1, <2>2 DEF Queue!QInit, RingInit
<1>2. RingInv /\ [RingNext]_ringVars => [Queue!QNext]_(Queue!queueVars)
  <2>1. CASE UNCHANGED ringVars
    BY Zenon, <2>1 DEF ringVars, Queue!queueVars, remaining, SizeSub, Stored, At
  <2> QED BY Zenon, <2>1, StepQueue
<1> QED BY <1>1, <1>2, RingInvariant, PTL DEF RingSpec, IsQueue, Queue!QSpec
=============================================================================
