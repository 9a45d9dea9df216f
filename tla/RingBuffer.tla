----------------------------- MODULE RingBuffer -----------------------------
(***************************************************************************)
(* The byte ring of src/base/ring_buffer.cpp, as operators over a record   *)
(*    ring = [begin, end, mem]                                             *)
(* whose fields are begin_, end_ and the RingSize bytes behind buffer_.    *)
(* An operation of the class is one operator for the new ring and, where   *)
(* the caller looks at it, one for the returned count or bytes.  Buffers   *)
(* of the caller (char * and a length) are functions with domain 0..n-1.   *)
(***************************************************************************)
EXTENDS Integers

CONSTANTS
  RingSize,   \* size_
  SizeMod     \* 2^64: size_t arithmetic is modulo SizeMod

ASSUME RingAssumption ==
  /\ RingSize \in Nat \ {0}
  /\ SizeMod \in Nat
  /\ 4 * RingSize <= SizeMod

Least(a, b) == IF a <= b THEN a ELSE b

(* size_t subtraction: a wrapped difference is a huge number.              *)
SizeSub(a, b) == IF a >= b THEN a - b ELSE a - b + SizeMod

empty(r) == r.begin = r.end
full(r) == r.begin + RingSize = r.end
remaining(r) == SizeSub(r.end, r.begin)
free(r) == SizeSub(RingSize, remaining(r))

(* RingBuffer(size): nothing stored.  The memory of new char[size] is      *)
(* whatever it was; mem0 is its content.                                   *)
NewRing(mem0) == [begin |-> 0, end |-> 0, mem |-> mem0]

(* Variant for mutation: the data is always copied from its start.         *)
CopyFromStart(mem, at, data, from, n) ==
  [i \in DOMAIN mem |->
     IF at <= i /\ i < at + n THEN data[i - at] ELSE mem[i]]

(* memcpy(mem + at, data + from, n)                                        *)
Copy(mem, at, data, from, n) ==
  [i \in DOMAIN mem |->
     IF at <= i /\ i < at + n THEN data[from + (i - at)] ELSE mem[i]]

(* The byte an index denotes: past the memory, the one RingSize before.    *)
At(mem, k) == IF k < RingSize THEN mem[k] ELSE mem[k - RingSize]

(* n bytes of the ring from index `from', in one memcpy or, when the piece *)
(* reaches the end of the memory, in two.                                  *)
Fetch(r, from, n) == [i \in 0..(n - 1) |-> At(r.mem, from + i)]

(* Variant for mutation: only begin_ comes down.                           *)
AdvanceBeginOnly(r, n) ==
  [r EXCEPT !.begin = (r.begin + n) % RingSize]

(* begin_ moves over n bytes; both ends come down by RingSize when begin_  *)
(* leaves the memory.  The shared tail of read and consume.                *)
Advance(r, n) ==
  IF r.begin + n >= RingSize
  THEN [r EXCEPT !.begin = r.begin + n - RingSize, !.end = SizeSub(r.end, RingSize)]
  ELSE [r EXCEPT !.begin = r.begin + n]

(* RingBuffer::read                                                        *)
readLength(r, length) == IF empty(r) THEN 0 ELSE Least(length, remaining(r))
readBytes(r, length) == Fetch(r, r.begin, readLength(r, length))
read(r, length) == IF empty(r) THEN r ELSE Advance(r, readLength(r, length))

(* RingBuffer::consume                                                     *)
consumeLength(r, length) == Least(length, remaining(r))
consume(r, length) == Advance(r, consumeLength(r, length))

(* Variant for mutation: more may be asked for than is stored.             *)
OffsetUnclamped(r, offset, length) == length

(* RingBuffer::read_offset, and its DCHECK(begin_off + length <= end_)     *)
offsetLength(r, offset, length) ==
  Least(length, SizeSub(r.end, r.begin + offset))
offsetBytes(r, offset, length) ==
  Fetch(r, r.begin + offset, offsetLength(r, offset, length))
offsetCheck(r, offset, length) ==
  LET n == offsetLength(r, offset, length)
  IN  n = 0 \/ r.begin + offset + n <= r.end

(* RingBuffer::write.  When end_ is already at or past size_, the bytes    *)
(* are copied but end_ stays where it is.                                  *)
writeLength(r, length) == IF full(r) THEN 0 ELSE Least(length, free(r))

write(r, data, length) ==
  LET n     == writeLength(r, length)
      first == RingSize - r.end
  IN  IF full(r) THEN r
      ELSE IF r.end >= RingSize
           THEN [r EXCEPT !.mem = Copy(@, r.end - RingSize, data, 0, n)]
      ELSE IF r.end + n >= RingSize
           THEN [r EXCEPT !.mem = Copy(Copy(@, r.end, data, 0, first),
                                       0, data, first, n - first),
                          !.end = @ + n]
      ELSE [r EXCEPT !.mem = Copy(@, r.end, data, 0, n), !.end = @ + n]

(* The rings with bytes in Nat, and the ones the class keeps itself in:    *)
(* begin_ inside the memory, end_ at most RingSize ahead of it.            *)
Ring == [begin : Nat, end : Nat, mem : [0..(RingSize - 1) -> Nat]]
Ordered(r) ==
  /\ r.begin < RingSize
  /\ r.begin <= r.end
  /\ r.end <= r.begin + RingSize

(* The i-th stored byte, counted from 0.                                   *)
Stored(r, i) == At(r.mem, r.begin + i)
=============================================================================
