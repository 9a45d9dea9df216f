---------------------------- MODULE RingBufferUse ---------------------------
(***************************************************************************)
(* A ring buffer under every sequence of calls a single caller can make.   *)
(* The bytes handed to write are the positions 0, 1, 2, ... of the stream  *)
(* of bytes that write has reported as written, so that what is stored or  *)
(* returned can be compared with what it should be.                        *)
(***************************************************************************)
EXTENDS RingBuffer

CONSTANT MaxAccepted   \* bound on the bytes written in a behaviour

ASSUME MaxAcceptedAssumption == MaxAccepted \in Nat

VARIABLES
  rbuf,       \* the RingBuffer object
  reported,   \* history: the sum of what write returned
  taken,      \* history: the sum of what read and consume returned
  gone,       \* history: bytes write counted as written without moving end_
  out,        \* the bytes the last read or read_offset returned
  outFrom     \* history: the position in the stream those bytes should start at

ringVars == <<rbuf, reported, taken, gone, out, outFrom>>

RingInit ==
  /\ rbuf = NewRing([i \in 0..(RingSize - 1) |-> 0])
  /\ reported = 0
  /\ taken = 0
  /\ gone = 0
  /\ out = [i \in {} |-> 0]
  /\ outFrom = 0

Write(length) ==
  /\ reported + length <= MaxAccepted
  /\ rbuf' = write(rbuf, [i \in 0..(length - 1) |-> reported + i], length)
  /\ reported' = reported + writeLength(rbuf, length)
  /\ gone' = gone + writeLength(rbuf, length) - (rbuf'.end - rbuf.end)
  /\ UNCHANGED <<taken, out, outFrom>>

Read(length) ==
  /\ rbuf' = read(rbuf, length)
  /\ out' = readBytes(rbuf, length)
  /\ outFrom' = taken
  /\ taken' = taken + readLength(rbuf, length)
  /\ UNCHANGED <<reported, gone>>

ReadOffset(offset, length) ==
  /\ offset <= remaining(rbuf)
  /\ out' = offsetBytes(rbuf, offset, length)
  /\ outFrom' = taken + offset
  /\ UNCHANGED <<rbuf, reported, taken, gone>>

Consume(length) ==
  /\ rbuf' = consume(rbuf, length)
  /\ taken' = taken + consumeLength(rbuf, length)
  /\ UNCHANGED <<reported, gone, out, outFrom>>

RingNext ==
  \/ \E length \in 1..(RingSize + 1) : Write(length) \/ Read(length) \/ Consume(length)
  \/ \E offset \in 0..RingSize, length \in 1..(RingSize + 1) : ReadOffset(offset, length)

RingSpec == RingInit /\ [][RingNext]_ringVars

-----------------------------------------------------------------------------
(* The types of the variables; the two ends never go below zero.           *)
RingTypeOK ==
  /\ rbuf \in Ring
  /\ reported \in 0..MaxAccepted /\ taken \in Nat /\ gone \in Nat
  /\ outFrom \in Nat
  /\ DOMAIN out \subseteq Nat

(* The two ends stay in order, at most RingSize apart, and begin_ stays in *)
(* the memory: DCHECK(begin_ < size_) in read, write and consume, and the  *)
(* reason why end_ - size_ in read and consume never goes below zero.      *)
EndsInOrder == Ordered(rbuf)

(* Whatever the history of wraps, the stored bytes are in the order they   *)
(* were written and none is stored twice, also after a write that found    *)
(* end_ past the end of the memory.                                        *)
StoredInOrder ==
  \A i, j \in 0..(remaining(rbuf) - 1) : i < j => Stored(rbuf, i) < Stored(rbuf, j)

(* Until a write loses bytes, the ring is a FIFO queue of bytes: read and  *)
(* read_offset return exactly the bytes of the stream that follow the ones *)
(* read or consumed before.                                                *)
ReadsAreFifo ==
  gone = 0 => \A i \in DOMAIN out : out[i] = outFrom + i

(* Until a write loses bytes, the ring holds exactly the bytes reported as *)
(* written and not yet read or consumed.                                   *)
StoredIsStream ==
  gone = 0 => /\ remaining(rbuf) = reported - taken
              /\ \A i \in 0..(remaining(rbuf) - 1) : Stored(rbuf, i) = taken + i

Queue == INSTANCE ByteQueue WITH
  Capacity <- RingSize, len <- remaining(rbuf),
  byte <- [i \in 0..(remaining(rbuf) - 1) |-> Stored(rbuf, i)], result <- out

(* Lost bytes or not, the ring is a bounded queue: every call appends to   *)
(* the stored bytes, takes the first ones, returns them or those at an     *)
(* offset, and never changes, moves or duplicates another.                 *)
IsQueue == Queue!QSpec

(* write reports n only if n more bytes are stored: what was reported and  *)
(* not yet taken is what remains in the ring.                              *)
ReportedIsStored == remaining(rbuf) = reported - taken
=============================================================================
