------------------------------ MODULE ByteQueue ------------------------------
(***************************************************************************)
(* What a ring buffer promises: a queue of at most Capacity bytes.  Bytes  *)
(* are appended, taken from the front, and looked at; nothing else happens *)
(* to them.  Implemented by RingBufferUse, whose write may also append     *)
(* nothing and say it did.                                                 *)
(***************************************************************************)
EXTENDS Integers

CONSTANT Capacity

VARIABLES len,     \* how many bytes the queue holds
          byte,    \* the bytes, a function on 0..(len - 1)
          result   \* the bytes the last call returned

queueVars == <<len, byte, result>>

QInit ==
  /\ len = 0
  /\ byte = [i \in {} |-> 0]
  /\ result = [i \in {} |-> 0]

\* n bytes more behind the ones that are there
Push(n) ==
  /\ len + n <= Capacity
  /\ len' = len + n
  /\ DOMAIN byte' = 0..(len + n - 1)
  /\ \A i \in 0..(len - 1) : byte'[i] = byte[i]
  /\ UNCHANGED result

\* the first n bytes are gone, returned or not
Pop(n) ==
  /\ n <= len
  /\ len' = len - n
  /\ byte' = [i \in 0..(len - n - 1) |-> byte[n + i]]
  /\ UNCHANGED result \/ result' = [i \in 0..(n - 1) |-> byte[i]]

\* n bytes from position k on are returned, and stay
Peek(k, n) ==
  /\ k + n <= len
  /\ result' = [i \in 0..(n - 1) |-> byte[k + i]]
  /\ UNCHANGED <<len, byte>>

QNext ==
  \E n \in 0..Capacity : Push(n) \/ Pop(n) \/ \E k \in 0..Capacity : Peek(k, n)

QSpec == QInit /\ [][QNext]_queueVars
=============================================================================
