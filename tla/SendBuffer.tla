----------------------------- MODULE SendBuffer -----------------------------
(***************************************************************************)
(* src/tcp/send_buffer.cpp: the sending half of one TCP connection, with   *)
(* its RingBuffer, its fixed window and its fixed retransmission timer.    *)
(* The operations of the class are the actions; transmit(), which ends     *)
(* every one of them, is a loop of its own, one step per iteration, during *)
(* which no other operation of the object runs (pc).                       *)
(*                                                                         *)
(* The environment is the least the class relies on: an application that   *)
(* writes StreamLength bytes at most and closes once, an IP layer that may *)
(* refuse any packet, a network that loses, repeats and reorders segments, *)
(* and a peer that acknowledges, cumulatively, only what it has received.  *)
(* Bytes are the positions 0, 1, ... of the stream the application wrote.  *)
(***************************************************************************)
EXTENDS RingBuffer

CONSTANTS
  SeqMod,             \* 2^32: sequence numbers are 0..SeqMod - 1
  Isns,               \* the initial sequence numbers to choose from
  kMaxSegmentSize,
  kMaxBytesInFlight,  \* the window
  StreamLength        \* bound on the bytes the application writes

ASSUME SendAssumption ==
  /\ SeqMod \in Nat
  /\ Isns \subseteq 0..(SeqMod - 1)
  /\ kMaxSegmentSize \in Nat \ {0}
  /\ kMaxBytesInFlight \in Nat \ {0}
  /\ StreamLength \in Nat
  /\ SeqMod <= SizeMod
  /\ kMaxBytesInFlight + kMaxSegmentSize + StreamLength + 2 < SeqMod
  /\ kMaxBytesInFlight + kMaxSegmentSize + RingSize + StreamLength + 2 < SizeMod

VARIABLES
  ring,             \* buffer_
  SYN, FIN,         \* SYN_, FIN_
  initial,          \* tcb_->send.initial
  next,             \* tcb_->send.next
  unack,            \* tcb_->send.unack
  SYN_received,     \* tcb_->receive.SYN_received
  bytes_in_flight,
  alarm,            \* retransmission_alarm_->isSet()
  pc,               \* "idle", or inside transmit(), called from retransmit() or not
  checks,           \* no DCHECK has failed so far
  net,              \* every segment handed to the IP layer so far
  accepted,         \* history: bytes sendData has taken from the application
  lost,             \* history: bytes among them that RingBuffer::write dropped
  got               \* peer: how many sequence numbers, SYN and FIN included, it has

tcb == <<initial, next, unack, SYN_received>>
vars == <<ring, SYN, FIN, tcb, bytes_in_flight, alarm, pc, checks, net, accepted, lost, got>>

CtlState == {"None", "Sent", "Acked"}

(* uint32_t arithmetic, for operands below SeqMod.                         *)
SeqAdd(a, n) == IF a + n < SeqMod THEN a + n ELSE a + n - SeqMod
SeqSub(a, b) == IF a >= b THEN a - b ELSE a - b + SeqMod

(* The modulo comparisons of control_block.h, relative to send.initial.    *)
equal(a, b) == SeqSub(a, initial) = SeqSub(b, initial)
greaterThan(a, b) == SeqSub(a, initial) > SeqSub(b, initial)
greaterOrEqual(a, b) == SeqSub(a, initial) >= SeqSub(b, initial)

Init ==
  /\ ring = NewRing([i \in 0..(RingSize - 1) |-> 0])
  /\ SYN = "None" /\ FIN = "None"
  /\ initial = 0 /\ next = 0 /\ unack = 0 /\ SYN_received = FALSE
  /\ bytes_in_flight = 0
  /\ alarm = TRUE
  /\ pc = "idle"
  /\ checks = TRUE
  /\ net = {}
  /\ accepted = 0 /\ lost = 0 /\ got = 0

(* sendSegment: the IP layer takes the packet (ok) or refuses it.          *)
SendSegment(seg, ok) == net' = IF ok THEN net \union {seg} ELSE net

Segment(syn, ack, fin, seq, length, data) ==
  [syn |-> syn, ack |-> ack, fin |-> fin, seq |-> seq, length |-> length, data |-> data]

NoData == [i \in {} |-> 0]

(* transmit_SYN                                                            *)
TransmitSYN(isn, ok) ==
  SendSegment(Segment(TRUE, SYN_received, FALSE, isn, 0, NoData), ok)

sendSYN(isn, ok) ==
  /\ pc = "idle" /\ SYN = "None"
  /\ checks' = (checks /\ FIN = "None")
  /\ initial' = isn
  /\ next' = SeqAdd(isn, 1)
  /\ unack' = isn
  /\ SYN' = "Sent"
  /\ TransmitSYN(isn, ok)
  /\ UNCHANGED <<ring, FIN, SYN_received, bytes_in_flight, alarm, pc, accepted, lost, got>>

sendData(length) ==
  /\ pc = "idle" /\ SYN # "None" /\ FIN = "None"
  /\ accepted + length <= StreamLength
  /\ ~full(ring)
  /\ LET n == writeLength(ring, length)
     IN  /\ ring' = write(ring, [i \in 0..(length - 1) |-> accepted + i], length)
         /\ next' = SeqAdd(next, n)
         /\ accepted' = accepted + n
         /\ lost' = lost + n - (ring'.end - ring.end)
  /\ pc' = IF SYN = "Acked" THEN "transmit" ELSE "idle"
  /\ UNCHANGED <<SYN, FIN, initial, unack, SYN_received, bytes_in_flight, alarm, checks, net, got>>

sendFIN(ok) ==
  /\ pc = "idle" /\ SYN # "None" /\ FIN = "None"
  /\ FIN' = "Sent"
  /\ next' = SeqAdd(next, 1)
  /\ IF empty(ring) /\ SYN = "Sent" THEN TransmitSYN(initial, ok) ELSE net' = net
  /\ pc' = IF empty(ring) /\ SYN = "Acked" THEN "transmit" ELSE "idle"
  /\ UNCHANGED <<ring, SYN, initial, unack, SYN_received, bytes_in_flight, alarm, checks,
                 accepted, lost, got>>

(* The parts of acknowledge: the number counted from, which leaves out an  *)
(* unacknowledged SYN; bytes_in_flight_, which wraps below zero; the test  *)
(* for the FIN; the alarm after update and cancel.  Each of the first      *)
(* three is preceded by a variant for mutation.                            *)
AckBaseWithSYN == unack
AckBase == IF SYN = "Sent" THEN SeqAdd(initial, 1) ELSE unack

FlightKept(consumed) == bytes_in_flight
FlightAfter(consumed) == SizeSub(bytes_in_flight, consumed)

AcksFINEarly(ack) == FIN = "Sent" /\ equal(SeqAdd(ack, 1), next)
AcksFIN(ack) == FIN = "Sent" /\ equal(ack, next)

AlarmAfter(inFlight, finAcked) == (alarm \/ inFlight = 0) /\ ~finAcked

(* acknowledge(ack) for an ack of the peer's that is not older than unack, *)
(* which the segment handlers have to make sure of.  consumed counts a SYN *)
(* or FIN like a byte; the ring gives up only what it holds.               *)
acknowledge(ack) ==
  LET base     == AckBase
      consumed == SeqSub(ack, base)
      inFlight == FlightAfter(consumed)
      finAcked == AcksFIN(ack)
      upTo     == SeqAdd(base, consumeLength(ring, consumed))
  IN  /\ pc = "idle" /\ SYN # "None"
      /\ greaterOrEqual(ack, base)
      /\ SYN' = "Acked"
      /\ ring' = consume(ring, consumed)
      /\ bytes_in_flight' = inFlight
      /\ FIN' = IF finAcked THEN "Acked" ELSE FIN
      /\ unack' = IF finAcked THEN SeqAdd(upTo, 1) ELSE upTo
      /\ alarm' = AlarmAfter(inFlight, finAcked)
      /\ pc' = IF consumed > 0 THEN "transmit" ELSE "idle"
      /\ checks' = (/\ checks
                    /\ SYN = "Sent" => greaterThan(ack, initial)
                    /\ finAcked => empty(ring'))
      /\ UNCHANGED <<initial, next, SYN_received, net, accepted, lost, got>>

(* Variant for mutation: retransmit does not set its alarm again.          *)
LeaveUnarmed ==
  /\ pc' = "idle"
  /\ alarm' = alarm

(* The loop of transmit() is left; retransmit() then sets its alarm again, *)
(* and Alarm::set demands that it is not set.                              *)
LeaveTransmit ==
  /\ pc' = "idle"
  /\ alarm' = (alarm \/ pc = "retransmit")

(* The FIN goes out with the segment that reaches the end of the stream;   *)
(* as a variant for mutation, with any segment.                            *)
FinAnywhere(seq, n) == FIN = "Sent"
FinFollows(seq, n) == FIN = "Sent" /\ equal(SeqAdd(seq, n + 1), next)

transmit(ok) ==
  LET n    == offsetLength(ring, bytes_in_flight, kMaxSegmentSize)
      seq  == SeqAdd(unack, bytes_in_flight)
      fin  == FinFollows(seq, n)
      data == offsetBytes(ring, bytes_in_flight, kMaxSegmentSize)
      room == bytes_in_flight < kMaxBytesInFlight
      send == room /\ (fin \/ n > 0)
      leave == ~send \/ ~ok \/ n = 0
  IN  /\ pc # "idle"
      /\ bytes_in_flight' = IF send THEN bytes_in_flight + n ELSE bytes_in_flight
      /\ IF send
         THEN SendSegment(Segment(FALSE, TRUE, fin, seq, n, data), ok)
         ELSE net' = net
      /\ IF leave THEN LeaveTransmit ELSE UNCHANGED <<pc, alarm>>
      /\ checks' = (/\ checks
                    /\ room => offsetCheck(ring, bytes_in_flight, kMaxSegmentSize)
                    /\ leave /\ pc = "retransmit" => ~alarm)
      /\ UNCHANGED <<ring, SYN, FIN, tcb, accepted, lost, got>>

(* The alarm fires: retransmit().  Until the SYN is acknowledged transmit  *)
(* has no loop and the alarm is set again at once.                         *)
retransmit(ok) ==
  /\ pc = "idle" /\ alarm
  /\ bytes_in_flight' = 0
  /\ IF SYN = "Sent" THEN TransmitSYN(initial, ok) ELSE net' = net
  /\ IF SYN = "Acked"
     THEN pc' = "retransmit" /\ alarm' = FALSE
     ELSE UNCHANGED <<pc, alarm>>
  /\ UNCHANGED <<ring, SYN, FIN, tcb, checks, accepted, lost, got>>

(* The session has seen the SYN of the peer: LISTEN does so before the     *)
(* SYN of this side is sent, SYN_SENT after it.                            *)
ReceiveSYN ==
  /\ pc = "idle" /\ ~SYN_received
  /\ SYN_received' = TRUE
  /\ UNCHANGED <<ring, SYN, FIN, initial, next, unack, bytes_in_flight, alarm, pc, checks,
                 net, accepted, lost, got>>

(* The peer: a segment that overlaps or extends what it has is taken up to *)
(* any byte, its FIN only after its last byte; any other is ignored.       *)
SeqLength(seg) == seg.length + (IF seg.fin \/ seg.syn THEN 1 ELSE 0)

PeerReceive(seg) ==
  LET from == SeqSub(seg.seq, initial)
  IN  /\ from <= got
      /\ \E upTo \in (got + 1)..(from + SeqLength(seg)) : got' = upTo
      /\ UNCHANGED <<ring, SYN, FIN, tcb, bytes_in_flight, alarm, pc, checks, net, accepted, lost>>

(* Any acknowledgment the peer can have sent so far arrives, late,         *)
(* repeated or out of order.                                               *)
PeerAck(n) == n \in 1..got /\ acknowledge(SeqAdd(initial, n))

Next ==
  \/ \E isn \in Isns, ok \in BOOLEAN : sendSYN(isn, ok)
  \/ \E length \in 1..StreamLength : sendData(length)
  \/ \E ok \in BOOLEAN : sendFIN(ok)
  \/ \E n \in 1..(StreamLength + 2) : PeerAck(n)
  \/ \E ok \in BOOLEAN : transmit(ok)
  \/ \E ok \in BOOLEAN : retransmit(ok)
  \/ ReceiveSYN
  \/ \E seg \in net : PeerReceive(seg)

Spec == Init /\ [][Next]_vars

-----------------------------------------------------------------------------
(* The types of the variables; a wrapped bytes_in_flight is still a size_t. *)
TypeOK ==
  /\ ring \in Ring
  /\ SYN \in CtlState /\ FIN \in CtlState
  /\ initial \in 0..(SeqMod - 1) /\ next \in 0..(SeqMod - 1) /\ unack \in 0..(SeqMod - 1)
  /\ bytes_in_flight \in 0..(SizeMod - 1)
  /\ SYN_received \in BOOLEAN /\ alarm \in BOOLEAN /\ checks \in BOOLEAN
  /\ pc \in {"idle", "transmit", "retransmit"}
  /\ accepted \in 0..StreamLength /\ lost \in Nat /\ got \in Nat

(* Sequence numbers counted from the SYN; bytes that have been stored in   *)
(* the ring; bytes among them that have left it again.                     *)
Offset(seq) == SeqSub(seq, initial)
Kept == accepted - lost
Discarded == Kept - remaining(ring)

(* No DCHECK of sendSYN, of RingBuffer::read_offset or, in retransmit, of  *)
(* Alarm::set fails, nor the two of acknowledge on its own state (the SYN, *)
(* send_buffer.cpp:79, and the empty buffer, :97), whatever the order of   *)
(* writes, acknowledgments and timeouts.  What two others demand of the    *)
(* caller, no data after the FIN (:31) and no acknowledgment older than    *)
(* unack (:84), is assumed: they are guards above.                         *)
DChecksHold == checks

(* Every segment ever put on the wire carries the bytes of the stream that *)
(* its sequence number stands for, and a FIN only behind the last byte     *)
(* accepted, in first transmissions and retransmissions alike.             *)
CarriesStream(seg) ==
  LET at == Offset(seg.seq) - 1
  IN  IF seg.syn THEN seg.seq = initial
      ELSE /\ at >= 0
           /\ at + seg.length <= accepted
           /\ \A i \in 0..(seg.length - 1) : seg.data[i] = at + i
           /\ seg.fin => FIN # "None" /\ at + seg.length = accepted

SegmentsCarryStream == lost = 0 => \A seg \in net : CarriesStream(seg)

(* A byte leaves the ring only once the peer has it, so that it can be     *)
(* retransmitted until then, and unack stands for exactly what has left.   *)
KeptUntilReceived ==
  /\ SYN # "Acked" => Discarded = 0
  /\ SYN = "Acked" => /\ Discarded < got
                      /\ Offset(unack) = Discarded + (IF FIN = "Acked" THEN 2 ELSE 1)

(* The window that transmit walks through lies within the stored bytes, or *)
(* bytes_in_flight_ has wrapped below zero and transmit sends nothing.     *)
WindowStored ==
  \/ bytes_in_flight <= remaining(ring)
  \/ bytes_in_flight >= kMaxBytesInFlight + kMaxSegmentSize

(* Between two operations the retransmission alarm is set exactly until    *)
(* the FIN is acknowledged, so that nothing unacknowledged is ever left    *)
(* without a timer and no timer is left behind a finished stream.          *)
TimerUntilFin == pc # "retransmit" => (alarm <=> FIN # "Acked")

(* When the FIN is acknowledged the peer has every byte and the FIN, and   *)
(* no byte was dropped on the way.                                         *)
FinIsLast == FIN = "Acked" => got = accepted + 2 /\ lost = 0 /\ empty(ring)

(* Once its FIN is acknowledged the sender puts nothing on the wire.       *)
SilentAfterFin == [][FIN = "Acked" => net' = net]_vars

(* The event loop runs a due alarm and a handler that has begun; the IP    *)
(* layer does not refuse packets for ever.  While segments that it took    *)
(* would bring the peer something new, one of them arrives: net forgets    *)
(* none, and a segment that is lost for good is one that was refused.  One *)
(* copy of the latest acknowledgment arrives.                              *)
Fairness ==
  /\ WF_vars(\E ok \in BOOLEAN : transmit(ok))
  /\ SF_vars(transmit(TRUE))
  /\ WF_vars(\E ok \in BOOLEAN : retransmit(ok))
  /\ SF_vars(retransmit(TRUE))
  /\ WF_vars(\E seg \in net : PeerReceive(seg))
  /\ SF_vars(Offset(unack) < got /\ PeerAck(got))

FairSpec == Spec /\ Fairness

(* What sendData accepted, up to the StreamLength bytes of the behaviour,  *)
(* reaches the peer, and a stream that was closed is acknowledged up to    *)
(* its FIN.                                                                *)
StreamDelivered == <>[](accepted = 0 \/ got > accepted \/ lost > 0)
CloseCompletes == (FIN = "Sent" /\ lost = 0) ~> (FIN = "Acked")
=============================================================================
