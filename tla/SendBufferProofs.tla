-------------------------- MODULE SendBufferProofs --------------------------
(***************************************************************************)
(* For every size of the ring, the window, the segments and the stream,    *)
(* and every initial sequence number: the send buffer keeps its counters   *)
(* consistent with what the peer has, fails no DCHECK but those that its   *)
(* callers have to see to (see DChecksHold), keeps its timer as            *)
(* long as it is needed, and sends the bytes of the stream.  The lemmas on *)
(* the ring are those of RingBufferProofs; the variables of the ring under *)
(* its own caller, which come with them, occur in nothing here.            *)
(***************************************************************************)
EXTENDS SendBuffer, RingBufferProofs

FinSent == IF FIN = "None" THEN 0 ELSE 1
FinAcked == IF FIN = "Acked" THEN 1 ELSE 0

(* The counters: next is what was accepted, unack what has left the ring,  *)
(* the peer has no more than was stored, and bytes_in_flight_ is within    *)
(* the stored bytes or has gone below zero by less than what was           *)
(* acknowledged.                                                           *)
Counters ==
  /\ lost <= accepted
  /\ Discarded >= 0
  /\ SYN = "None" => accepted = 0 /\ FIN = "None" /\ net = {} /\ got = 0
  /\ SYN # "None" => Offset(next) = 1 + accepted + FinSent
  /\ SYN # "Acked" => Discarded = 0 /\ FIN # "Acked" /\ pc = "idle"
  /\ SYN = "Acked" => Offset(unack) = Discarded + 1 + FinAcked /\ Discarded < got
  /\ got <= 1 + Kept + (IF lost = 0 THEN FinSent ELSE 0)
  /\ \/ bytes_in_flight <= remaining(ring)
     \/ bytes_in_flight + Discarded + FinAcked >= SizeMod
  /\ FIN = "Acked" => /\ lost = 0 /\ remaining(ring) = 0 /\ got = accepted + 2
                      /\ bytes_in_flight + Discarded + 1 >= SizeMod

Timer ==
  /\ TimerUntilFin
  /\ pc = "retransmit" => ~alarm /\ FIN # "Acked"

(* A segment on the wire: the SYN, or a piece of what was stored, with a   *)
(* FIN only at its very end; and its bytes, if none was dropped.           *)
SegmentOK(seg) ==
  /\ seg.seq \in 0..(SeqMod - 1) /\ seg.length \in Nat
  /\ seg.syn \in BOOLEAN /\ seg.fin \in BOOLEAN
  /\ IF seg.syn
     THEN seg.seq = initial /\ seg.length = 0
     ELSE /\ 1 <= Offset(seg.seq)
          /\ Offset(seg.seq) - 1 + seg.length <= Kept
          /\ seg.fin => FIN # "None" /\ lost = 0 /\ Offset(seg.seq) - 1 + seg.length = accepted

SegmentData(seg) ==
  ~seg.syn => \A i \in 0..(seg.length - 1) : seg.data[i] = Offset(seg.seq) - 1 + i

Segments == \A seg \in net : SegmentOK(seg)
Data == lost = 0 => Holds(ring, Discarded) /\ \A seg \in net : SegmentData(seg)

Inv ==
  /\ TypeOK /\ Ordered(ring)
  /\ checks
  /\ Counters
  /\ Timer
  /\ Segments
  /\ Data

-----------------------------------------------------------------------------
(* Sequence numbers, modulo SeqMod: moving forward from a number moves its *)
(* distance from the initial one, as long as that stays below SeqMod.      *)
LEMMA SeqAddOffset ==
  ASSUME NEW i \in 0..(SeqMod - 1), NEW a \in 0..(SeqMod - 1), NEW n \in Nat,
         SeqSub(a, i) + n < SeqMod
  PROVE  SeqAdd(a, n) \in 0..(SeqMod - 1) /\ SeqSub(SeqAdd(a, n), i) = SeqSub(a, i) + n
BY SendAssumption DEF SeqAdd, SeqSub

(* The distance of two sequence numbers is that of their offsets.          *)
LEMMA SeqSubOffset ==
  ASSUME NEW i \in 0..(SeqMod - 1), NEW a \in 0..(SeqMod - 1), NEW b \in 0..(SeqMod - 1)
  PROVE  /\ SeqSub(a, i) \in 0..(SeqMod - 1)
         /\ SeqSub(i, i) = 0
         /\ SeqSub(b, i) <= SeqSub(a, i) => SeqSub(a, b) = SeqSub(a, i) - SeqSub(b, i)
BY SendAssumption DEF SeqSub

(* The ring counts no more than its size.                                  *)
LEMMA RingFacts ==
  ASSUME Inv
  PROVE  /\ ring \in Ring /\ Ordered(ring)
         /\ remaining(ring) = ring.end - ring.begin
         /\ remaining(ring) \in 0..RingSize
         /\ ring.begin \in Nat /\ ring.end \in Nat
<1>1. ring \in Ring /\ Ordered(ring)
  BY Zenon DEF Inv, TypeOK
<1> QED BY Zenon, <1>1, Counts, Fields

(* A new send buffer satisfies the invariant.                              *)
LEMMA SendInit == Init => Inv
<1> SUFFICES ASSUME Init PROVE Inv
  BY Zenon
<1>1. ring = [begin |-> 0, end |-> 0, mem |-> [i \in 0..(RingSize - 1) |-> 0]]
  BY Zenon DEF Init, NewRing
<1>2. ring \in Ring /\ Ordered(ring) /\ ring.end - ring.begin = 0
  BY <1>1, RingAssumption DEF Ring, Ordered
<1>3. remaining(ring) = 0
  BY Zenon, <1>2, Counts
<1>0. /\ SYN = "None" /\ FIN = "None" /\ initial = 0 /\ next = 0 /\ unack = 0
      /\ SYN_received = FALSE /\ bytes_in_flight = 0 /\ alarm = TRUE /\ pc = "idle"
      /\ checks = TRUE /\ net = {} /\ accepted = 0 /\ lost = 0 /\ got = 0
  BY Zenon DEF Init
<1>4. TypeOK
  <2>1. 0 \in 0..(SeqMod - 1) /\ 0 \in 0..(SizeMod - 1) /\ 0 \in 0..StreamLength
    BY ONLY RingAssumption, SendAssumption
  <2> QED BY ONLY Zenon, <1>0, <1>2, <2>1 DEF TypeOK, CtlState
<1>5. Counters
  BY ONLY <1>0, <1>3, RingAssumption, SendAssumption
     DEF Counters, Discarded, Kept, FinSent, FinAcked
<1>6. Holds(ring, Discarded)
  BY <1>2 DEF Holds
<1> QED BY ONLY Zenon, <1>0, <1>2, <1>4, <1>5, <1>6 DEF Inv, Timer, TimerUntilFin, Segments, Data

(* The scalars of the state, without the ring and the segments.            *)
LEMMA Facts ==
  ASSUME Inv
  PROVE  /\ SYN \in CtlState /\ FIN \in CtlState
         /\ initial \in 0..(SeqMod - 1) /\ next \in 0..(SeqMod - 1)
         /\ unack \in 0..(SeqMod - 1)
         /\ bytes_in_flight \in 0..(SizeMod - 1)
         /\ SYN_received \in BOOLEAN /\ alarm \in BOOLEAN /\ checks = TRUE
         /\ pc \in {"idle", "transmit", "retransmit"}
         /\ accepted \in 0..StreamLength /\ accepted \in Nat /\ lost \in Nat /\ got \in Nat
         /\ Kept \in Int /\ Discarded \in Int /\ FinSent \in 0..1 /\ FinAcked \in 0..1
<1>1. remaining(ring) \in Int
  BY RingFacts, RingAssumption
<1>2. accepted \in Nat /\ lost \in Nat
  BY SendAssumption DEF Inv, TypeOK
<1>3. Kept \in Int /\ Discarded \in Int
  BY ONLY <1>1, <1>2 DEF Kept, Discarded
<1> QED BY <1>2, <1>3 DEF Inv, TypeOK, FinSent, FinAcked

(* A segment on the wire stays right while the stream grows or is closed.  *)
LEMMA OldSegments ==
  ASSUME Inv, initial' = initial, Kept' \in Int, Kept <= Kept',
         FIN # "None" => FIN' # "None" /\ lost' = lost /\ accepted' = accepted,
         NEW seg \in net
  PROVE  SegmentOK(seg)' /\ (SegmentData(seg) => SegmentData(seg)')
<1>1. SegmentOK(seg)
  BY Zenon DEF Inv, Segments
<1>2. Offset(seg.seq)' = Offset(seg.seq)
  BY Zenon DEF Offset
<1>3. Offset(seg.seq) \in Int /\ seg.length \in Int /\ Kept \in Int
  <2>1. seg.seq \in 0..(SeqMod - 1) /\ seg.length \in Nat
    BY Zenon, <1>1 DEF SegmentOK
  <2>2. initial \in 0..(SeqMod - 1) /\ Kept \in Int
    BY Zenon, Facts
  <2>3. SeqSub(seg.seq, initial) \in 0..(SeqMod - 1)
    BY Zenon, <2>1, <2>2, SeqSubOffset
  <2> QED BY <2>1, <2>2, <2>3, SendAssumption DEF Offset
<1>4. SegmentOK(seg)'
  BY <1>1, <1>2, <1>3 DEF SegmentOK
<1> QED BY Zenon, <1>2, <1>4 DEF SegmentData

(* A refused packet leaves the wire as it was, an accepted one adds to it. *)
LEMMA SentSegments ==
  ASSUME NEW seg, NEW ok, SendSegment(seg, ok)
  PROVE  \A s \in net' : s \in net \/ s = seg
BY Zenon DEF SendSegment

(* A (re)transmitted SYN is a good segment.                                *)
LEMMA SynSegments ==
  ASSUME Inv, NEW isn \in 0..(SeqMod - 1), NEW ok, TransmitSYN(isn, ok), initial' = isn,
         NEW seg \in net'
  PROVE  seg \in net \/ (SegmentOK(seg)' /\ SegmentData(seg)')
<1> DEFINE syn == Segment(TRUE, SYN_received, FALSE, isn, 0, NoData)
<1>1. seg \in net \/ seg = syn
  <2> HIDE DEF syn
  <2>1. SendSegment(syn, ok)
    BY Zenon DEF TransmitSYN, syn
  <2> QED BY Zenon, <2>1, SentSegments
<1>2. syn.syn = TRUE /\ syn.fin = FALSE /\ syn.seq = isn /\ syn.length = 0
  BY Zenon DEF Segment
<1> HIDE DEF syn
<1>3. ASSUME seg = syn PROVE SegmentOK(seg)'
  <2>1. seg.syn = TRUE /\ seg.fin = FALSE /\ seg.seq = initial' /\ seg.length = 0
    BY Zenon, <1>2, <1>3
  <2>2. seg.seq \in 0..(SeqMod - 1) /\ seg.length \in Nat
    BY <1>2, <1>3
  <2> QED BY ONLY <2>1, <2>2, Zenon DEF SegmentOK
<1>4. ASSUME seg = syn PROVE SegmentData(seg)'
  BY Zenon, <1>2, <1>4 DEF SegmentData
<1> QED BY Zenon, <1>1, <1>3, <1>4

(* sendSYN: next and unack start from the initial sequence number.         *)
LEMMA SendSYNInv ==
  ASSUME Inv, NEW isn \in Isns, NEW ok \in BOOLEAN, sendSYN(isn, ok)
  PROVE  Inv'
<1>0. isn \in 0..(SeqMod - 1)
  BY Zenon, SendAssumption
<1>1. /\ SYN = "None" /\ pc = "idle" /\ checks' = (checks /\ FIN = "None") /\ initial' = isn
      /\ next' = SeqAdd(isn, 1) /\ unack' = isn /\ SYN' = "Sent" /\ TransmitSYN(isn, ok)
      /\ ring' = ring /\ FIN' = FIN /\ SYN_received' = SYN_received
      /\ bytes_in_flight' = bytes_in_flight /\ alarm' = alarm /\ pc' = pc
      /\ accepted' = accepted /\ lost' = lost /\ got' = got
  BY Zenon DEF sendSYN
<1>2. Kept' = Kept /\ Discarded' = Discarded /\ FinSent' = FinSent /\ FinAcked' = FinAcked
  BY Zenon, <1>1 DEF Kept, Discarded, FinSent, FinAcked
<1>3. accepted = 0 /\ FIN = "None" /\ net = {} /\ got = 0
  BY Zenon, <1>1 DEF Inv, Counters
<1>4. next' \in 0..(SeqMod - 1) /\ Offset(next)' = 1
  <2>1. SeqSub(isn, isn) = 0
    BY Zenon, <1>0, SeqSubOffset
  <2>2. SeqSub(isn, isn) + 1 < SeqMod
    BY <2>1, SendAssumption
  <2>3. SeqAdd(isn, 1) \in 0..(SeqMod - 1) /\ SeqSub(SeqAdd(isn, 1), isn) = SeqSub(isn, isn) + 1
    BY Zenon, <1>0, <2>2, SeqAddOffset
  <2> QED BY <1>1, <2>1, <2>3 DEF Offset
<1>5. TypeOK' /\ Ordered(ring') /\ checks'
  BY Zenon, <1>0, <1>1, <1>3, <1>4 DEF Inv, TypeOK, CtlState
<1>6. Counters'
  BY <1>1, <1>2, <1>3, <1>4, Facts DEF Inv, Counters, FinSent
<1>7. Timer'
  BY Zenon, <1>1 DEF Inv, Timer, TimerUntilFin
<1>8. ASSUME NEW seg \in net' PROVE SegmentOK(seg)' /\ SegmentData(seg)'
  BY Zenon, <1>0, <1>1, <1>3, SynSegments
<1>9. Data'
  BY Zenon, <1>1, <1>2, <1>8 DEF Inv, Data
<1> QED BY Zenon, <1>5, <1>6, <1>7, <1>8, <1>9 DEF Inv, Segments

(* What is common to the steps that leave the ring and the stream alone:   *)
(* segments that were on the wire stay right, and a new one has to be.     *)
LEMMA SameStream ==
  ASSUME Inv, UNCHANGED <<ring, initial, accepted, lost>>,
         FIN # "None" => FIN' # "None",
         \A seg \in net' : seg \in net \/ (SegmentOK(seg)' /\ (lost = 0 => SegmentData(seg)'))
  PROVE  /\ Kept' = Kept /\ Discarded' = Discarded
         /\ Ordered(ring)' /\ Segments' /\ Data'
<1>1. Kept' = Kept /\ Discarded' = Discarded /\ Kept \in Int
  BY Zenon, Facts DEF Kept, Discarded
<1>2. \A seg \in net : SegmentOK(seg)' /\ (SegmentData(seg) => SegmentData(seg)')
  BY <1>1, OldSegments
<1>3. Ordered(ring)'
  BY Zenon DEF Inv
<1>4. Segments'
  BY Zenon, <1>2 DEF Segments
<1>5. Data'
  BY Zenon, <1>1, <1>2 DEF Inv, Data
<1> QED BY Zenon, <1>1, <1>3, <1>4, <1>5

(* retransmit: the window starts again at unack.                           *)
LEMMA RetransmitInv ==
  ASSUME Inv, NEW ok \in BOOLEAN, retransmit(ok)
  PROVE  Inv'
<1>1. /\ pc = "idle" /\ alarm /\ bytes_in_flight' = 0
      /\ ring' = ring /\ SYN' = SYN /\ FIN' = FIN /\ initial' = initial /\ next' = next
      /\ unack' = unack /\ SYN_received' = SYN_received
      /\ checks' = checks /\ accepted' = accepted /\ lost' = lost /\ got' = got
  BY Zenon DEF retransmit, tcb
<1>2. \/ SYN = "Acked" /\ pc' = "retransmit" /\ alarm' = FALSE
      \/ SYN # "Acked" /\ pc' = pc /\ alarm' = alarm
  BY Zenon DEF retransmit
<1>3. \/ SYN = "Sent" /\ TransmitSYN(initial, ok)
      \/ SYN # "Sent" /\ net' = net
  BY Zenon DEF retransmit
<1>4. FIN # "Acked"
  BY Zenon, <1>1 DEF Inv, Timer, TimerUntilFin
<1>5. \A seg \in net' : seg \in net \/ (SegmentOK(seg)' /\ SegmentData(seg)')
  BY Zenon, <1>1, <1>3, Facts, SynSegments
<1>6. /\ Kept' = Kept /\ Discarded' = Discarded
      /\ Ordered(ring)' /\ Segments' /\ Data'
  BY Zenon, <1>1, <1>5, SameStream
<1>7. TypeOK'
  <2>1. 0 \in 0..(SizeMod - 1)
    BY RingAssumption
  <2> QED BY Zenon, <1>1, <1>2, <2>1 DEF Inv, TypeOK
<1>8. Counters'
  <2>1. remaining(ring) \in Nat
    BY RingFacts, RingAssumption
  <2>2. FinSent' = FinSent /\ FinAcked' = FinAcked /\ Offset(next)' = Offset(next)
        /\ Offset(unack)' = Offset(unack)
    BY Zenon, <1>1 DEF FinSent, FinAcked, Offset
  <2>3. 0 <= remaining(ring)
    BY <2>1
  <2> QED BY Zenon, <1>1, <1>2, <1>3, <1>4, <1>6, <2>2, <2>3 DEF Inv, Counters
<1>9. Timer'
  BY Zenon, <1>1, <1>2, <1>4 DEF Inv, Timer, TimerUntilFin
<1>10. checks'
  BY Zenon, <1>1 DEF Inv
<1> QED BY Zenon, <1>6, <1>7, <1>8, <1>9, <1>10 DEF Inv

(* sendFIN: next moves over the FIN; nothing is accepted from then on.     *)
LEMMA SendFINInv ==
  ASSUME Inv, NEW ok \in BOOLEAN, sendFIN(ok)
  PROVE  Inv'
<1>1. /\ pc = "idle" /\ SYN # "None" /\ FIN = "None" /\ FIN' = "Sent"
      /\ next' = SeqAdd(next, 1) /\ bytes_in_flight' = bytes_in_flight
      /\ ring' = ring /\ SYN' = SYN /\ initial' = initial /\ alarm' = alarm
      /\ unack' = unack /\ SYN_received' = SYN_received
      /\ checks' = checks /\ accepted' = accepted /\ lost' = lost /\ got' = got
  BY Zenon DEF sendFIN
<1>2. pc' = "idle" \/ (SYN = "Acked" /\ pc' = "transmit")
  BY Zenon DEF sendFIN
<1>3. TransmitSYN(initial, ok) \/ net' = net
  BY Zenon DEF sendFIN
<1>5. \A seg \in net' : seg \in net \/ (SegmentOK(seg)' /\ SegmentData(seg)')
  BY Zenon, <1>1, <1>3, Facts, SynSegments
<1>6. /\ Kept' = Kept /\ Discarded' = Discarded
      /\ Ordered(ring)' /\ Segments' /\ Data'
  BY Zenon, <1>1, <1>5, SameStream
<1>a. FinSent = 0 /\ FinSent' = 1 /\ FinAcked' = FinAcked
  BY Zenon, <1>1 DEF FinSent, FinAcked
<1>b. Offset(next) = 1 + accepted
  BY <1>1, <1>a, Facts DEF Inv, Counters
<1>c. next' \in 0..(SeqMod - 1) /\ Offset(next)' = 1 + accepted + 1
  <2>1. initial \in 0..(SeqMod - 1) /\ next \in 0..(SeqMod - 1) /\ accepted \in 0..StreamLength
    BY Zenon, Facts
  <2>2. SeqSub(next, initial) = 1 + accepted
    BY Zenon, <1>b DEF Offset
  <2>3. SeqSub(next, initial) + 1 < SeqMod
    BY <2>1, <2>2, SendAssumption
  <2> QED BY <1>1, <2>1, <2>2, <2>3, SeqAddOffset DEF Offset
<1>7. TypeOK'
  BY Zenon, <1>1, <1>2, <1>c DEF Inv, TypeOK, CtlState
<1>8. Counters'
  <2>1. Offset(unack)' = Offset(unack)
    BY Zenon, <1>1 DEF Offset
  <2>2. got <= 1 + Kept
    BY <1>a, Facts DEF Inv, Counters
  <2>3. got <= 1 + Kept + (IF lost = 0 THEN 1 ELSE 0)
    BY <2>2, Facts
  <2> QED BY Zenon, <1>1, <1>2, <1>6, <1>a, <1>c, <2>1, <2>3 DEF Inv, Counters
<1>9. Timer'
  BY Zenon, <1>1, <1>2 DEF Inv, Timer, TimerUntilFin
<1>10. checks'
  BY Zenon, <1>1 DEF Inv
<1> QED BY Zenon, <1>6, <1>7, <1>8, <1>9, <1>10 DEF Inv

(* The session notes the SYN of the peer.                                  *)
LEMMA ReceiveSYNInv ==
  ASSUME Inv, ReceiveSYN
  PROVE  Inv'
BY Zenon DEF ReceiveSYN, Inv, TypeOK, Counters, Timer, TimerUntilFin, Segments, SegmentOK, Data,
       SegmentData, Discarded, Kept, Offset, FinSent, FinAcked

(* The peer gets no further than what was stored and, behind all of it,    *)
(* the FIN.                                                                *)
LEMMA PeerReceiveInv ==
  ASSUME Inv, NEW seg \in net, PeerReceive(seg)
  PROVE  Inv'
<1> DEFINE from == SeqSub(seg.seq, initial)
           bound == 1 + Kept + (IF lost = 0 THEN FinSent ELSE 0)
<1>1. /\ ring' = ring /\ SYN' = SYN /\ FIN' = FIN /\ initial' = initial /\ next' = next
      /\ unack' = unack /\ SYN_received' = SYN_received /\ pc' = pc /\ net' = net
      /\ bytes_in_flight' = bytes_in_flight /\ alarm' = alarm
      /\ checks' = checks /\ accepted' = accepted /\ lost' = lost
  BY Zenon DEF PeerReceive, tcb
<1>2. got' \in (got + 1)..(from + SeqLength(seg))
  BY Zenon DEF PeerReceive
<1>3. SegmentOK(seg)
  BY Zenon DEF Inv, Segments
<1>f. /\ Kept \in Int /\ FinSent \in 0..1 /\ lost \in Nat /\ accepted \in Nat /\ got \in Nat
      /\ initial \in 0..(SeqMod - 1) /\ FIN \in CtlState
  BY Zenon, Facts
<1>4. seg.seq \in 0..(SeqMod - 1) /\ seg.length \in Nat
  BY Zenon, <1>3 DEF SegmentOK
<1>5. from \in Nat
  <2>1. from \in 0..(SeqMod - 1)
    BY Zenon, <1>f, <1>4, SeqSubOffset
  <2> QED BY <2>1, SendAssumption
<1>k. 0 <= Kept
  BY <1>f DEF Inv, Counters, Kept
<1>6. from + SeqLength(seg) <= bound
  <2>1. CASE seg.syn
    <3>1. from = 0 /\ seg.length = 0
      BY Zenon, <1>3, <1>f, <2>1, SeqSubOffset DEF SegmentOK
    <3>2. SeqLength(seg) = 0 + 1
      BY Zenon, <2>1, <3>1 DEF SeqLength
    <3> QED BY ONLY <1>f, <1>k, <3>1, <3>2
  <2>2. CASE ~seg.syn /\ seg.fin
    <3>1. FIN # "None" /\ lost = 0 /\ from - 1 + seg.length = accepted
      BY Zenon, <1>3, <2>2 DEF SegmentOK, Offset
    <3>2. SeqLength(seg) = seg.length + 1 /\ FinSent = 1 /\ Kept = accepted
      BY <1>f, <2>2, <3>1 DEF SeqLength, FinSent, Kept
    <3> HIDE DEF from
    <3> QED BY ONLY <1>f, <1>4, <1>5, <3>1, <3>2
  <2>3. CASE ~seg.syn /\ ~seg.fin
    <3>1. from - 1 + seg.length <= Kept
      BY Zenon, <1>3, <2>3 DEF SegmentOK, Offset
    <3>2. SeqLength(seg) = seg.length
      BY <1>4, <2>3 DEF SeqLength
    <3> HIDE DEF from
    <3> QED BY ONLY <1>f, <1>4, <1>5, <3>1, <3>2
  <2> QED BY Zenon, <2>1, <2>2, <2>3
<1>7. SeqLength(seg) \in Nat
  <2>1. seg.length + 0 \in Nat /\ seg.length + 1 \in Nat
    BY <1>4
  <2> QED BY Zenon, <2>1 DEF SeqLength
<1>8. got' \in Nat /\ got < got' /\ got' <= bound
  <2> HIDE DEF from
  <2> QED BY ONLY <1>2, <1>5, <1>6, <1>7, <1>f
<1>9. /\ Kept' = Kept /\ Discarded' = Discarded
      /\ Ordered(ring)' /\ Segments' /\ Data'
  BY Zenon, <1>1, SameStream
<1>a. FinSent' = FinSent /\ FinAcked' = FinAcked /\ Offset(next)' = Offset(next)
      /\ Offset(unack)' = Offset(unack)
  BY Zenon, <1>1 DEF FinSent, FinAcked, Offset
<1>b. SYN # "None"
  BY Zenon DEF Inv, Counters
<1>c. FIN # "Acked"
  <2> SUFFICES ASSUME FIN = "Acked" PROVE FALSE
    BY Zenon
  <2>1. got = accepted + 2 /\ lost = 0
    BY Zenon DEF Inv, Counters
  <2>2. Kept = accepted /\ FinSent <= 1
    BY <1>f, <2>1 DEF Kept
  <2> QED BY ONLY <1>8, <1>f, <2>1, <2>2
<1>d. SYN = "Acked" => Discarded < got'
  <2>1. SYN = "Acked" => Discarded < got
    BY Zenon DEF Inv, Counters
  <2>2. Discarded \in Int
    BY Zenon, Facts
  <2> QED BY ONLY <1>8, <1>f, <2>1, <2>2
<1>e. Counters'
  <2>1. bound' = bound
    BY Zenon, <1>1, <1>9, <1>a
  <2> QED BY Zenon, <1>1, <1>8, <1>9, <1>a, <1>b, <1>c, <1>d DEF Inv, Counters
<1>10. TypeOK' /\ checks' /\ Timer'
  BY Zenon, <1>1, <1>8 DEF Inv, TypeOK, Timer, TimerUntilFin
<1> QED BY Zenon, <1>9, <1>10, <1>e DEF Inv

(* sendData: next moves over what the ring reports as written, stored or   *)
(* not; the bytes already stored, and the window over them, stay.          *)
LEMMA SendDataInv ==
  ASSUME Inv, NEW length \in 1..StreamLength, sendData(length)
  PROVE  Inv'
<1> DEFINE data == [i \in 0..(length - 1) |-> accepted + i]
           n == writeLength(ring, length)
<1>f. /\ Kept \in Int /\ FinSent \in 0..1 /\ lost \in Nat /\ accepted \in Nat /\ got \in Nat
      /\ Discarded \in Int /\ initial \in 0..(SeqMod - 1) /\ next \in 0..(SeqMod - 1)
      /\ bytes_in_flight \in 0..(SizeMod - 1)
  BY Zenon, Facts
<1>g. length \in Nat /\ SizeMod \in Nat /\ RingSize \in Nat
  BY SendAssumption, RingAssumption
<1>1. /\ pc = "idle" /\ SYN # "None" /\ FIN = "None"
      /\ accepted + length <= StreamLength
      /\ ring' = write(ring, data, length)
      /\ next' = SeqAdd(next, n)
      /\ accepted' = accepted + n
      /\ lost' = lost + n - (ring'.end - ring.end)
      /\ SYN' = SYN /\ FIN' = FIN /\ initial' = initial /\ unack' = unack
      /\ SYN_received' = SYN_received /\ bytes_in_flight' = bytes_in_flight
      /\ alarm' = alarm /\ checks' = checks /\ net' = net /\ got' = got
  BY Zenon DEF sendData
<1>2. (SYN = "Acked" /\ pc' = "transmit") \/ (SYN # "Acked" /\ pc' = "idle")
  BY Zenon DEF sendData
<1>3. /\ ring \in Ring /\ Ordered(ring)
      /\ remaining(ring) = ring.end - ring.begin
      /\ remaining(ring) \in 0..RingSize
      /\ ring.begin \in Nat /\ ring.end \in Nat
  BY Zenon, RingFacts
<1>4. data \in [0..(length - 1) -> Nat] /\ \A i \in 0..(length - 1) : data[i] = accepted + i
  BY <1>f
<1>n. n = writeLength(ring, length)
  BY Zenon
<1> HIDE DEF data, n
<1>w. ring' = write(ring, data, length) /\ data \in [0..(length - 1) -> Nat]
  BY Zenon, <1>1, <1>4
<1>r. ring \in Ring /\ Ordered(ring) /\ length \in Nat
  BY Zenon, <1>3, <1>g
<1>5. /\ n \in Nat /\ n <= length
      /\ ring' \in Ring /\ Ordered(ring')
      /\ ring'.begin = ring.begin
      /\ ring'.end = IF ring.end < RingSize THEN ring.end + n ELSE ring.end
      /\ \A i \in Nat : i < ring.end - ring.begin => Stored(ring', i) = Stored(ring, i)
      /\ ring.end < RingSize =>
           \A i \in Nat : i < n => Stored(ring', ring.end - ring.begin + i) = data[i]
  BY ONLY <1>n, <1>r, <1>w, WriteStored
<1>6. remaining(ring)' = ring'.end - ring'.begin
  BY Zenon, <1>5, Counts
<1>7. \/ /\ ring.end < RingSize /\ lost' = lost /\ Kept' = Kept + n
         /\ remaining(ring)' = remaining(ring) + n
      \/ /\ ~(ring.end < RingSize) /\ lost' = lost + n /\ Kept' = Kept
         /\ remaining(ring)' = remaining(ring)
  BY ONLY <1>1, <1>3, <1>5, <1>6, <1>f DEF Kept
<1>8. Discarded' = Discarded /\ Kept' \in Int /\ Kept <= Kept' /\ lost' \in Nat
      /\ (lost' = 0 => lost = 0) /\ remaining(ring) <= remaining(ring)'
  BY ONLY <1>3, <1>5, <1>7, <1>f, <1>g DEF Discarded
<1>9. FinSent = 0 /\ FinSent' = 0 /\ FinAcked = 0 /\ FinAcked' = 0
  BY Zenon, <1>1 DEF FinSent, FinAcked
<1>10. next' \in 0..(SeqMod - 1) /\ Offset(next)' = 1 + accepted'
  <2>1. SeqSub(next, initial) = 1 + accepted
    BY <1>1, <1>9, <1>f DEF Inv, Counters, Offset
  <2>2. SeqSub(next, initial) + n < SeqMod
    BY ONLY <2>1, <1>1, <1>5, <1>f, <1>g, SendAssumption
  <2>3. next' \in 0..(SeqMod - 1) /\ SeqSub(next', initial) = SeqSub(next, initial) + n
    BY Zenon, <1>1, <1>5, <1>f, <2>2, SeqAddOffset
  <2>4. SeqSub(next', initial) = 1 + accepted'
    BY ONLY <2>1, <2>3, <1>1, <1>5, <1>f
  <2> QED BY Zenon, <1>1, <2>3, <2>4 DEF Offset
<1>11. TypeOK'
  <2>1. accepted' \in 0..StreamLength
    BY ONLY <1>1, <1>5, <1>f, <1>g, SendAssumption
  <2> QED BY Zenon, <1>1, <1>2, <1>5, <1>8, <1>10, <2>1 DEF Inv, TypeOK
<1>12. Counters'
  <2>1. lost' <= accepted'
    <3>1. lost <= accepted
      BY Zenon DEF Inv, Counters
    <3> QED BY ONLY <3>1, <1>1, <1>5, <1>7, <1>f
  <2>2. got' <= 1 + Kept' + (IF lost' = 0 THEN FinSent' ELSE 0)
    <3>1. got <= 1 + Kept
      BY <1>9, <1>f DEF Inv, Counters
    <3>2. (IF lost' = 0 THEN FinSent' ELSE 0) = 0
      BY Zenon, <1>9
    <3>3. got' = got
      BY Zenon, <1>1
    <3>k. Kept \in Int /\ Kept' \in Int /\ Kept <= Kept' /\ got \in Int
      BY <1>8, <1>f
    <3> DEFINE a == Kept
               b == Kept'
    <3>a. a \in Int /\ b \in Int /\ got \in Int /\ got <= 1 + a /\ a <= b
      BY Zenon, <3>1, <3>k
    <3> HIDE DEF a, b
    <3>4. got <= 1 + b + 0
      BY ONLY <3>a
    <3> QED BY Zenon, <3>2, <3>3, <3>4 DEF b
  <2>3. \/ bytes_in_flight' <= remaining(ring)'
        \/ bytes_in_flight' + Discarded' + FinAcked' >= SizeMod
    <3>1. bytes_in_flight <= remaining(ring) \/ bytes_in_flight + Discarded + FinAcked >= SizeMod
      BY Zenon DEF Inv, Counters
    <3> QED BY ONLY <3>1, <1>1, <1>3, <1>8, <1>9, <1>f, <1>g, <1>7, <1>5
  <2>4. Offset(unack)' = Offset(unack) /\ Offset(next)' = 1 + accepted' + FinSent'
    <3>1. 1 + accepted' + 0 = 1 + accepted'
      BY ONLY <1>1, <1>5, <1>f
    <3> QED BY Zenon, <1>1, <1>9, <1>10, <3>1 DEF Offset
  <2> QED BY Zenon, <1>1, <1>2, <1>8, <1>9, <2>1, <2>2, <2>3, <2>4 DEF Inv, Counters
<1>13. checks' /\ Timer'
  BY Zenon, <1>1, <1>2 DEF Inv, Timer, TimerUntilFin
<1>14. \A seg \in net : SegmentOK(seg)' /\ (SegmentData(seg) => SegmentData(seg)')
  BY Zenon, <1>1, <1>8, OldSegments
<1>15. Segments'
  BY Zenon, <1>1, <1>14 DEF Segments
<1>16. ASSUME lost' = 0 PROVE Holds(ring', Discarded)
  <2>1. lost = 0 /\ Holds(ring, Discarded) /\ Discarded >= 0
    BY Zenon, <1>8, <1>16 DEF Inv, Data, Counters
  <2>2. Discarded \in Nat /\ accepted = Discarded + (ring.end - ring.begin)
    BY ONLY <2>1, <1>3, <1>f, <1>g DEF Discarded, Kept
  <2>3. CASE ring.end < RingSize
    BY <1>1, <1>3, <1>4, <1>f, <1>g, <2>1, <2>2, <2>3, HoldsWrite
  <2>4. CASE ~(ring.end < RingSize)
    <3>1. ring'.end - ring'.begin = ring.end - ring.begin
      BY Zenon, <1>5, <2>4
    <3> QED BY Zenon, <1>5, <2>1, <3>1 DEF Holds
  <2> QED BY Zenon, <2>3, <2>4
<1>17. Data'
  BY Zenon, <1>1, <1>8, <1>14, <1>16 DEF Inv, Data
<1> QED BY Zenon, <1>5, <1>11, <1>12, <1>13, <1>15, <1>17 DEF Inv

(* acknowledge: unack, the ring and bytes_in_flight_ move together; the    *)
(* FIN is acknowledged exactly when nothing else is left.                  *)
LEMMA PeerAckInv ==
  ASSUME Inv, NEW m \in 1..(StreamLength + 2), PeerAck(m)
  PROVE  Inv'
<1> DEFINE ack == SeqAdd(initial, m)
           base == IF SYN = "Sent" THEN SeqAdd(initial, 1) ELSE unack
           c == SeqSub(ack, base)
           cl == consumeLength(ring, c)
           rem == remaining(ring)
           d == Discarded
           k == Kept
           fs == FinSent
           fa == FinAcked
           fin == FIN = "Sent" /\ equal(ack, next)
           b2 == SizeSub(bytes_in_flight, c)
<1>f. /\ SYN \in CtlState /\ FIN \in CtlState
      /\ lost \in Nat /\ accepted \in Nat /\ accepted \in 0..StreamLength /\ got \in Nat
      /\ d \in Int /\ k \in Int /\ fs \in 0..1 /\ fa \in 0..1
      /\ initial \in 0..(SeqMod - 1) /\ next \in 0..(SeqMod - 1) /\ unack \in 0..(SeqMod - 1)
      /\ bytes_in_flight \in 0..(SizeMod - 1) /\ alarm \in BOOLEAN
  BY Zenon, Facts
<1>g. SizeMod \in Nat /\ RingSize \in Nat /\ SeqMod \in Nat
  BY Zenon, SendAssumption, RingAssumption
<1>1. /\ m \in 1..got /\ pc = "idle" /\ SYN # "None" /\ greaterOrEqual(ack, base)
      /\ SYN' = "Acked" /\ ring' = consume(ring, c) /\ bytes_in_flight' = b2
      /\ FIN' = (IF fin THEN "Acked" ELSE FIN)
      /\ unack' = (IF fin THEN SeqAdd(SeqAdd(base, cl), 1) ELSE SeqAdd(base, cl))
      /\ alarm' = ((alarm \/ b2 = 0) /\ ~fin)
      /\ pc' = (IF c > 0 THEN "transmit" ELSE "idle")
      /\ checks' = (checks /\ (SYN = "Sent" => greaterThan(ack, initial)) /\ (fin => empty(ring')))
      /\ initial' = initial /\ next' = next /\ SYN_received' = SYN_received
      /\ net' = net /\ accepted' = accepted /\ lost' = lost /\ got' = got
  BY Zenon DEF PeerAck, acknowledge, AckBase, FlightAfter, AcksFIN, AlarmAfter
<1>2. /\ ring \in Ring /\ Ordered(ring)
      /\ rem = ring.end - ring.begin /\ rem \in 0..RingSize
      /\ ring.begin \in Nat /\ ring.end \in Nat
  BY Zenon, RingFacts
<1>3. /\ lost <= accepted /\ d >= 0
      /\ Offset(next) = 1 + accepted + fs
      /\ SYN # "Acked" => d = 0 /\ FIN # "Acked"
      /\ SYN = "Acked" => Offset(unack) = d + 1 + fa
      /\ got <= 1 + k + (IF lost = 0 THEN fs ELSE 0)
      /\ bytes_in_flight <= rem \/ bytes_in_flight + d + fa >= SizeMod
      /\ FIN = "Acked" => /\ lost = 0 /\ rem = 0 /\ got = accepted + 2
                          /\ bytes_in_flight + d + 1 >= SizeMod
  BY Zenon, <1>1 DEF Inv, Counters
<1>4. k = accepted - lost /\ k = d + rem
  <2>1. rem \in Int
    BY <1>2, <1>g
  <2> QED BY <2>1, <1>f DEF Kept, Discarded
<1>5. /\ fs = 1 <=> FIN # "None"
      /\ fa = 1 <=> FIN = "Acked"
      /\ fa <= fs
  BY DEF FinSent, FinAcked
<1>6. ack \in 0..(SeqMod - 1) /\ SeqSub(ack, initial) = m /\ SeqSub(initial, initial) = 0
  <2>1. SeqSub(initial, initial) = 0
    BY Zenon, <1>f, SeqSubOffset
  <2>2. m \in Nat /\ SeqSub(initial, initial) + m < SeqMod
    BY <2>1, SendAssumption
  <2>3. ack \in 0..(SeqMod - 1) /\ SeqSub(ack, initial) = SeqSub(initial, initial) + m
    BY Zenon, <1>f, <2>2, SeqAddOffset
  <2> QED BY <2>1, <2>2, <2>3
<1>7. base \in 0..(SeqMod - 1) /\ SeqSub(base, initial) = d + 1 + fa
  <2>1. CASE SYN = "Sent"
    <3>1. d = 0 /\ fa = 0
      BY <1>3, <1>5, <1>f, <2>1
    <3>2. SeqSub(initial, initial) + 1 < SeqMod
      BY <1>6, SendAssumption
    <3>3. SeqAdd(initial, 1) \in 0..(SeqMod - 1)
          /\ SeqSub(SeqAdd(initial, 1), initial) = SeqSub(initial, initial) + 1
      BY Zenon, <1>f, <3>2, SeqAddOffset
    <3>4. SeqSub(base, initial) = 0 + 1 /\ base \in 0..(SeqMod - 1)
      BY Zenon, <1>6, <2>1, <3>3
    <3> QED BY ONLY <3>1, <3>4
  <2>2. CASE SYN # "Sent"
    <3>1. SYN = "Acked"
      BY Zenon, <1>1, <1>f, <2>2 DEF CtlState
    <3> QED BY Zenon, <1>3, <1>f, <3>1 DEF Offset
  <2> QED BY Zenon, <2>1, <2>2
<1>8. d + 1 + fa <= m
  BY Zenon, <1>1, <1>6, <1>7 DEF greaterOrEqual
<1> HIDE DEF ack, base, k, d, fs, fa, rem
<1>9. c = m - (d + 1 + fa)
  <2>1. SeqSub(base, initial) <= SeqSub(ack, initial)
    BY Zenon, <1>6, <1>7, <1>8
  <2>2. SeqSub(ack, base) = SeqSub(ack, initial) - SeqSub(base, initial)
    BY ONLY <1>6, <1>7, <1>f, <1>g, <2>1 DEF SeqSub
  <2> QED BY Zenon, <1>6, <1>7, <2>2
<1> HIDE DEF c
<1>10. cl = Least(c, rem)
  BY Zenon DEF consumeLength, rem
<1> HIDE DEF cl
<1>11. fin <=> fs = 1 /\ fa = 0 /\ m = 1 + accepted + fs
  <2>1. equal(ack, next) <=> m = 1 + accepted + fs
    BY Zenon, <1>3, <1>6 DEF equal, Offset
  <2>2. FIN = "Sent" <=> (FIN # "None" /\ FIN # "Acked")
    BY Zenon, <1>f DEF CtlState
  <2> QED BY <1>5, <1>f, <2>1, <2>2
<1> HIDE DEF fin
<1>12. /\ c \in Nat /\ cl \in Nat /\ cl <= rem
       /\ fin => lost = 0 /\ cl = rem /\ c = cl + 1 /\ got = accepted + 2
       /\ ~fin => c = cl
       /\ fa = 1 => c = 0
  <2>1. m \in Nat /\ m <= got /\ d \in Nat /\ rem \in Nat
    BY <1>1, <1>2, <1>3, <1>f, <1>g
  <2>2. accepted - lost = d + rem /\ got <= 1 + (d + rem) + (IF lost = 0 THEN fs ELSE 0)
    BY Zenon, <1>3, <1>4
  <2>3. fa = 1 => lost = 0 /\ rem = 0 /\ got = accepted + 2
    BY Zenon, <1>3, <1>5
  <2>4. c \in Nat /\ cl \in Nat /\ cl <= rem /\ (cl = c \/ (cl = rem /\ rem < c))
    BY ONLY <1>8, <1>9, <1>10, <1>f, <2>1 DEF Least
  <2>5. ASSUME fin PROVE lost = 0 /\ cl = rem /\ c = cl + 1 /\ got = accepted + 2
    BY ONLY <1>9, <1>11, <1>f, <2>1, <2>2, <2>4, <2>5
  <2>6. ASSUME ~fin PROVE c = cl
    <3>1. CASE fa = 1
      BY ONLY <1>9, <1>f, <2>1, <2>2, <2>3, <2>4, <3>1
    <3>2. CASE fa = 0
      <4>1. ~(fs = 1 /\ m = 1 + accepted + fs)
        BY ONLY Zenon, <1>11, <2>6, <3>2
      <4> QED BY ONLY <1>9, <1>f, <2>1, <2>2, <2>4, <3>2, <4>1
    <3> QED BY <1>f, <3>1, <3>2
  <2>7. fa = 1 => c = 0
    BY ONLY <1>9, <1>f, <2>1, <2>2, <2>3, <2>4
  <2> QED BY Zenon, <2>4, <2>5, <2>6, <2>7
<1>13. /\ b2 \in 0..(SizeMod - 1)
       /\ c = cl => b2 <= rem - cl \/ b2 + (d + cl) + fa >= SizeMod
       /\ c = cl + 1 => b2 + (d + cl) + 1 >= SizeMod
       /\ c = 0 => b2 = bytes_in_flight
  <2>1. d \in Nat /\ rem \in Nat
    BY <1>2, <1>3, <1>f, <1>g
  <2>2. d + rem + 2 < SizeMod
    BY ONLY <1>4, <1>f, <1>g, <2>1, SendAssumption
  <2>3. c = cl \/ (c = cl + 1 /\ cl = rem /\ fa = 0)
    BY Zenon, <1>11, <1>12
  <2>4. bytes_in_flight <= rem \/ bytes_in_flight + d + fa >= SizeMod
    BY Zenon, <1>3
  <2>5. c \in Nat /\ cl \in Nat /\ cl <= rem /\ fa \in 0..1
        /\ bytes_in_flight \in 0..(SizeMod - 1) /\ SizeMod \in Nat
    BY Zenon, <1>12, <1>f, <1>g
  <2> QED BY ONLY <2>1, <2>2, <2>3, <2>4, <2>5 DEF b2, SizeSub
<1> HIDE DEF b2
<1>14. /\ ring' \in Ring /\ Ordered(ring') /\ remaining(ring') = rem - cl
       /\ ring'.end - ring'.begin = rem - cl
       /\ (Holds(ring, d) => Holds(ring', d + cl))
  <2>1. ring' = Advance(ring, cl)
    BY Zenon, <1>1 DEF consume, cl
  <2>2. cl \in Nat /\ cl <= ring.end - ring.begin
    BY Zenon, <1>2, <1>12
  <2>3. /\ ring' \in Ring /\ Ordered(ring')
        /\ ring'.end - ring'.begin = ring.end - ring.begin - cl
    BY <1>2, <2>1, <2>2, AdvanceStored
  <2>4. remaining(ring') = ring'.end - ring'.begin
    BY Zenon, <2>3, Counts
  <2>5. Holds(ring, d) => Holds(ring', d + cl)
    BY Zenon, <1>2, <1>f, <2>1, <2>2, HoldsAdvance
  <2> QED BY Zenon, <1>2, <2>3, <2>4, <2>5
<1>15. Kept' = k /\ Discarded' = d + cl
  <2>1. Kept' = k
    BY Zenon, <1>1 DEF Kept, k
  <2>2. Discarded' = k - (rem - cl)
    BY Zenon, <1>14, <2>1 DEF Discarded
  <2>3. rem \in Int
    BY <1>2, <1>g
  <2> QED BY <1>4, <1>12, <1>f, <2>1, <2>2, <2>3
<1>16. /\ FinSent' = fs
       /\ fin => FIN' = "Acked" /\ FinAcked' = 1
       /\ ~fin => FIN' = FIN /\ FinAcked' = fa
  BY Zenon, <1>1 DEF FinSent, FinAcked, fs, fa, fin
<1>17. unack' \in 0..(SeqMod - 1) /\ SeqSub(unack', initial) = m
  <2>1. SeqSub(base, initial) + cl < SeqMod
    BY <1>7, <1>9, <1>12, <1>f, SendAssumption
  <2>2. /\ SeqAdd(base, cl) \in 0..(SeqMod - 1)
        /\ SeqSub(SeqAdd(base, cl), initial) = d + 1 + fa + cl
    BY <1>7, <1>12, <1>f, <2>1, SeqAddOffset
  <2>3. CASE ~fin
    BY <1>1, <1>9, <1>12, <1>f, <2>2, <2>3
  <2>4. CASE fin
    <3>1. d + 1 + fa + cl + 1 = m
      BY <1>9, <1>12, <1>f, <2>4
    <3>2. SeqSub(SeqAdd(base, cl), initial) + 1 < SeqMod
      BY <2>2, <3>1, SendAssumption
    <3>3. /\ SeqAdd(SeqAdd(base, cl), 1) \in 0..(SeqMod - 1)
          /\ SeqSub(SeqAdd(SeqAdd(base, cl), 1), initial) = SeqSub(SeqAdd(base, cl), initial) + 1
      BY <1>f, <2>2, <3>2, SeqAddOffset
    <3> QED BY Zenon, <1>1, <2>2, <2>4, <3>1, <3>3
  <2> QED BY Zenon, <2>3, <2>4
<1>18. m = (d + cl) + 1 + FinAcked' /\ d + cl < got
  <2>1. fin => fa = 0
    BY Zenon, <1>11
  <2>2. m = (d + cl) + 1 + FinAcked'
    BY <1>9, <1>12, <1>16, <1>f, <2>1
  <2>3. FinAcked' \in 0..1
    BY <1>16, <1>f
  <2>4. m <= got /\ m \in Nat /\ d \in Int /\ cl \in Nat /\ got \in Nat
    BY <1>1, <1>12, <1>f
  <2> DEFINE fa2 == FinAcked'
  <2>5. m = (d + cl) + 1 + fa2 /\ fa2 \in 0..1
    BY Zenon, <2>2, <2>3
  <2> HIDE DEF fa2
  <2>6. d + cl < got
    BY ONLY <2>4, <2>5
  <2> QED BY Zenon, <2>2, <2>6
<1>19. TypeOK'
  BY Zenon, <1>1, <1>13, <1>14, <1>16, <1>17, <1>f DEF Inv, TypeOK, CtlState
<1>20. Counters'
  <2>1. Offset(next)' = 1 + accepted' + FinSent'
    BY Zenon, <1>1, <1>3, <1>16 DEF Offset
  <2>2. Offset(unack)' = Discarded' + 1 + FinAcked' /\ Discarded' < got'
    BY Zenon, <1>1, <1>15, <1>17, <1>18 DEF Offset
  <2>3. got' <= 1 + Kept' + (IF lost' = 0 THEN FinSent' ELSE 0)
    BY Zenon, <1>1, <1>3, <1>15, <1>16
  <2>4. Discarded' >= 0 /\ lost' <= accepted'
    BY <1>1, <1>3, <1>12, <1>15, <1>f
  <2>5. fin => c = cl + 1 /\ FinAcked' = 1
    BY Zenon, <1>12, <1>16
  <2>6. ~fin => c = cl /\ FinAcked' = fa
    BY Zenon, <1>12, <1>16
  <2>7. \/ bytes_in_flight' <= remaining(ring)'
        \/ bytes_in_flight' + Discarded' + FinAcked' >= SizeMod
    BY Zenon, <1>1, <1>13, <1>14, <1>15, <2>5, <2>6
  <2>8. FIN' = "Acked" => /\ lost' = 0 /\ remaining(ring)' = 0 /\ got' = accepted' + 2
                          /\ bytes_in_flight' + Discarded' + 1 >= SizeMod
    <3>1. CASE fin
      <4>1. rem - cl = 0
        BY <1>2, <1>12, <1>g, <3>1
      <4> QED BY Zenon, <1>1, <1>12, <1>13, <1>14, <1>15, <3>1, <4>1
    <3>2. CASE ~fin /\ FIN = "Acked"
      <4>1. c = 0 /\ cl = 0 /\ fa = 1
        BY Zenon, <1>5, <1>12, <3>2
      <4>2. lost = 0 /\ rem = 0 /\ got = accepted + 2 /\ bytes_in_flight + d + 1 >= SizeMod
        BY Zenon, <1>3, <3>2
      <4>3. b2 = bytes_in_flight /\ d + cl = d /\ rem - cl = 0
        BY <1>13, <1>f, <4>1, <4>2
      <4> QED BY Zenon, <1>1, <1>14, <1>15, <4>2, <4>3
    <3> QED BY Zenon, <1>16, <3>1, <3>2
  <2> QED BY Zenon, <1>1, <2>1, <2>2, <2>3, <2>4, <2>7, <2>8 DEF Counters
<1>21. checks'
  <2>1. checks
    BY Zenon DEF Inv
  <2>2. greaterThan(ack, initial)
    BY <1>6 DEF greaterThan
  <2>3. fin => empty(ring')
    <3> SUFFICES ASSUME fin PROVE ring'.begin = ring'.end
      BY Zenon DEF empty
    <3>1. rem - cl = 0 /\ ring'.begin \in Nat /\ ring'.end \in Nat
      BY <1>2, <1>12, <1>14, <1>g, Fields
    <3> QED BY <1>14, <3>1
  <2> QED BY Zenon, <1>1, <2>1, <2>2, <2>3
<1>22. Timer'
  <2>1. alarm <=> FIN # "Acked"
    BY Zenon, <1>1 DEF Inv, Timer, TimerUntilFin
  <2>2. FIN = "Acked" => b2 # 0
    <3> SUFFICES ASSUME FIN = "Acked", b2 = 0 PROVE FALSE
      BY Zenon
    <3>1. c = 0 /\ bytes_in_flight + d + 1 >= SizeMod /\ b2 = bytes_in_flight /\ rem = 0
      BY Zenon, <1>3, <1>5, <1>12, <1>13
    <3> QED BY ONLY <1>4, <1>f, <1>g, <3>1, b2 = 0, SendAssumption
  <2>3. pc' # "retransmit"
    BY Zenon, <1>1
  <2>4. alarm' <=> FIN' # "Acked"
    BY Zenon, <1>1, <1>16, <2>1, <2>2
  <2> QED BY Zenon, <2>3, <2>4 DEF Timer, TimerUntilFin
<1>23. \A seg \in net : SegmentOK(seg)' /\ (SegmentData(seg) => SegmentData(seg)')
  <2>1. Kept' \in Int /\ Kept <= Kept'
    BY <1>15, <1>f DEF k
  <2>2. FIN # "None" => FIN' # "None"
    BY Zenon, <1>1
  <2> QED BY Zenon, <1>1, <2>1, <2>2, OldSegments
<1>24. Segments'
  BY Zenon, <1>1, <1>23 DEF Segments
<1>25. Data'
  <2>1. lost = 0 => Holds(ring, d) /\ \A seg \in net : SegmentData(seg)
    BY Zenon DEF Inv, Data, d
  <2> QED BY Zenon, <1>1, <1>14, <1>15, <1>23, <2>1 DEF Data
<1> QED BY Zenon, <1>14, <1>19, <1>20, <1>21, <1>22, <1>24, <1>25 DEF Inv

(* One iteration of transmit: what it reads lies in the ring behind the    *)
(* window, so that the segment is a piece of the stream.                   *)
LEMMA TransmitInv ==
  ASSUME Inv, NEW ok \in BOOLEAN, transmit(ok)
  PROVE  Inv'
<1> DEFINE b == bytes_in_flight
           rem == remaining(ring)
           d == Discarded
           n == offsetLength(ring, b, kMaxSegmentSize)
           seq == SeqAdd(unack, b)
           fin == FIN = "Sent" /\ equal(SeqAdd(seq, n + 1), next)
           data == offsetBytes(ring, b, kMaxSegmentSize)
           room == b < kMaxBytesInFlight
           send == room /\ (fin \/ n > 0)
           leave == ~send \/ ~ok \/ n = 0
           seg == Segment(FALSE, TRUE, fin, seq, n, data)
<1>f. /\ lost \in Nat /\ accepted \in Nat /\ accepted \in 0..StreamLength /\ got \in Nat
      /\ d \in Int /\ Kept \in Int /\ FinSent \in 0..1 /\ FinAcked \in 0..1
      /\ initial \in 0..(SeqMod - 1) /\ next \in 0..(SeqMod - 1) /\ unack \in 0..(SeqMod - 1)
      /\ b \in 0..(SizeMod - 1) /\ FIN \in CtlState /\ SYN \in CtlState
  BY Zenon, Facts
<1>g. SizeMod \in Nat /\ RingSize \in Nat /\ SeqMod \in Nat /\ kMaxSegmentSize \in Nat \ {0}
      /\ kMaxBytesInFlight \in Nat
  BY Zenon, SendAssumption, RingAssumption
<1>1. /\ pc # "idle"
      /\ bytes_in_flight' = (IF send THEN b + n ELSE b)
      /\ (IF send THEN SendSegment(seg, ok) ELSE net' = net)
      /\ (IF leave THEN LeaveTransmit ELSE UNCHANGED <<pc, alarm>>)
      /\ checks' = (/\ checks /\ (room => offsetCheck(ring, b, kMaxSegmentSize))
                    /\ (leave /\ pc = "retransmit" => ~alarm))
      /\ ring' = ring /\ SYN' = SYN /\ FIN' = FIN /\ initial' = initial /\ next' = next
      /\ unack' = unack /\ SYN_received' = SYN_received
      /\ accepted' = accepted /\ lost' = lost /\ got' = got
  BY Zenon DEF transmit, FinFollows, tcb
<1>2. /\ ring \in Ring /\ Ordered(ring)
      /\ rem = ring.end - ring.begin /\ rem \in 0..RingSize
      /\ ring.begin \in Nat /\ ring.end \in Nat
  BY Zenon, RingFacts
<1>3. /\ SYN = "Acked" /\ lost <= accepted /\ d >= 0
      /\ Offset(next) = 1 + accepted + FinSent
      /\ Offset(unack) = d + 1 + FinAcked
      /\ b <= rem \/ b + d + FinAcked >= SizeMod
      /\ FIN = "Acked" => b + d + 1 >= SizeMod
  BY Zenon, <1>1 DEF Inv, Counters
<1>4. Kept = accepted - lost /\ Kept = d + rem /\ rem \in Nat /\ d \in Nat
  <2>1. rem \in Nat /\ d \in Nat
    BY <1>2, <1>3, <1>f, <1>g
  <2> QED BY <2>1, <1>f DEF Kept, Discarded
<1> HIDE DEF rem, d
<1>5. ASSUME room PROVE b \in Nat /\ b <= rem /\ FIN # "Acked" /\ FinAcked = 0
  <2>1. d + 1 + kMaxBytesInFlight < SizeMod
    BY ONLY <1>4, <1>f, <1>g, SendAssumption
  <2>2. b <= rem
    BY ONLY <1>3, <1>4, <1>5, <1>f, <1>g, <2>1
  <2>3. FIN # "Acked"
    BY ONLY <1>3, <1>4, <1>5, <1>f, <1>g, <2>1
  <2> QED BY <1>f, <1>g, <2>2, <2>3 DEF FinAcked
<1>6. ASSUME room
      PROVE  /\ n \in Nat /\ b + n <= rem /\ n <= kMaxSegmentSize
             /\ data = Fetch(ring, ring.begin + b, n)
             /\ offsetCheck(ring, b, kMaxSegmentSize)
  <2>1. SizeSub(ring.end, ring.begin + b) = rem - b
    BY ONLY <1>2, <1>5, <1>6, <1>g DEF SizeSub
  <2>2. n = Least(kMaxSegmentSize, rem - b)
    BY Zenon, <2>1 DEF offsetLength
  <2>3. data = Fetch(ring, ring.begin + b, n)
    BY Zenon DEF offsetBytes
  <2> HIDE DEF n, data
  <2>4. n \in Nat /\ b + n <= rem /\ n <= kMaxSegmentSize
    BY ONLY <1>4, <1>5, <1>6, <1>g, <2>2 DEF Least
  <2>5. ring.begin + b + n <= ring.end
    BY ONLY <1>2, <1>5, <1>6, <2>4
  <2> QED BY Zenon, <2>3, <2>4, <2>5 DEF offsetCheck, n
<1>7. pc' \in {"idle", "transmit", "retransmit"} /\ alarm' \in BOOLEAN /\ Timer'
  <2>1. alarm \in BOOLEAN /\ pc \in {"idle", "transmit", "retransmit"}
    BY Zenon, Facts
  <2>2. Timer
    BY Zenon DEF Inv
  <2>3. CASE leave
    BY Zenon, <1>1, <2>1, <2>2, <2>3 DEF LeaveTransmit, Timer, TimerUntilFin
  <2>4. CASE ~leave
    BY Zenon, <1>1, <2>1, <2>2, <2>4 DEF Timer, TimerUntilFin
  <2> QED BY Zenon, <2>3, <2>4
<1>8. checks'
  <2>1. checks /\ (pc = "retransmit" => ~alarm)
    BY Zenon DEF Inv, Timer
  <2> QED BY Zenon, <1>1, <1>6, <2>1
<1> HIDE DEF n, data
<1>9. /\ bytes_in_flight' \in 0..(SizeMod - 1)
      /\ bytes_in_flight' <= rem \/ bytes_in_flight' + d + FinAcked >= SizeMod
      /\ FIN = "Acked" => bytes_in_flight' + d + 1 >= SizeMod
  <2>1. CASE send
    <3>1. b + n \in Nat /\ b + n <= rem /\ FIN # "Acked" /\ bytes_in_flight' = b + n
      BY <1>1, <1>5, <1>6, <2>1
    <3>2. rem < SizeMod
      BY ONLY <1>2, <1>g, SendAssumption
    <3>3. b + n \in 0..(SizeMod - 1)
      BY ONLY <1>4, <1>g, <3>1, <3>2
    <3> QED BY Zenon, <3>1, <3>3
  <2>2. CASE ~send
    BY Zenon, <1>1, <1>3, <1>f, <2>2
  <2> QED BY Zenon, <2>1, <2>2
<1>10. ASSUME send
       PROVE  /\ seq \in 0..(SeqMod - 1) /\ SeqSub(seq, initial) = d + 1 + b
              /\ fin => FIN # "None" /\ lost = 0 /\ d + b + n = accepted
  <2>1. /\ b \in Nat /\ n \in Nat /\ b + n <= rem /\ FinAcked = 0 /\ FIN # "Acked"
    BY Zenon, <1>5, <1>6, <1>10
  <2>2. SeqSub(unack, initial) = d + 1
    BY <1>3, <1>4, <2>1 DEF Offset
  <2>3. SeqSub(unack, initial) + b < SeqMod /\ d + 1 + b + (n + 1) < SeqMod
    BY ONLY <1>4, <1>f, <1>g, <2>1, <2>2, SendAssumption
  <2>4. seq \in 0..(SeqMod - 1) /\ SeqSub(seq, initial) = d + 1 + b
    <3>1. seq \in 0..(SeqMod - 1) /\ SeqSub(seq, initial) = SeqSub(unack, initial) + b
      BY Zenon, <1>f, <2>1, <2>3, SeqAddOffset
    <3> QED BY Zenon, <2>2, <3>1
  <2> HIDE DEF seq
  <2>5. SeqSub(SeqAdd(seq, n + 1), initial) = d + 1 + b + (n + 1)
    <3>1. n + 1 \in Nat /\ SeqSub(seq, initial) + (n + 1) < SeqMod
      BY <2>1, <2>3, <2>4
    <3> QED BY <1>f, <2>4, <3>1, SeqAddOffset
  <2>6. ASSUME fin PROVE FIN # "None" /\ lost = 0 /\ d + b + n = accepted
    <3>1. FIN = "Sent" /\ FinSent = 1
      BY Zenon, <2>6 DEF FinSent
    <3>2. d + 1 + b + (n + 1) = 1 + accepted + 1
      BY Zenon, <1>3, <2>5, <2>6, <3>1 DEF equal, Offset
    <3>3. lost = 0 /\ d + b + n = accepted
      BY ONLY <1>4, <1>f, <2>1, <3>2
    <3> QED BY Zenon, <3>1, <3>3
  <2> QED BY Zenon, <2>4, <2>6
<1>11. ASSUME send, NEW s, s = seg
       PROVE  SegmentOK(s)' /\ (lost = 0 => SegmentData(s)')
  <2>1. /\ s.syn = FALSE /\ s.fin = fin /\ s.seq = seq /\ s.length = n /\ s.data = data
    BY Zenon, <1>11 DEF Segment
  <2>2. n \in Nat /\ b \in Nat /\ b + n <= rem
    BY Zenon, <1>5, <1>6, <1>11
  <2>3. seq \in 0..(SeqMod - 1) /\ SeqSub(seq, initial) = d + 1 + b
        /\ (fin => FIN # "None" /\ lost = 0 /\ d + b + n = accepted)
    BY Zenon, <1>10, <1>11
  <2>k. Kept' = Kept
    BY Zenon, <1>1 DEF Kept
  <2> HIDE DEF seq, fin, seg
  <2> DEFINE off == Offset(s.seq)'
             kept == Kept'
             len == s.length
  <2>4. off = d + 1 + b /\ kept = Kept /\ len = n
    BY Zenon, <1>1, <2>1, <2>3, <2>k DEF Offset
  <2> HIDE DEF off, kept, len
  <2>5. 1 <= off /\ off - 1 + len = d + b + n /\ off - 1 + len <= kept
    BY ONLY <1>4, <2>2, <2>4
  <2>6. fin \in BOOLEAN
    BY Zenon DEF fin
  <2>7. SegmentOK(s)'
    <3>1. s.seq \in 0..(SeqMod - 1) /\ len \in Nat /\ s.syn \in BOOLEAN /\ s.fin \in BOOLEAN
      BY Zenon, <2>1, <2>2, <2>3, <2>4, <2>6
    <3>2. s.fin => FIN' # "None" /\ lost' = 0 /\ off - 1 + len = accepted'
      BY Zenon, <1>1, <2>1, <2>3, <2>5
    <3> QED BY ONLY <2>1, <2>5, <3>1, <3>2, Zenon DEF SegmentOK, off, kept, len
  <2>8. ASSUME lost = 0 PROVE SegmentData(s)'
    <3>1. Holds(ring, d)
      BY Zenon, <2>8 DEF Inv, Data, d
    <3>2. data = Fetch(ring, ring.begin + b, n) /\ b + n <= ring.end - ring.begin
      BY Zenon, <1>2, <1>6, <1>11, <2>2
    <3>3. \A i \in 0..(n - 1) : data[i] = d + b + i
      BY <1>2, <1>f, <2>2, <3>1, <3>2, HoldsFetch
    <3>4. \A i \in 0..(len - 1) : s.data[i] = off - 1 + i
      <4> SUFFICES ASSUME NEW i \in 0..(n - 1) PROVE data[i] = off - 1 + i
        BY Zenon, <2>1, <2>4
      <4>1. data[i] = d + b + i
        BY Zenon, <3>3
      <4>2. off - 1 + i = d + b + i
        BY ONLY <1>4, <2>2, <2>4, i \in 0..(n - 1)
      <4> QED BY Zenon, <4>1, <4>2
    <3> QED BY ONLY <3>4, Zenon DEF SegmentData, off, len
  <2> QED BY Zenon, <2>7, <2>8
<1>12. \A s \in net' : s \in net \/ (SegmentOK(s)' /\ (lost = 0 => SegmentData(s)'))
  <2> SUFFICES ASSUME NEW s \in net'
               PROVE  s \in net \/ (SegmentOK(s)' /\ (lost = 0 => SegmentData(s)'))
    BY Zenon
  <2>1. CASE ~send
    BY Zenon, <1>1, <2>1
  <2>2. CASE send
    <3> HIDE DEF seg
    <3>1. s \in net \/ s = seg
      BY Zenon, <1>1, <2>2, SentSegments
    <3> QED BY Zenon, <1>11, <2>2, <3>1
  <2> QED BY Zenon, <2>1, <2>2
<1>13. /\ Kept' = Kept /\ Discarded' = Discarded
       /\ Ordered(ring)' /\ Segments' /\ Data'
  BY Zenon, <1>1, <1>12, SameStream
<1>14. TypeOK'
  <2>1. checks' \in BOOLEAN
    BY Zenon, <1>8, <1>1
  <2> QED BY Zenon, <1>1, <1>7, <1>9, <2>1 DEF Inv, TypeOK
<1>15. Counters'
  <2>1. FinSent' = FinSent /\ FinAcked' = FinAcked /\ Offset(next)' = Offset(next)
        /\ Offset(unack)' = Offset(unack) /\ remaining(ring)' = remaining(ring)
    BY Zenon, <1>1 DEF FinSent, FinAcked, Offset
  <2> QED BY Zenon, <1>1, <1>3, <1>9, <1>13, <2>1 DEF Inv, Counters, d, rem
<1> QED BY Zenon, <1>7, <1>8, <1>13, <1>14, <1>15 DEF Inv

-----------------------------------------------------------------------------
(* For every ring, window, segment size, stream and initial sequence       *)
(* number, and every interleaving of writes, acknowledgments, timeouts,    *)
(* refused, lost, repeated and reordered packets: the invariant that links *)
(* the counters of send_buffer.cpp to the ring, the wire and the peer.     *)
THEOREM SendInvariant == Spec => []Inv
<1>1. Inv /\ [Next]_vars => Inv'
  <2> SUFFICES ASSUME Inv, [Next]_vars PROVE Inv'
    BY Zenon
  <2>1. CASE UNCHANGED vars
    BY <2>1 DEF vars, tcb, Inv, TypeOK, Counters, Timer, TimerUntilFin, Segments, SegmentOK,
                Data, SegmentData, Discarded, Kept, Offset, FinSent, FinAcked
  <2> QED BY Zenon, <2>1, SendSYNInv, SendDataInv, SendFINInv, PeerAckInv, TransmitInv,
             RetransmitInv, ReceiveSYNInv, PeerReceiveInv DEF Next
<1> QED BY <1>1, SendInit, PTL DEF Spec

(* The DCHECKs of sendSYN, read_offset and, in retransmit, Alarm::set      *)
(* never fail, nor those of acknowledge on the SYN and the empty buffer,   *)
(* if callers send no data after the FIN and no acknowledgment older than  *)
(* unack, which sendData and acknowledge demand.                           *)
THEOREM SendChecks == Spec => []DChecksHold
<1>1. Inv => DChecksHold
  BY Zenon DEF Inv, DChecksHold
<1> QED BY <1>1, SendInvariant, PTL

(* Every segment that SendBuffer::transmit sends or sends again carries    *)
(* the bytes of the stream its sequence number stands for, and the FIN     *)
(* only behind the last of them, as long as RingBuffer::write lost none.   *)
THEOREM SendStream == Spec => []SegmentsCarryStream
<1>1. Inv => SegmentsCarryStream
  <2> SUFFICES ASSUME Inv, lost = 0, NEW seg \in net PROVE CarriesStream(seg)
    BY Zenon DEF SegmentsCarryStream
  <2>1. SegmentOK(seg) /\ SegmentData(seg)
    BY Zenon DEF Inv, Segments, Data
  <2>2. CASE seg.syn
    BY Zenon, <2>1, <2>2 DEF SegmentOK, CarriesStream
  <2>3. CASE ~seg.syn
    <3> DEFINE at == Offset(seg.seq) - 1
    <3>1. /\ initial \in 0..(SeqMod - 1) /\ accepted \in Nat
      BY Zenon, Facts
    <3>2. seg.seq \in 0..(SeqMod - 1) /\ seg.length \in Nat
      BY Zenon, <2>1 DEF SegmentOK
    <3>3. Offset(seg.seq) \in Int
      <4>1. SeqSub(seg.seq, initial) \in 0..(SeqMod - 1)
        BY Zenon, <3>1, <3>2, SeqSubOffset
      <4> QED BY <4>1, SendAssumption DEF Offset
    <3>4. 1 <= Offset(seg.seq) /\ at + seg.length <= Kept
          /\ (seg.fin => FIN # "None" /\ at + seg.length = accepted)
      BY Zenon, <2>1, <2>3 DEF SegmentOK
    <3>5. Kept = accepted
      BY <3>1 DEF Kept
    <3>6. at >= 0 /\ at + seg.length <= accepted
      BY ONLY <3>1, <3>2, <3>3, <3>4, <3>5
    <3>7. \A i \in 0..(seg.length - 1) : seg.data[i] = at + i
      BY Zenon, <2>1, <2>3 DEF SegmentData
    <3> HIDE DEF at
    <3> QED BY Zenon, <2>3, <3>4, <3>6, <3>7 DEF CarriesStream, at
  <2> QED BY Zenon, <2>2, <2>3
<1> QED BY <1>1, SendInvariant, PTL

(* acknowledge takes a byte out of the ring only once the peer has it, and *)
(* unack stands for exactly what has been taken out.                       *)
THEOREM SendKeeps == Spec => []KeptUntilReceived
<1>1. Inv => KeptUntilReceived
  <2> SUFFICES ASSUME Inv PROVE KeptUntilReceived
    BY Zenon
  <2>1. Discarded \in Int
    BY Zenon, Facts
  <2>2. FinAcked = 0 => Discarded + 1 + FinAcked = Discarded + 1
    BY ONLY <2>1
  <2>3. FinAcked = 1 => Discarded + 1 + FinAcked = Discarded + 2
    BY ONLY <2>1
  <2> QED BY Zenon, <2>2, <2>3 DEF Inv, Counters, KeptUntilReceived, FinAcked
<1> QED BY <1>1, SendInvariant, PTL

(* transmit never walks past the stored bytes: bytes_in_flight_ is within  *)
(* them, or it has wrapped to a value at which transmit sends nothing.     *)
THEOREM SendWindow == Spec => []WindowStored
<1>1. Inv => WindowStored
  <2> SUFFICES ASSUME Inv PROVE WindowStored
    BY Zenon
  <2>1. /\ remaining(ring) \in Nat /\ bytes_in_flight \in Nat /\ Kept \in Int
        /\ accepted \in 0..StreamLength /\ lost \in Nat /\ FinAcked \in 0..1
    BY RingFacts, Facts, RingAssumption
  <2>2. Discarded + remaining(ring) = accepted - lost
    BY ONLY <2>1 DEF Discarded, Kept
  <2>3. Discarded \in Int
    BY Zenon, Facts
  <2>4. bytes_in_flight <= remaining(ring) \/ bytes_in_flight + Discarded + FinAcked >= SizeMod
    BY Zenon DEF Inv, Counters
  <2>5. kMaxBytesInFlight + kMaxSegmentSize + StreamLength + 1 < SizeMod
        /\ kMaxBytesInFlight \in Nat /\ kMaxSegmentSize \in Nat /\ StreamLength \in Nat
        /\ SizeMod \in Nat
    BY SendAssumption, RingAssumption
  <2>6. \/ bytes_in_flight <= remaining(ring)
        \/ bytes_in_flight >= kMaxBytesInFlight + kMaxSegmentSize
    BY ONLY <2>1, <2>2, <2>3, <2>4, <2>5
  <2> QED BY Zenon, <2>6 DEF WindowStored
<1> QED BY <1>1, SendInvariant, PTL

(* The retransmission alarm is set exactly until the FIN is acknowledged,  *)
(* and the FIN is acknowledged only when the peer has the whole stream.    *)
THEOREM SendFinish == Spec => [](TimerUntilFin /\ FinIsLast)
<1>1. Inv => TimerUntilFin /\ FinIsLast
  <2> SUFFICES ASSUME Inv PROVE TimerUntilFin /\ FinIsLast
    BY Zenon
  <2>1. TimerUntilFin
    BY Zenon DEF Inv, Timer
  <2>2. ASSUME FIN = "Acked" PROVE got = accepted + 2 /\ lost = 0 /\ ring.begin = ring.end
    <3>1. got = accepted + 2 /\ lost = 0 /\ remaining(ring) = 0
      BY Zenon, <2>2 DEF Inv, Counters
    <3>2. remaining(ring) = ring.end - ring.begin /\ ring.begin \in Nat /\ ring.end \in Nat
      BY Zenon, RingFacts
    <3> QED BY ONLY <3>1, <3>2
  <2> QED BY Zenon, <2>1, <2>2 DEF FinIsLast, empty
<1> QED BY <1>1, SendInvariant, PTL

(* After the FIN is acknowledged no operation of the send buffer, and no   *)
(* timeout, sends anything more.                                           *)
THEOREM SendSilent == Spec => SilentAfterFin
<1>1. Inv /\ [Next]_vars => [FIN = "Acked" => net' = net]_vars
  <2> SUFFICES ASSUME Inv, Next, FIN = "Acked" PROVE net' = net
    BY Zenon DEF vars
  <2>1. SYN # "None" /\ bytes_in_flight + Discarded + 1 >= SizeMod /\ remaining(ring) = 0
        /\ lost = 0
    BY Zenon DEF Inv, Counters
  <2>2. pc # "retransmit" /\ ~alarm
    BY Zenon DEF Inv, Timer, TimerUntilFin
  <2>3. bytes_in_flight >= kMaxBytesInFlight
    <3>1. /\ bytes_in_flight \in Nat /\ accepted \in 0..StreamLength
          /\ SizeMod \in Nat /\ kMaxBytesInFlight \in Nat /\ kMaxSegmentSize \in Nat
      BY Facts, RingAssumption, SendAssumption
    <3>2. Discarded = accepted
      BY ONLY <2>1, <3>1, SendAssumption DEF Discarded, Kept
    <3> QED BY ONLY <2>1, <3>1, <3>2, SendAssumption
  <2>4. ASSUME NEW ok \in BOOLEAN, transmit(ok) PROVE net' = net
    <3>1. ~(bytes_in_flight < kMaxBytesInFlight)
      <4>1. bytes_in_flight \in Nat /\ kMaxBytesInFlight \in Nat
        BY Facts, RingAssumption, SendAssumption
      <4> QED BY ONLY <2>3, <4>1
    <3> QED BY Zenon, <2>4, <3>1 DEF transmit, FinFollows
  <2> QED BY Zenon, <2>1, <2>2, <2>4
          DEF Next, sendSYN, sendData, sendFIN, PeerAck, acknowledge, retransmit, ReceiveSYN,
              PeerReceive
<1> QED BY <1>1, SendInvariant, PTL DEF Spec, SilentAfterFin
=============================================================================
