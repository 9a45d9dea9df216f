----------------------------- MODULE TcpSegment -----------------------------
(***************************************************************************)
(* TCP segments as bytes: Segment::writeSegmentTo and parse (segment.cpp), *)
(* SegmentFactory, Checksum (checksum.cpp), the DataWriter and DataReader  *)
(* they use, and the ResetDispatcher that answers a segment nobody knows.  *)
(*                                                                         *)
(* A byte is a number below 256, a uint16_t a number below 65536 and a     *)
(* uint32_t, an IP address included, a record of its two halves.  A buffer *)
(* is the sequence of the bytes written to it.  One segment is made,       *)
(* written, changed in at most one byte on its way, and answered.          *)
(*                                                                         *)
(* The arguments of DCHECK are evaluated, as in a Debug build.             *)
(***************************************************************************)
EXTENDS Integers, Sequences

CONSTANTS
  Ports,            \* ports to choose from
  Halves,           \* halves of sequence numbers
  Addresses,        \* IP addresses
  Flags,            \* control bits
  PayloadBytes,     \* bytes of payloads
  Noise,            \* bytes the network may put in the place of another
  kMaxSegmentSize   \* the longest payload

UINT16_MAX == 65535
Byte == 0..255
Word == 0..UINT16_MAX
kTcpHeaderLength == 20

ASSUME SegmentAssumption ==
  /\ Ports \subseteq Word
  /\ Halves \subseteq Word
  /\ Addresses \subseteq [hi : Word, lo : Word]
  /\ Flags \subseteq Byte
  /\ PayloadBytes \subseteq Byte
  /\ Noise \subseteq Byte
  /\ kMaxSegmentSize \in Nat   \* 1460 in the code
  /\ kTcpHeaderLength + kMaxSegmentSize <= UINT16_MAX

kMaxTCPPacketLength == kTcpHeaderLength + kMaxSegmentSize

VARIABLES
  segment,  \* the segment to be sent
  wire,     \* the bytes on the wire, empty before they are written
  errors,   \* how many bytes the network has changed
  reply     \* what ResetDispatcher sends back

vars == <<segment, wire, errors, reply>>

-----------------------------------------------------------------------------
(* DataWriter and DataReader, in network byte order.                       *)

UInt16(n) == <<n \div 256, n % 256>>
UInt32(n) == UInt16(n.hi) \o UInt16(n.lo)

\* a write that does not fit is refused, and the caller does not notice
writeBytes(buffer, bytes) ==
  IF Len(buffer) + Len(bytes) > kMaxTCPPacketLength THEN buffer
  ELSE buffer \o bytes

readUInt16(buffer, pos) == buffer[pos + 1] * 256 + buffer[pos + 2]
readUInt32(buffer, pos) ==
  [hi |-> readUInt16(buffer, pos), lo |-> readUInt16(buffer, pos + 2)]

-----------------------------------------------------------------------------
(* Checksum.                                                               *)

\* Variant for mutation: an odd byte counts as the low half of a word.
OddLow(bytes) == IF Len(bytes) % 2 = 1 THEN bytes[Len(bytes)] ELSE 0

\* a carry out of the low 16 bits is added back
Fold(sum) == (sum % 65536) + (sum \div 65536)

addHostUInt16(sum, value) == Fold(sum + value)

\* what the sum of a buffer begins with: its last byte, if there is an odd one
OddByte(bytes) == IF Len(bytes) % 2 = 1 THEN bytes[Len(bytes)] * 256 ELSE 0

\* the constructor: the first i words of the bytes are added one by one
Checksum(bytes) ==
  LET sum[i \in 0..(Len(bytes) \div 2)] ==
        IF i = 0 THEN OddByte(bytes)
        ELSE addHostUInt16(sum[i - 1], readUInt16(bytes, 2 * i - 2))
  IN sum[Len(bytes) \div 2]

\* The address is stored in network order and loaded as a little-endian
\* number, whose upper half is the address's lower one.
addIPAddress(sum, address) ==
  addHostUInt16(addHostUInt16(sum, address.lo), address.hi)

\* the bytes with the complement of the sum put at offset at
writeChecksum(bytes, at, sum) ==
  [bytes EXCEPT ![at + 1] = UInt16(UINT16_MAX - sum)[1],
                ![at + 2] = UInt16(UINT16_MAX - sum)[2]]

-----------------------------------------------------------------------------
(* Segment and SegmentFactory.                                             *)

TCP == 6

createSegment(local, remote, seq, ack, ctl, data) ==
  [source |-> local, destination |-> remote, sequence |-> seq,
   acknowledgment |-> ack, flags |-> ctl, window |-> UINT16_MAX, data |-> data]

\* Variant for mutation: the data goes behind a header of 24 bytes.
LongHeader == 96

\* the byte of the data offset: five words
DataOffset == 80

tcp_length(seg) == (Len(seg.data) + kTcpHeaderLength) % (UINT16_MAX + 1)

Header(seg) ==
  UInt16(seg.source.port) \o UInt16(seg.destination.port)
    \o UInt32(seg.sequence) \o UInt32(seg.acknowledgment)
    \o <<DataOffset, seg.flags>> \o UInt16(seg.window) \o UInt16(0) \o UInt16(0)

\* the sum of the bytes and of the pseudo header
SegmentSum(seg, bytes) ==
  addHostUInt16(addHostUInt16(
    addIPAddress(addIPAddress(Checksum(bytes), seg.source.ip), seg.destination.ip),
    TCP), tcp_length(seg))

writeSegmentTo(seg) ==
  LET bytes == writeBytes(Header(seg), seg.data)
  IN writeChecksum(bytes, 16, SegmentSum(seg, bytes))

parse(source, destination, buf) ==
  LET offset == buf[13] \div 4
  IN [source |-> [ip |-> source, port |-> readUInt16(buf, 0)],
      destination |-> [ip |-> destination, port |-> readUInt16(buf, 2)],
      sequence |-> readUInt32(buf, 4), acknowledgment |-> readUInt32(buf, 8),
      flags |-> buf[14], window |-> readUInt16(buf, 14),
      data |-> SubSeq(buf, offset + 1, Len(buf))]

-----------------------------------------------------------------------------
(* One segment.                                                            *)

Payloads == UNION {[1..n -> PayloadBytes] : n \in 0..kMaxSegmentSize}
Endpoints == [ip : Addresses, port : Ports]

Init ==
  /\ \E s, d \in Endpoints, hi, lo \in Halves, ctl \in Flags, data \in Payloads :
       /\ s # d
       /\ segment = createSegment(s, d, [hi |-> hi, lo |-> lo],
                                  [hi |-> lo, lo |-> hi], ctl, data)
  /\ wire = <<>>
  /\ errors = 0
  /\ reply = <<>>

\* SendBuffer::sendSegment
Send ==
  /\ wire = <<>>
  /\ wire' = writeSegmentTo(segment)
  /\ UNCHANGED <<segment, errors, reply>>

\* the network changes one byte
Corrupt ==
  /\ wire # <<>> /\ errors = 0 /\ reply = <<>>
  /\ \E i \in DOMAIN wire, b \in Noise :
       /\ wire[i] # b
       /\ wire' = [wire EXCEPT ![i] = b]
  /\ errors' = 1
  /\ UNCHANGED <<segment, reply>>

\* ResetDispatcher::onReceivePacket: the response it made is not what it sends
onReceivePacket ==
  /\ wire # <<>> /\ errors = 0 /\ reply = <<>>
  /\ reply' = writeSegmentTo(parse(segment.source.ip, segment.destination.ip, wire))
  /\ UNCHANGED <<segment, wire, errors>>

Next == Send \/ Corrupt \/ onReceivePacket

Spec == Init /\ [][Next]_vars

-----------------------------------------------------------------------------
(* Properties.                                                             *)

Sent == wire # <<>> /\ errors = 0

\* what another TCP would send: n words of options before the payload
WithOptions(bytes, n) ==
  [i \in 1..(Len(bytes) + 4 * n) |->
     CASE i = 13 -> (5 + n) * 16
       [] i # 13 /\ i <= kTcpHeaderLength -> bytes[i]
       [] i > kTcpHeaderLength /\ i <= kTcpHeaderLength + 4 * n -> 1
       [] i > kTcpHeaderLength + 4 * n -> bytes[i - 4 * n]]

\* What is written is parsed back as the segment it was, down to the last byte
\* of the payload: nothing was refused by the writer, and the two agree on
\* byte order, offsets and the length of the header; also when there are options
\* in it, up to the longest header.  So ResetDispatcher, which writes the
\* segment it parsed, returns the very bytes it was sent.
ParsesBack ==
  /\ Sent => \A n \in 0..10 :
       parse(segment.source.ip, segment.destination.ip, WithOptions(wire, n)) = segment
  /\ reply # <<>> => reply = wire

\* The sum as RFC 1071 defines it: the bytes of the segment in pairs, the first
\* of each the upper half of a word and the last perhaps without a second, and
\* the pseudo header, modulo 65535.
Worth(bytes, i) == IF i % 2 = 1 THEN 256 * bytes[i] ELSE bytes[i]
ByteSum(bytes) ==
  LET sum[i \in 0..Len(bytes)] ==
        IF i = 0 THEN 0 ELSE sum[i - 1] + Worth(bytes, i)
  IN sum[Len(bytes)]
PseudoHeader ==
  segment.source.ip.hi + segment.source.ip.lo + segment.destination.ip.hi
    + segment.destination.ip.lo + TCP + Len(wire)
Verifies == (PseudoHeader + ByteSum(wire)) % UINT16_MAX = 0

\* A receiver that follows RFC 1071 accepts every segment writeSegmentTo made,
\* whatever the folding loop, the odd byte, the order in which the pseudo
\* header is added and the truncation to 16 bits do, and rejects it when any
\* byte of it was changed: no such change is one between the two zeros of
\* one's complement.
ChecksumExact == wire # <<>> => (Verifies <=> errors = 0)
=============================================================================
