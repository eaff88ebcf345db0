-------------------------------- MODULE Wire --------------------------------
(***************************************************************************)
(* Packets as bytes (kernel/src/network): the internet checksum            *)
(* (checksum.rs), headers of Ethernet (ethernet.rs), IPv4 (ip.rs), UDP     *)
(* (udp.rs), TCP (tcp.rs), ARP (arp.rs) and DNS (dns.rs), how they are     *)
(* written one inside the other, sent over the loopback device or over a   *)
(* link, where short frames are padded and a byte may change, and read     *)
(* back.  A byte has Base values, so that a word has Base^2 and   *)
(* the sums wrap as they do at 16 bits; an address has two bytes, and the  *)
(* fields that always have the same value are left out.                    *)
(***************************************************************************)
EXTENDS Naturals, Sequences, FiniteSets, SequencesExt

CONSTANTS
  Base,              \* 256
  Bytes,             \* byte values that occur in messages
  Addresses,         \* addresses: pairs of bytes
  Ports,             \* port numbers: words
  Payloads,          \* data to send: sequences of bytes
  MinPayload,        \* shortest payload of an Ethernet frame
  MaxMessages        \* bound: messages sent

VARIABLES
  sent,              \* what the sender wanted to say, [kind |-> "none"] at first
  packet,            \* the bytes on the link
  spoiled,           \* a byte has been changed on the way
  padded,            \* the frame was too short for the link
  count

wire == <<sent, packet, spoiled, padded, count>>

Modulus == Base * Base
Word(hi, lo) == hi * Base + lo
ToBytes(word) == <<word \div Base, word % Base>>
-----------------------------------------------------------------------------
(* internet_checksum: words are added up, an odd byte is the upper half of *)
(* the last one; carries are folded back in; the result is complemented.   *)
WordAt(data, k) == Word(data[2 * k - 1], IF 2 * k <= Len(data) THEN data[2 * k] ELSE 0)
WordsOf(data) == [k \in 1 .. (Len(data) + 1) \div 2 |-> WordAt(data, k)]
SumOf(words) == FoldLeft(LAMBDA a, b : a + b, 0, words)

MaxSum == 16 * Modulus
Folded[sum \in 0 .. MaxSum] == IF sum < Modulus THEN sum ELSE Folded[(sum % Modulus) + sum \div Modulus]
(* A sum whose carries are thrown away. *)
ComplementTruncated(sum) == Modulus - 1 - (sum % Modulus)
Complement(sum) == Modulus - 1 - Folded[sum]

internet_checksum(data) == Complement(SumOf(WordsOf(data)))
verify_checksum(data) == internet_checksum(data) = 0

(* pseudo_header_checksum: addresses, protocol and length come first.      *)
PseudoHeader(src, dst, protocol, len) == <<Word(src[1], src[2]), Word(dst[1], dst[2]), protocol, len>>
pseudo_header_checksum(src, dst, protocol, len, data) ==
  Complement(SumOf(PseudoHeader(src, dst, protocol, len) \o WordsOf(data)))
-----------------------------------------------------------------------------
(* Headers, and what of them varies.                                        *)
TCP == 2
UDP == 3
IpSize == 10
UdpSize == 8
TcpSize == 10

IpBytes(h) == ToBytes(h.total) \o <<0, h.protocol>> \o ToBytes(h.checksum) \o h.src \o h.dst
NewIp(src, dst, protocol, len) ==
  LET h == [total |-> IpSize + len, protocol |-> protocol, checksum |-> 0, src |-> src, dst |-> dst]
  IN  [h EXCEPT !.checksum = internet_checksum(IpBytes(h))]
IpFrom(d) == [total |-> Word(d[1], d[2]), protocol |-> d[4], checksum |-> Word(d[5], d[6]),
              src |-> <<d[7], d[8]>>, dst |-> <<d[9], d[10]>>]

UdpBytes(h) == ToBytes(h.src_port) \o ToBytes(h.dst_port) \o ToBytes(h.length) \o ToBytes(h.checksum)
UdpFrom(d) == [src_port |-> Word(d[1], d[2]), dst_port |-> Word(d[3], d[4]), length |-> Word(d[5], d[6]), checksum |-> Word(d[7], d[8])]

TcpBytes(h) == ToBytes(h.src_port) \o ToBytes(h.dst_port) \o ToBytes(h.seq) \o ToBytes(h.ack) \o ToBytes(h.checksum)
TcpFrom(d) == [src_port |-> Word(d[1], d[2]), dst_port |-> Word(d[3], d[4]), seq |-> Word(d[5], d[6]),
               ack |-> Word(d[7], d[8]), checksum |-> Word(d[9], d[10])]

(* build_udp_packet and build_tcp_packet write the header twice: without   *)
(* and with the checksum.                                                  *)
BuildUdp(m) ==
  LET len == UdpSize + Len(m.data)
      h   == [src_port |-> m.src_port, dst_port |-> m.dst_port, length |-> len, checksum |-> 0]
      sum == pseudo_header_checksum(m.src, m.dst, UDP, len, UdpBytes(h) \o m.data)
  IN  IpBytes(NewIp(m.src, m.dst, UDP, len)) \o UdpBytes([h EXCEPT !.checksum = sum]) \o m.data
BuildTcp(m) ==
  LET len == TcpSize + Len(m.data)
      h   == [src_port |-> m.src_port, dst_port |-> m.dst_port, seq |-> m.seq, ack |-> m.ack, checksum |-> 0]
      sum == pseudo_header_checksum(m.src, m.dst, TCP, len, TcpBytes(h) \o m.data)
  IN  IpBytes(NewIp(m.src, m.dst, TCP, len)) \o TcpBytes([h EXCEPT !.checksum = sum]) \o m.data

(* EthernetFrame::build and parse; ArpPacket inside, requests to everyone. *)
BROADCAST == <<Base - 1, Base - 1>>
EthBuild(dst, src, type, data) == dst \o src \o <<type>> \o data
EthParse(d) == [dst |-> <<d[1], d[2]>>, src |-> <<d[3], d[4]>>, type |-> d[5], data |-> SubSeq(d, 6, Len(d))]
ArpBytes(m) == <<m.op>> \o m.sender_mac \o m.sender_ip \o m.target_mac \o m.target_ip
ArpParse(d) == [kind |-> "arp", op |-> d[1], sender_mac |-> <<d[2], d[3]>>, sender_ip |-> <<d[4], d[5]>>,
                target_mac |-> <<d[6], d[7]>>, target_ip |-> <<d[8], d[9]>>]
ArpFrame(m) == EthBuild(IF m.op = 1 THEN BROADCAST ELSE m.target_mac, m.sender_mac, 2, ArpBytes(m))

(* encode_hostname: every label behind its length, and a zero at the end.  *)
EncodeHostname(labels) ==
  FlattenSeq([i \in DOMAIN labels |-> IF labels[i] = << >> THEN << >> ELSE <<Len(labels[i])>> \o labels[i]]) \o <<0>>
BuildQuery(m) == ToBytes(m.id) \o EncodeHostname(m.labels) \o <<1, 1>>
-----------------------------------------------------------------------------
Init == sent = [kind |-> "none"] /\ packet = << >> /\ spoiled = FALSE /\ padded = FALSE /\ count = 0

(* A network card fills short frames up with zeros. *)
Pad(bytes) == bytes \o [i \in 1 .. MinPayload - Len(bytes) |-> 0]

Send(m, bytes) ==
  /\ count < MaxMessages /\ count' = count + 1
  /\ sent' = m /\ spoiled' = FALSE
  /\ \/ padded' = FALSE /\ packet' = bytes
     \/ padded' = TRUE /\ Len(bytes) < MinPayload /\ packet' = Pad(bytes)

SendUdp ==
  \E src, dst \in Addresses, sp, dp \in Ports, data \in Payloads :
    LET m == [kind |-> "udp", src |-> src, dst |-> dst, src_port |-> sp, dst_port |-> dp, data |-> data]
    IN  Send(m, BuildUdp(m))
SendTcp ==
  \E src, dst \in Addresses, sp, seq \in Ports, data \in Payloads :
    LET m == [kind |-> "tcp", src |-> src, dst |-> dst, src_port |-> sp, dst_port |-> sp, seq |-> seq, ack |-> sp, data |-> data]
    IN  Send(m, BuildTcp(m))
SendArp ==
  \E op \in {1, 2}, a, b, c, d \in Addresses :
    LET m == [kind |-> "arp", op |-> op, sender_mac |-> a, sender_ip |-> b, target_mac |-> c, target_ip |-> d]
    IN  Send(m, ArpFrame(m))
SendQuery ==
  \E id \in Ports, labels \in UNION {[1 .. n -> Payloads] : n \in 0 .. 2} :
    LET m == [kind |-> "dns", id |-> id, labels |-> labels] IN Send(m, BuildQuery(m))

Spoil ==
  /\ ~spoiled /\ packet # << >>
  /\ \E i \in DOMAIN packet, b \in Bytes : b # packet[i] /\ packet' = [packet EXCEPT ![i] = b]
  /\ spoiled' = TRUE
  /\ UNCHANGED <<sent, padded, count>>

Next == SendUdp \/ SendTcp \/ SendArp \/ SendQuery \/ Spoil

Spec == Init /\ [][Next]_wire
-----------------------------------------------------------------------------
(* What a receiver that follows the standards finds in a packet.           *)
Ip == IpFrom(packet)
Segment(len) == SubSeq(packet, IpSize + 1, len)
(* RFC 1071: the words, the checksum among them, add up to zero in one's   *)
(* complement.                                                             *)
AddsUp(words) == SumOf(words) % (Modulus - 1) = 0
SegmentSound ==
  LET data == Segment(Ip.total) IN AddsUp(PseudoHeader(Ip.src, Ip.dst, Ip.protocol, Len(data)) \o WordsOf(data))
PacketSound ==
  /\ AddsUp(WordsOf(SubSeq(packet, 1, IpSize)))
  /\ Ip.total \in IpSize .. Len(packet) => SegmentSound

(* The labels of a query, starting at a position of the packet.            *)
LabelsFrom[i \in 1 .. 12] ==
  IF i > Len(packet) \/ packet[i] = 0 THEN << >>
  ELSE <<SubSeq(packet, i + 1, i + packet[i])>> \o LabelsFrom[i + packet[i] + 1]

(* Read back as this kernel reads it: a datagram by the length in its own   *)
(* header, a segment to the end of the packet.                              *)
ReadUdp ==
  LET d == Segment(Len(packet))
      h == UdpFrom(d)
  IN  [kind |-> "udp", src |-> Ip.src, dst |-> Ip.dst, src_port |-> h.src_port, dst_port |-> h.dst_port,
       data |-> SubSeq(d, UdpSize + 1, h.length)]
ReadTcp ==
  LET d == Segment(Len(packet))
      h == TcpFrom(d)
  IN  [kind |-> "tcp", src |-> Ip.src, dst |-> Ip.dst, src_port |-> h.src_port, dst_port |-> h.dst_port,
       seq |-> h.seq, ack |-> h.ack, data |-> SubSeq(d, TcpSize + 1, Len(d))]

(* Every message comes out of its packet as it went in (for TCP: where the  *)
(* link did not pad it), and both checksums of a packet agree with its      *)
(* contents, also where sums carry over and for data of odd length, so that *)
(* a standard receiver accepts all of them and refuses every packet of      *)
(* which one byte has changed (this kernel checks none on receipt).         *)
WireFaithful ==
  /\ ~spoiled /\ sent.kind \in {"udp", "tcp"} => PacketSound
  /\ sent.kind \in {"udp", "tcp"} =>
       LET header == SubSeq(packet, 1, IpSize) IN verify_checksum(header) = AddsUp(WordsOf(header))
  /\ ~spoiled /\ sent.kind = "udp" => ReadUdp = sent
  /\ ~spoiled /\ ~padded /\ sent.kind = "tcp" => ReadTcp = sent
  /\ ~spoiled /\ sent.kind = "arp" => ArpParse(EthParse(packet).data) = sent
  /\ ~spoiled /\ sent.kind = "dns" => LabelsFrom[3] = SelectSeq(sent.labels, LAMBDA l : l # << >>)
  /\ spoiled /\ ~padded /\ sent.kind \in {"udp", "tcp"} => ~PacketSound

=============================================================================
