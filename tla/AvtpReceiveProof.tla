-------------------------- MODULE AvtpReceiveProof --------------------------
(***************************************************************************)
(* Proofs about AvtpReceive for every link, payload, foreign header,       *)
(* message header of others, and every way to cut or pad a PDU.            *)
(*                                                                         *)
(* The invariant says of a PDU made here how its octets relate to what its *)
(* headers declare: Made for the stream header, Packing while messages are *)
(* added, Chain for where the messages lie, and Walking for how far the    *)
(* loop of avtp_to_can has come along that chain.                          *)
(***************************************************************************)
EXTENDS AvtpReceive, SequenceTheorems, TLAPS

\* The types of what TypeOK leaves open.
Lists ==
    /\ msgs \in Seq(MessageHeader) /\ at \in Seq(Nat) /\ Len(at) = Len(msgs)
    /\ Len(msgs) <= MaxFrames /\ out \in Seq(Nat)
    /\ ~own => msgs = <<>>

Types == TypeOK /\ IsStreamHeader(pdu) /\ upto \in Nat /\ Lists

\* An idle sender has nothing in its buffers, and only avtp_to_can walks.
Stages ==
    /\ pc = "idle" => ~own /\ size = 0 /\ upto = 0 /\ out = <<>>
    /\ pc \in {"pack", "sent", "received"} => upto = 0 /\ out = <<>>
    /\ pc = "walk" => reader = "avtp_to_can" /\ size >= Udp + 2

\* A header as Avtp_X_Init leaves it but for the length.
Fresh(hd, g) ==
    /\ hd.sub = Format[g].sub /\ hd.ver \in {0, 1} /\ hd.mine
    /\ hd.format = 4 /\ hd.channels = 1 /\ hd.depth = 16

\* The octets behind the header of format g.
Behind(g) == sent - Udp - HeaderLen(g, pdu)

Packing ==
    pc = "pack" =>
        /\ own
        /\ \E g \in ControlFormats :
              /\ Fresh(pdu, g)
              /\ 0 <= Behind(g) /\ Behind(g) <= LongestMessage * Len(msgs)
              /\ msgs # <<>> => at[1] = Udp + HeaderLen(g, pdu)
              /\ msgs = <<>> => Behind(g) = 0

\* The data length of a PDU made here is that of its data as far as the field
\* can tell; of CAN PDUs it is.
Made ==
    own /\ pc \in {"sent", "received", "walk", "done"} =>
        \E g \in DOMAIN Format :
            /\ Fresh(pdu, g) /\ Behind(g) >= 0
            /\ pdu.len = (Behind(g) % 65536) % Format[g].cap
            /\ msgs # <<>> => /\ g \in ControlFormats /\ Behind(g) < NtscfLengths
                              /\ at[1] = Udp + HeaderLen(g, pdu)

\* A message as prepare_acf_packet makes it on link l.
IsMade(l, m) ==
    /\ m.type = l.api.type /\ m.fdf = l.fd /\ ~m.big
    /\ \E n \in l.lengths :
          /\ m.len = Acf!QuadletsOf(l.api.hdr, n) /\ m.pad = Acf!PadOf(l.api.hdr, n)

\* Where message k ends, in a PDU of s octets with messages at a.
EndOf(a, s, k) == IF k < Len(a) THEN a[k + 1] ELSE s

\* Messages ms at a lie one behind the other, the last one ends the s octets.
Linked(l, ms, a, s) ==
    \A k \in 1 .. Len(a) :
        /\ IsMade(l, ms[k])
        /\ a[k] + Acf!AcfMsgLengthInBytes(ms[k]) = EndOf(a, s, k)
        /\ a[k] < s
        /\ \A j \in 1 .. Len(a) : j < k => a[j] < a[k]

Chain == Linked(link, msgs, at, sent)

\* The frames are those of the first messages.
Found == \A i \in 1 .. Len(out) : out[i] = Acf!GetPayloadLength(link.api, msgs[i])

\* In a PDU made here the loop stands at the end of the last message it found.
Walking ==
    pc = "walk" /\ msgs # <<>> =>
        /\ size >= sent /\ msg_length = sent /\ Len(out) <= Len(msgs) /\ Found
        /\ proc_bytes = EndOf(at, sent, Len(out))

\* What avtp_to_can returned of one.
Returned ==
    pc = "done" /\ msgs # <<>> /\ reader = "avtp_to_can" =>
        IF size < sent THEN result = -1
        ELSE result = Len(msgs) /\ Len(out) = Len(msgs) /\ Found

Inv ==
    /\ Types /\ Stages /\ ReadsReceivedOnly /\ Packing /\ Made /\ Chain /\ Walking /\ Returned
    /\ AcceptedIffWhole

---------------------------------------------------------------------------
(* The stream formats *)

\* The formats by name.
LEMMA FormatNames ==
    DOMAIN Format = {"Tscf", "Ntscf", "Aaf", "Pcm", "Cvf", "Rvf", "Crf"}
BY DEF Format

\* The entry of a format.
Entry(f, sub, hdr0, hdr1, cap, least, unit) ==
    /\ Format[f].sub = sub /\ Format[f].hdr = <<hdr0, hdr1>>
    /\ Format[f].cap = cap /\ Format[f].least = least /\ Format[f].unit = unit

\* Their entries, one by one.
LEMMA FormatEntries ==
    /\ Entry("Tscf", "TSCF", 24, 40, 65536, 0, 1)
    /\ Entry("Ntscf", "NTSCF", 12, 28, 2048, 0, 1)
    /\ Entry("Aaf", "AAF", 24, 40, 65536, 0, 1)
    /\ Entry("Pcm", "AAF", 24, 40, 65536, 0, 1)
    /\ Entry("Cvf", "CVF", 24, 40, 65536, 0, 1)
    /\ Entry("Rvf", "RVF", 24, 40, 65536, 8, 1)
    /\ Entry("Crf", "CRF", 20, 36, 65536, 1, 8)
<1>1. Rvf = [sub |-> "RVF", hdr |-> <<24, 40>>, cap |-> 65536, least |-> 8, unit |-> 1]
  BY DEF Rvf, Common
<1> QED
  BY <1>1 DEF Entry, Format, Tscf, Ntscf, Aaf, Pcm, Cvf, Crf, Common, NtscfLengths

\* What all of them have in common.
LEMMA FormatFacts ==
    ASSUME NEW f \in DOMAIN Format
    PROVE  /\ Format[f].hdr[1] \in {12, 20, 24} /\ Format[f].hdr[2] \in {28, 36, 40}
           /\ Format[f].cap \in {2048, 65536} /\ Format[f].least \in Nat
           /\ Format[f].unit \in Nat \ {0} /\ Format[f].sub \in Subtypes
<1>1. CASE f = "Tscf"   BY <1>1, FormatEntries DEF Entry, Subtypes
<1>2. CASE f = "Ntscf"  BY <1>2, FormatEntries DEF Entry, Subtypes
<1>3. CASE f = "Aaf"    BY <1>3, FormatEntries DEF Entry, Subtypes
<1>4. CASE f = "Pcm"    BY <1>4, FormatEntries DEF Entry, Subtypes
<1>5. CASE f = "Cvf"    BY <1>5, FormatEntries DEF Entry, Subtypes
<1>6. CASE f = "Rvf"    BY <1>6, FormatEntries DEF Entry, Subtypes
<1>7. CASE f = "Crf"    BY <1>7, FormatEntries DEF Entry, Subtypes
<1> QED  BY <1>1, <1>2, <1>3, <1>4, <1>5, <1>6, <1>7, FormatNames

\* Formats with the same subtype have the same header and length field.
LEMMA SameSubtype ==
    ASSUME NEW f \in DOMAIN Format, NEW g \in DOMAIN Format, Format[f].sub = Format[g].sub
    PROVE  /\ Format[f].hdr = Format[g].hdr /\ Format[f].cap = Format[g].cap
           /\ g \in ControlFormats => f = g
BY FormatNames, FormatEntries DEF ControlFormats, Entry

\* The control formats are formats.
LEMMA ControlFacts ==
    ControlFormats \subseteq DOMAIN Format
BY FormatNames DEF ControlFormats

\* A header has at least 12 and at most 40 octets.
LEMMA HeaderLenFacts ==
    ASSUME NEW f \in DOMAIN Format, NEW hd
    PROVE  HeaderLen(f, hd) \in Nat /\ 12 <= HeaderLen(f, hd) /\ HeaderLen(f, hd) <= 40
<1>1. HeaderLen(f, hd) \in {12, 20, 24, 28, 36, 40}  BY FormatFacts DEF HeaderLen
<1> QED  BY <1>1

---------------------------------------------------------------------------
(* The messages *)

\* A link as the assumption has it.
LEMMA LinkFacts ==
    ASSUME link \in Links
    PROVE  /\ link.api \in CanApi /\ link.udp \in BOOLEAN /\ link.fd \in BOOLEAN
           /\ \A n \in link.lengths : n \in Nat /\ n <= 64 /\ n <= (IF link.fd THEN 64 ELSE 8)
           /\ link.messages \subseteq MessageHeader
           /\ link.api.hdr \in {8, 16} /\ link.api.hdr \in Nat /\ link.api.type \in Below(128)
           /\ link.api.kind = "padded" /\ link.api.ret = 256
           /\ link.api.max = 8 /\ link.api.maxFd = 64
           /\ Udp \in {0, 4}
<1>1. link.api \in CanApi /\ link.udp \in BOOLEAN  BY ReceiveConstants DEF ReceiveConstants
<1>2. Udp \in {0, 4}  BY <1>1 DEF Udp
<1>3. /\ link.fd \in BOOLEAN /\ link.messages \subseteq MessageHeader
      /\ link.lengths \subseteq 0 .. (IF link.fd THEN link.api.maxFd ELSE link.api.max)
  BY ReceiveConstants DEF ReceiveConstants
<1>4. /\ link.api.hdr \in {8, 16} /\ link.api.type \in Below(128)
      /\ link.api.kind = "padded" /\ link.api.ret = 256
      /\ link.api.max = 8 /\ link.api.maxFd = 64
  BY <1>1 DEF CanApi
<1>5. \A n \in link.lengths : n \in Nat /\ n <= 64 /\ n <= (IF link.fd THEN 64 ELSE 8)
  BY <1>3, <1>4
<1>6. link.api.hdr \in Nat  BY <1>4
<1> QED  BY <1>1, <1>2, <1>3, <1>4, <1>5, <1>6

\* The length and padding of a message for a CAN payload.
LEMMA QuadletFacts ==
    ASSUME NEW hdr \in {8, 16}, NEW n \in Nat, n <= 64
    PROVE  /\ Acf!PadOf(hdr, n) \in Nat /\ Acf!PadOf(hdr, n) < 4
           /\ Acf!QuadletsOf(hdr, n) \in Nat /\ Acf!QuadletsOf(hdr, n) < 512
           /\ 4 * Acf!QuadletsOf(hdr, n) = hdr + n + Acf!PadOf(hdr, n)
           /\ hdr + n + Acf!PadOf(hdr, n) <= LongestMessage
BY DEF Acf!PadOf, Acf!QuadletsOf, LongestMessage

\* What prepare_acf_packet writes.
LEMMA HeaderMade ==
    ASSUME link \in Links, NEW n \in link.lengths
    PROVE  /\ AcfHeader(n) \in MessageHeader /\ IsMade(link, AcfHeader(n))
<1>1. n \in Nat /\ n <= 64  BY LinkFacts
<1>2. AcfHeader(n) = [type |-> link.api.type, len |-> Acf!QuadletsOf(link.api.hdr, n),
                      pad |-> Acf!PadOf(link.api.hdr, n), fdf |-> link.fd,
                      num |-> 0, sz |-> 0, big |-> FALSE]
  BY LinkFacts DEF AcfHeader, Acf!SetPayloadLength
<1>3. AcfHeader(n) \in MessageHeader
  <2>1. link.api.hdr \in {8, 16} /\ link.api.type \in Below(128) /\ link.fd \in BOOLEAN
    BY LinkFacts
  <2>2. /\ Acf!QuadletsOf(link.api.hdr, n) \in Below(512) /\ Acf!PadOf(link.api.hdr, n) \in Below(4)
        /\ 0 \in Below(128) /\ 0 \in Below(4)
    BY <1>1, <2>1, QuadletFacts DEF Below
  <2> QED  BY <1>2, <2>1, <2>2 DEF MessageHeader
<1> QED  BY <1>1, <1>2, <1>3 DEF IsMade

\* The fields of a message header.
LEMMA MessageFields ==
    ASSUME NEW m \in MessageHeader
    PROVE  /\ m.len \in Nat /\ m.len < 512 /\ m.pad \in Nat /\ m.pad < 4
           /\ m.type \in Nat /\ m.fdf \in BOOLEAN /\ m.big \in BOOLEAN
           /\ Acf!AcfMsgLengthInBytes(m) = 4 * m.len
<1>1. /\ m.len \in Below(512) /\ m.pad \in Below(4) /\ m.type \in Below(128)
      /\ m.fdf \in BOOLEAN /\ m.big \in BOOLEAN
  BY DEF MessageHeader
<1> QED  BY <1>1 DEF Below, Acf!AcfMsgLengthInBytes

\* What Avtp_Can_IsValid accepts lies in the rest of the PDU.
LEMMA MessageInside ==
    ASSUME link \in Links, NEW m \in MessageHeader, NEW rest \in Int,
           Acf!IsValid(link.api, m, rest)
    PROVE  /\ Acf!GetPayloadLength(link.api, m) \in Nat
           /\ link.api.hdr + Acf!GetPayloadLength(link.api, m) <= 4 * m.len
           /\ 4 * m.len <= rest
<1>1. /\ 4 * m.len <= rest
      /\ 4 * m.len >= link.api.hdr + m.pad
  BY LinkFacts, MessageFields DEF Acf!IsValid, Acf!LengthsConsistent
<1>2. Acf!GetPayloadLength(link.api, m) = (4 * m.len - link.api.hdr - m.pad) % 256
  BY LinkFacts, MessageFields DEF Acf!GetPayloadLength
<1>3. ASSUME NEW x \in Nat PROVE x % 256 \in Nat /\ x % 256 <= x
  OBVIOUS
<1>4. link.api.hdr \in Nat /\ m.len \in Nat /\ m.pad \in Nat
  BY LinkFacts, MessageFields
<1>5. 4 * m.len - link.api.hdr - m.pad \in Nat  BY <1>1, <1>4
<1>6. Acf!GetPayloadLength(link.api, m) \in Nat
  BY <1>2, <1>3, <1>5
<1>7. Acf!GetPayloadLength(link.api, m) <= 4 * m.len - link.api.hdr - m.pad
  BY <1>2, <1>3, <1>5
<1> QED  BY <1>1, <1>4, <1>6, <1>7

\* A message made here is accepted wherever all of it is there, and its payload
\* length is read back.
LEMMA MadeFacts ==
    ASSUME link \in Links, NEW m \in MessageHeader, IsMade(link, m)
    PROVE  /\ Acf!AcfMsgLengthInBytes(m) \in Nat /\ 8 <= Acf!AcfMsgLengthInBytes(m)
           /\ Acf!AcfMsgLengthInBytes(m) <= LongestMessage
           /\ \A rest \in Int :
                 rest >= Acf!AcfMsgLengthInBytes(m) => Acf!IsValid(link.api, m, rest)
           /\ Acf!SetPayloadLength(link.api, m, Acf!GetPayloadLength(link.api, m)) = m
<1>1. PICK n \in link.lengths : /\ m.len = Acf!QuadletsOf(link.api.hdr, n)
                                /\ m.pad = Acf!PadOf(link.api.hdr, n)
  BY DEF IsMade
<1>2. n \in Nat /\ n <= 64 /\ n <= (IF link.fd THEN 64 ELSE 8)  BY LinkFacts
<1>3. 4 * m.len = link.api.hdr + n + m.pad /\ 4 * m.len <= LongestMessage
  <2>1. link.api.hdr \in {8, 16}  BY LinkFacts
  <2>2. /\ 4 * Acf!QuadletsOf(link.api.hdr, n)
              = link.api.hdr + n + Acf!PadOf(link.api.hdr, n)
        /\ link.api.hdr + n + Acf!PadOf(link.api.hdr, n) <= LongestMessage
    BY ZenonT(60), <1>2, <2>1, QuadletFacts
  <2> QED  BY <1>1, <2>2
<1>0. link.api.hdr \in Nat /\ link.api.hdr >= 8 /\ m.len \in Nat /\ m.pad \in Nat
  BY LinkFacts, MessageFields
<1>4. /\ Acf!AcfMsgLengthInBytes(m) \in Nat /\ 8 <= Acf!AcfMsgLengthInBytes(m)
      /\ Acf!AcfMsgLengthInBytes(m) <= LongestMessage
  BY <1>2, <1>3, <1>0, MessageFields
<1>5. ASSUME NEW rest \in Int, rest >= Acf!AcfMsgLengthInBytes(m)
      PROVE  Acf!IsValid(link.api, m, rest)
  <2>0. 4 * m.len <= rest /\ m.type = link.api.type  BY <1>5, MessageFields DEF IsMade
  <2>1. rest >= link.api.hdr  BY <2>0, <1>2, <1>3, <1>5, <1>0
  <2>2. /\ 4 * m.len >= link.api.hdr + m.pad
        /\ 4 * m.len - link.api.hdr - m.pad = n
    BY <1>2, <1>3, <1>0
  <2>3. n <= (IF m.fdf THEN link.api.maxFd ELSE link.api.max)
    BY <1>2, LinkFacts DEF IsMade
  <2>4. Acf!LengthsConsistent(link.api, m)
    BY <2>2, <2>3, LinkFacts, MessageFields DEF Acf!LengthsConsistent
  <2> QED  BY <2>0, <2>1, <2>4, MessageFields DEF Acf!IsValid
<1>6. Acf!GetPayloadLength(link.api, m) = n
  <2>1. Acf!GetPayloadLength(link.api, m) = (4 * m.len - link.api.hdr - m.pad) % 256
    BY LinkFacts, MessageFields DEF Acf!GetPayloadLength
  <2>2. 4 * m.len - link.api.hdr - m.pad = n  BY <1>2, <1>3, <1>0
  <2> QED  BY <1>2, <2>1, <2>2
<1>7. Acf!SetPayloadLength(link.api, m, n) = m
  <2>1. Acf!SetPayloadLength(link.api, m, n) = [m EXCEPT !.len = m.len, !.pad = m.pad]
    BY <1>1, LinkFacts DEF Acf!SetPayloadLength
  <2>2. [m EXCEPT !.len = m.len, !.pad = m.pad] = m  BY DEF MessageHeader
  <2> QED  BY <2>1, <2>2
<1> QED  BY <1>4, <1>5, <1>6, <1>7

---------------------------------------------------------------------------
(* The steps of a sender *)

\* A header with a given data length.
LEMMA RecordFacts ==
    ASSUME NEW g \in DOMAIN Format, NEW v \in {0, 1}, NEW x \in U16, NEW hd,
           hd = [sub |-> Format[g].sub, ver |-> v, len |-> x,
                 format |-> 4, channels |-> 1, depth |-> 16, mine |-> TRUE]
    PROVE  IsStreamHeader(hd) /\ Fresh(hd, g) /\ hd.len = x /\ hd.ver = v
<1>1. Format[g].sub \in Subtypes /\ v \in Below(8)  BY FormatFacts DEF Below
<1> QED  BY <1>1 DEF IsStreamHeader, Fresh

\* A header of Avtp_X_Init.
LEMMA HeaderFacts ==
    ASSUME NEW g \in DOMAIN Format, NEW v \in {0, 1}, NEW octets \in Nat
    PROVE  /\ IsStreamHeader(Header(g, v, octets)) /\ Fresh(Header(g, v, octets), g)
           /\ Header(g, v, octets).len = (octets % 65536) % Format[g].cap
           /\ Header(g, v, octets).ver = v
<1>1. ASSUME NEW x \in Nat PROVE x % 2048 \in U16 /\ x % 65536 \in U16
  BY DEF U16, Below
<1>2. octets % 65536 \in Nat  OBVIOUS
<1>3. PICK x \in U16 : x = (octets % 65536) % Format[g].cap
  <2> DEFINE y == octets % 65536
  <2>1. y % 2048 \in U16 /\ y % 65536 \in U16  BY <1>1, <1>2
  <2> HIDE DEF y
  <2>2. y % Format[g].cap \in U16  BY <2>1, FormatFacts
  <2> QED  BY <2>2 DEF y
<1>4. Header(g, v, octets) = [sub |-> Format[g].sub, ver |-> v, len |-> x,
                              format |-> 4, channels |-> 1, depth |-> 16, mine |-> TRUE]
  BY <1>3 DEF Header
<1>5. /\ IsStreamHeader(Header(g, v, octets)) /\ Fresh(Header(g, v, octets), g)
      /\ Header(g, v, octets).len = x /\ Header(g, v, octets).ver = v
  BY <1>4, RecordFacts
<1> QED  BY <1>3, <1>5

\* The offset of the control header stays what it is.
LEMMA UdpFacts ==
    ASSUME link \in Links
    PROVE  Udp \in {0, 4} /\ (link' = link => Udp' = Udp)
<1>1. Udp \in {0, 4}  BY LinkFacts
<1>2. link' = link => Udp' = Udp  BY DEF Udp
<1> QED  BY <1>1, <1>2

\* The initial state.
LEMMA InitInv ==
    ASSUME Init
    PROVE  Inv
<1>1. IsStreamHeader(Blank)  BY DEF Blank, IsStreamHeader, Subtypes, Below, U16
<1>2. Lists  BY ReceiveConstants DEF Init, Lists, ReceiveConstants
<1>3. TypeOK
  <2>1. MaxFrames \in Nat /\ MaxPdu \in Nat  BY ReceiveConstants DEF ReceiveConstants
  <2>2. 0 \in U16 /\ 0 \in 0 .. MaxPdu /\ 0 \in -1 .. (MaxFrames + 1) /\ Len(<<>>) <= MaxFrames
    BY <2>1 DEF U16, Below
  <2> QED  BY <2>2 DEF Init, TypeOK
<1>4. Types  BY <1>1, <1>2, <1>3 DEF Types, Init
<1>5. Len(at) = 0  BY DEF Init
<1> QED
  BY <1>4, <1>5 DEF Init, Inv, Stages, ReadsReceivedOnly, Packing, Made, Chain, Linked, Walking, Returned,
     AcceptedIffWhole

\* A media talker makes a PDU.
LEMMA CreateInv ==
    ASSUME Inv, NEW f \in DOMAIN Format, NEW v \in {0, 1}, NEW k \in Payloads,
           ~link.udp, Create(f, v, k)
    PROVE  Inv'
<1> DEFINE hd == Header(f, v, k)
<1>1. /\ pc = "idle" /\ pdu' = hd /\ own' = TRUE /\ sent' = HeaderLen(f, hd) + k
      /\ pc' = "sent"
      /\ UNCHANGED <<link, msgs, at, size, proc_bytes, msg_length, upto, out, reader, result>>
  BY DEF Create
<1>2. k \in Nat  BY ReceiveConstants DEF ReceiveConstants
<1>3. Udp = 0 /\ Udp' = 0  BY <1>1 DEF Udp
<1>4. IsStreamHeader(hd) /\ Fresh(hd, f) /\ hd.len = (k % 65536) % Format[f].cap
  BY <1>2, HeaderFacts
<1>5. HeaderLen(f, hd) \in Nat  BY HeaderLenFacts
<1> HIDE DEF hd
<1>6. Types /\ Stages /\ Lists /\ TypeOK  BY DEF Inv, Types
<1>7. msgs = <<>> /\ Len(at) = 0  BY <1>1, <1>6 DEF Stages, Lists
<1>8. TypeOK'
  <2>1. sent' \in Nat  BY <1>1, <1>2, <1>5
  <2> QED  BY <1>1, <1>6, <2>1 DEF TypeOK
<1>9. Lists'  BY <1>1, <1>6 DEF Lists
<1>10. Types'  BY <1>1, <1>4, <1>6, <1>8, <1>9 DEF Types
<1>11. Behind(f)' = k  BY <1>1, <1>2, <1>3, <1>5 DEF Behind
<1>12. Made'  BY <1>1, <1>2, <1>4, <1>7, <1>11 DEF Made
<1>13. Stages' /\ ReadsReceivedOnly'
  BY <1>1, <1>6 DEF Inv, Stages, ReadsReceivedOnly
<1> QED
  BY <1>1, <1>7, <1>10, <1>12, <1>13 DEF Inv, Packing, Chain, Linked, Walking, Returned, AcceptedIffWhole

\* can_to_avtp begins a PDU.
LEMMA BeginInv ==
    ASSUME Inv, NEW f \in ControlFormats, NEW v \in {0, 1}, can_to_avtp(f, v)
    PROVE  Inv'
<1> DEFINE hd == Header(f, v, 0)
<1>1. /\ pc = "idle" /\ pdu' = hd /\ own' = TRUE /\ sent' = Udp + HeaderLen(f, hd)
      /\ pc' = "pack"
      /\ UNCHANGED <<link, msgs, at, size, proc_bytes, msg_length, upto, out, reader, result>>
  BY DEF can_to_avtp
<1>2. f \in DOMAIN Format  BY ControlFacts
<1>3. IsStreamHeader(hd) /\ Fresh(hd, f)  BY <1>2, HeaderFacts
<1>4. HeaderLen(f, hd) \in Nat  BY <1>2, HeaderLenFacts
<1> HIDE DEF hd
<1>5. Types /\ Stages /\ Lists /\ TypeOK  BY DEF Inv, Types
<1>6. msgs = <<>> /\ Len(at) = 0 /\ Len(msgs) = 0  BY <1>1, <1>5 DEF Stages, Lists
<1>7. link \in Links  BY <1>5 DEF TypeOK
<1>8. Udp \in {0, 4} /\ Udp' = Udp  BY <1>1, <1>7, UdpFacts
<1>9. TypeOK'
  <2>1. sent' \in Nat  BY <1>1, <1>4, <1>8
  <2> QED  BY <1>1, <1>5, <2>1 DEF TypeOK
<1>10. Lists'  BY <1>1, <1>5 DEF Lists
<1>11. Types'  BY <1>1, <1>3, <1>5, <1>9, <1>10 DEF Types
<1>12. Behind(f)' = 0  BY <1>1, <1>4, <1>8 DEF Behind
<1>13. Packing'
  <2>1. LongestMessage * Len(msgs) = 0  BY <1>6 DEF LongestMessage
  <2> QED  BY <1>1, <1>3, <1>6, <1>12, <2>1 DEF Packing
<1>14. Stages' /\ ReadsReceivedOnly'
  BY <1>1, <1>5 DEF Inv, Stages, ReadsReceivedOnly
<1> QED
  BY <1>1, <1>6, <1>11, <1>13, <1>14 DEF Inv, Made, Chain, Linked, Walking, Returned, AcceptedIffWhole

\* Someone else sends a PDU.
LEMMA ForgeInv ==
    ASSUME Inv, NEW hd \in Foreign, NEW k \in Payloads, Forge(hd, k)
    PROVE  Inv'
<1>1. /\ pc = "idle" /\ pdu' = hd /\ sent' = k /\ pc' = "sent"
      /\ UNCHANGED <<link, own, msgs, at, size, proc_bytes, msg_length, upto, out, reader, result>>
  BY DEF Forge
<1>2. k \in Nat /\ IsStreamHeader(hd)  BY ReceiveConstants DEF ReceiveConstants
<1>3. Types /\ Stages /\ Lists /\ TypeOK  BY DEF Inv, Types
<1>4. ~own /\ msgs = <<>> /\ Len(at) = 0  BY <1>1, <1>3 DEF Stages, Lists
<1>5. TypeOK'  BY <1>1, <1>2, <1>3 DEF TypeOK
<1>6. Lists'  BY <1>1, <1>3 DEF Lists
<1>7. Types'  BY <1>1, <1>2, <1>3, <1>5, <1>6 DEF Types
<1>8. Stages' /\ ReadsReceivedOnly'
  BY <1>1, <1>3 DEF Inv, Stages, ReadsReceivedOnly
<1> QED
  BY <1>1, <1>4, <1>7, <1>8 DEF Inv, Packing, Made, Chain, Linked, Walking, Returned, AcceptedIffWhole

\* No overflow of pdu_length: what a PDU under construction has at most.
LEMMA PackRoom ==
    ASSUME Inv, pc = "pack"
    PROVE  \E g \in ControlFormats :
              /\ g \in DOMAIN Format /\ Fresh(pdu, g) /\ Behind(g) \in Nat
              /\ Behind(g) <= LongestMessage * Len(msgs)
              /\ msgs # <<>> => at[1] = Udp + HeaderLen(g, pdu)
              /\ msgs = <<>> => Behind(g) = 0
              /\ sent = Udp + HeaderLen(g, pdu) + Behind(g)
              /\ sent <= 44 + LongestMessage * Len(msgs)
<1>1. PICK g \in ControlFormats :
        /\ Fresh(pdu, g)
        /\ 0 <= Behind(g) /\ Behind(g) <= LongestMessage * Len(msgs)
        /\ msgs # <<>> => at[1] = Udp + HeaderLen(g, pdu)
        /\ msgs = <<>> => Behind(g) = 0
  BY DEF Inv, Packing
<1>2. g \in DOMAIN Format  BY ControlFacts
<1>3. link \in Links /\ sent \in Nat  BY DEF Inv, Types, TypeOK
<1>4. Udp \in {0, 4}  BY <1>3, UdpFacts
<1>5. HeaderLen(g, pdu) \in Nat /\ HeaderLen(g, pdu) <= 40  BY <1>2, HeaderLenFacts
<1>6. Behind(g) \in Nat /\ sent = Udp + HeaderLen(g, pdu) + Behind(g)
  BY <1>1, <1>3, <1>4, <1>5 DEF Behind
<1>7. Len(msgs) \in Nat  BY DEF Inv, Types, Lists
<1>8. sent <= 44 + LongestMessage * Len(msgs)
  BY <1>1, <1>4, <1>5, <1>6, <1>7 DEF LongestMessage
<1> QED  BY <1>1, <1>2, <1>6, <1>8

\* can_to_avtp adds a message.
LEMMA PackInv ==
    ASSUME Inv, NEW octets \in link.lengths, prepare_acf_packet(octets)
    PROVE  Inv'
<1> DEFINE m == AcfHeader(octets)
           bytes == Acf!AcfMsgLengthInBytes(m)
<1>1. /\ pc = "pack" /\ Len(msgs) < MaxFrames
      /\ msgs' = Append(msgs, m) /\ at' = Append(at, sent)
      /\ sent' = (sent + bytes) % 65536
      /\ UNCHANGED <<link, pdu, own, pc, size, proc_bytes, msg_length, upto, out, reader, result>>
  BY DEF prepare_acf_packet
<1>2. Types /\ Stages /\ Lists /\ TypeOK /\ Chain /\ own  BY <1>1 DEF Inv, Types, Packing
<1>3. link \in Links /\ sent \in Nat  BY <1>2 DEF TypeOK
<1>4. m \in MessageHeader /\ IsMade(link, m)  BY <1>3, HeaderMade
<1>5. bytes \in Nat /\ 8 <= bytes /\ bytes <= LongestMessage  BY <1>3, <1>4, MadeFacts
<1> HIDE DEF m, bytes
<1>6. PICK g \in ControlFormats :
        /\ g \in DOMAIN Format /\ Fresh(pdu, g) /\ Behind(g) \in Nat
        /\ Behind(g) <= LongestMessage * Len(msgs)
        /\ msgs # <<>> => at[1] = Udp + HeaderLen(g, pdu)
        /\ msgs = <<>> => Behind(g) = 0
        /\ sent = Udp + HeaderLen(g, pdu) + Behind(g)
        /\ sent <= 44 + LongestMessage * Len(msgs)
  BY <1>1, PackRoom
<1>7. /\ Len(msgs) \in Nat /\ Len(at) = Len(msgs) /\ MaxFrames \in Nat
      /\ LongestMessage * MaxFrames < NtscfLengths
  BY <1>2, ReceiveConstants DEF Lists, ReceiveConstants
<1>8. sent' = sent + bytes
  <2>1. sent + bytes < 65536
    BY <1>1, <1>3, <1>5, <1>6, <1>7 DEF LongestMessage, NtscfLengths
  <2>2. \A x \in Nat : x < 65536 => x % 65536 = x  OBVIOUS
  <2> QED  BY <1>1, <1>3, <1>5, <2>1, <2>2
<1>9. /\ Len(msgs') = Len(msgs) + 1 /\ Len(at') = Len(at) + 1
      /\ \A k \in 1 .. Len(at) : at'[k] = at[k] /\ msgs'[k] = msgs[k]
      /\ at'[Len(at) + 1] = sent /\ msgs'[Len(at) + 1] = m
      /\ msgs' # <<>> /\ msgs' \in Seq(MessageHeader) /\ at' \in Seq(Nat)
  <2>1. msgs \in Seq(MessageHeader) /\ at \in Seq(Nat)  BY <1>2 DEF Lists
  <2> QED  BY <1>1, <1>3, <1>4, <1>7, <2>1
<1>10. Lists'  BY <1>1, <1>2, <1>7, <1>9 DEF Lists
<1>11. TypeOK'
  <2>1. sent' \in Nat  BY <1>3, <1>5, <1>8
  <2> QED  BY <1>1, <1>2, <2>1 DEF TypeOK
<1>12. Types'  BY <1>1, <1>2, <1>10, <1>11 DEF Types
<1>13. Packing'
  <2>1. Udp \in {0, 4} /\ Udp' = Udp  BY <1>1, <1>3, UdpFacts
  <2>2. HeaderLen(g, pdu) \in Nat  BY <1>6, HeaderLenFacts
  <2>3. Behind(g)' = Behind(g) + bytes
    <3>1. Behind(g)' = sent' - Udp - HeaderLen(g, pdu)  BY <1>1, <2>1 DEF Behind
    <3>2. Behind(g) \in Nat /\ sent = Udp + HeaderLen(g, pdu) + Behind(g)  BY <1>6
    <3> QED  BY <1>3, <1>5, <1>8, <2>1, <2>2, <3>1, <3>2
  <2>4. /\ 0 <= Behind(g)'
        /\ Behind(g)' <= LongestMessage * Len(msgs')
    BY <1>5, <1>6, <1>7, <1>9, <2>3 DEF LongestMessage
  <2>5. at'[1] = Udp' + HeaderLen(g, pdu')
    <3>1. CASE msgs = <<>>
      <4>1. Len(at) = 0  BY <3>1, <1>7
      <4> QED  BY <1>1, <1>6, <1>9, <2>1, <2>2, <3>1, <4>1
    <3>2. CASE msgs # <<>>
      <4>1. Len(at) >= 1  BY <3>2, <1>7, <1>2 DEF Lists
      <4> QED  BY <1>1, <1>6, <1>7, <1>9, <2>1, <3>2, <4>1
    <3> QED  BY <3>1, <3>2
  <2> QED  BY <1>1, <1>2, <1>6, <1>9, <2>4, <2>5 DEF Packing
<1>14. Chain'
  <2> DEFINE Good(k) ==
               /\ IsMade(link, msgs'[k])
               /\ at'[k] + Acf!AcfMsgLengthInBytes(msgs'[k]) = EndOf(at', sent', k)
               /\ at'[k] < sent'
               /\ \A j \in 1 .. Len(at') : j < k => at'[j] < at'[k]
  <2>1. Linked(link, msgs, at, sent)  BY <1>2 DEF Chain
  <2>2. ASSUME NEW k \in 1 .. Len(at) PROVE Good(k)
    <3>1. /\ IsMade(link, msgs[k])
          /\ at[k] + Acf!AcfMsgLengthInBytes(msgs[k]) = EndOf(at, sent, k)
          /\ at[k] < sent
          /\ \A j \in 1 .. Len(at) : j < k => at[j] < at[k]
      BY <2>1 DEF Linked
    <3>2. EndOf(at', sent', k) = EndOf(at, sent, k)
      BY <1>7, <1>9 DEF EndOf
    <3>3. at[k] \in Nat /\ at'[k] = at[k] /\ msgs'[k] = msgs[k]  BY <1>2, <1>7, <1>9 DEF Lists
    <3>4. IsMade(link, msgs'[k]) /\ at'[k] + Acf!AcfMsgLengthInBytes(msgs'[k]) = EndOf(at', sent', k)
      BY <3>1, <3>2, <3>3
    <3>5. at'[k] < sent'  BY <1>3, <1>5, <1>8, <3>1, <3>3
    <3>6. ASSUME NEW j \in 1 .. Len(at'), j < k PROVE at'[j] < at'[k]
      <4>1. j \in 1 .. Len(at)  BY <1>7, <1>9, <3>6
      <4> QED  BY <1>9, <3>1, <3>3, <3>6, <4>1
    <3> QED  BY <3>4, <3>5, <3>6
  <2>3. ASSUME NEW k, k = Len(at) + 1 PROVE Good(k)
    <3>1. EndOf(at', sent', k) = sent'  BY <1>7, <1>9, <2>3 DEF EndOf
    <3>2. IsMade(link, msgs'[k]) /\ at'[k] = sent /\ Acf!AcfMsgLengthInBytes(msgs'[k]) = bytes
      BY <1>4, <1>9, <2>3 DEF bytes
    <3>3. ASSUME NEW j \in 1 .. Len(at'), j < k PROVE at'[j] < at'[k]
      <4>1. j \in 1 .. Len(at)  BY <1>7, <1>9, <2>3, <3>3
      <4> QED  BY <1>9, <2>1, <2>3, <3>2, <4>1 DEF Linked
    <3> QED  BY <1>3, <1>5, <1>8, <3>1, <3>2, <3>3
  <2>4. \A k \in 1 .. Len(at') : Good(k)
    <3> HIDE DEF Good
    <3> QED  BY <1>7, <1>9, <2>2, <2>3
  <2>5. Linked(link, msgs', at', sent')  BY <2>4 DEF Linked
  <2> QED  BY <1>1, <2>5 DEF Chain
<1>15. Stages' /\ ReadsReceivedOnly'
  BY <1>1, <1>2 DEF Inv, Stages, ReadsReceivedOnly
<1> QED
  BY <1>1, <1>12, <1>13, <1>14, <1>15 DEF Inv, Made, Walking, Returned, AcceptedIffWhole

\* can_to_avtp ends.
LEMMA PackedInv ==
    ASSUME Inv, NEW f \in ControlFormats, update_cf_length(f)
    PROVE  Inv'
<1> DEFINE hd == Header(f, pdu.ver, sent - Udp - HeaderLen(f, pdu))
<1>1. /\ pc = "pack" /\ msgs # <<>> /\ Format[f].sub = pdu.sub
      /\ pdu' = hd /\ pc' = "sent"
      /\ UNCHANGED <<link, own, sent, msgs, at, size, proc_bytes, msg_length, upto, out, reader, result>>
  BY DEF update_cf_length, Claimed
<1>2. Types /\ Stages /\ Lists /\ TypeOK /\ Chain /\ own  BY <1>1 DEF Inv, Types, Packing
<1>3. PICK g \in ControlFormats :
        /\ g \in DOMAIN Format /\ Fresh(pdu, g) /\ Behind(g) \in Nat
        /\ Behind(g) <= LongestMessage * Len(msgs)
        /\ msgs # <<>> => at[1] = Udp + HeaderLen(g, pdu)
  BY <1>1, PackRoom
<1>4. f = g
  <2>1. f \in DOMAIN Format /\ Format[g].sub = pdu.sub  BY <1>3, ControlFacts DEF Fresh
  <2> QED  BY <1>1, <1>3, <2>1, SameSubtype
<1>5. pdu.ver \in {0, 1}  BY <1>3 DEF Fresh
<1>6. /\ IsStreamHeader(hd) /\ Fresh(hd, g) /\ hd.ver = pdu.ver
      /\ hd.len = (Behind(g) % 65536) % Format[g].cap
  BY <1>3, <1>4, <1>5, HeaderFacts DEF Behind
<1> HIDE DEF hd
<1>7. link \in Links  BY <1>2 DEF TypeOK
<1>8. Udp' = Udp /\ HeaderLen(g, hd) = HeaderLen(g, pdu)
  BY <1>1, <1>6, <1>7, UdpFacts DEF HeaderLen
<1>9. Behind(g)' = Behind(g)  BY <1>1, <1>8 DEF Behind
<1>10. Behind(g) < NtscfLengths
  <2>1. /\ Len(msgs) \in Nat /\ Len(msgs) <= MaxFrames /\ MaxFrames \in Nat
        /\ LongestMessage * MaxFrames < NtscfLengths
    BY <1>2, ReceiveConstants DEF Lists, ReceiveConstants
  <2> QED  BY <1>3, <2>1 DEF LongestMessage, NtscfLengths
<1>11. Made'
  <2>1. /\ Fresh(pdu', g) /\ Behind(g)' >= 0
        /\ pdu'.len = (Behind(g)' % 65536) % Format[g].cap
    BY <1>1, <1>3, <1>6, <1>9
  <2>2. Behind(g)' < NtscfLengths /\ at'[1] = Udp' + HeaderLen(g, pdu')
    BY <1>1, <1>3, <1>8, <1>9, <1>10
  <2> QED  BY <1>3, <2>1, <2>2 DEF Made
<1>12. TypeOK'  BY <1>1, <1>2 DEF TypeOK
<1>13. Lists'  BY <1>1, <1>2 DEF Lists
<1>14. Types'  BY <1>1, <1>2, <1>6, <1>12, <1>13 DEF Types
<1>15. Chain'  BY <1>1, <1>2 DEF Chain
<1>16. Stages' /\ ReadsReceivedOnly'
  BY <1>1, <1>2 DEF Inv, Stages, ReadsReceivedOnly
<1> QED
  BY <1>1, <1>11, <1>14, <1>15, <1>16 DEF Inv, Packing, Walking, Returned, AcceptedIffWhole

---------------------------------------------------------------------------
(* The steps of a receiver *)

\* uint16_t arithmetic.
LEMMA ModFacts ==
    ASSUME NEW x \in Nat
    PROVE  x % 65536 \in U16 /\ x % 65536 <= x /\ (x < 65536 => x % 65536 = x)
BY DEF U16, Below

\* What a PDU made here consists of.
LEMMA OwnFacts ==
    ASSUME Inv, own, pc \in {"sent", "received", "walk", "done"}
    PROVE  \E g \in DOMAIN Format :
              /\ Fresh(pdu, g) /\ Behind(g) \in Nat /\ HeaderLen(g, pdu) \in Nat
              /\ HeaderLen(g, pdu) >= 12 /\ HeaderLen(g, pdu) <= 40
              /\ sent = Udp + HeaderLen(g, pdu) + Behind(g)
              /\ Behind(g) < Format[g].cap => pdu.len = Behind(g)
              /\ msgs # <<>> => /\ g \in ControlFormats /\ Behind(g) < NtscfLengths
                                /\ at[1] = Udp + HeaderLen(g, pdu)
                                /\ pdu.len = Behind(g) /\ sent < 65536
<1>1. PICK g \in DOMAIN Format :
        /\ Fresh(pdu, g) /\ Behind(g) >= 0
        /\ pdu.len = (Behind(g) % 65536) % Format[g].cap
        /\ msgs # <<>> => /\ g \in ControlFormats /\ Behind(g) < NtscfLengths
                          /\ at[1] = Udp + HeaderLen(g, pdu)
  BY DEF Inv, Made
<1>2. link \in Links /\ sent \in Nat  BY DEF Inv, Types, TypeOK
<1>3. Udp \in {0, 4}  BY <1>2, UdpFacts
<1>4. HeaderLen(g, pdu) \in Nat /\ HeaderLen(g, pdu) >= 12 /\ HeaderLen(g, pdu) <= 40
  BY HeaderLenFacts
<1>5. Behind(g) \in Nat /\ sent = Udp + HeaderLen(g, pdu) + Behind(g)
  BY <1>1, <1>2, <1>3, <1>4 DEF Behind
<1>6. Format[g].cap \in {2048, 65536}  BY FormatFacts
<1>7. ASSUME NEW x \in Nat PROVE /\ x < 2048 => (x % 65536) % 2048 = x
                                 /\ x < 65536 => (x % 65536) % 65536 = x
  OBVIOUS
<1>8. Behind(g) < Format[g].cap => pdu.len = Behind(g)
  BY <1>1, <1>5, <1>6, <1>7
<1>9. ASSUME msgs # <<>> PROVE pdu.len = Behind(g) /\ sent < 65536
  <2>1. Behind(g) < 2048  BY <1>1, <1>9 DEF NtscfLengths
  <2> QED  BY <1>3, <1>4, <1>5, <1>6, <1>8, <2>1
<1> QED  BY <1>1, <1>4, <1>5, <1>8, <1>9

\* A receiver leaves the PDU as it is.
LEMMA SamePdu ==
    ASSUME Inv, UNCHANGED <<link, pdu, own, sent, msgs, at>>,
           pc \in {"sent", "received", "walk", "done"}, pc' # "pack"
    PROVE  Made' /\ Chain' /\ Packing' /\ IsStreamHeader(pdu)' /\ Udp' = Udp
<1>1. Made'  BY DEF Inv, Made, Behind, Udp
<1>2. Chain'  BY DEF Inv, Chain
<1>3. Packing'  BY DEF Packing
<1>4. IsStreamHeader(pdu)'  BY DEF Inv, Types
<1>5. Udp' = Udp  BY DEF Udp
<1> QED  BY <1>1, <1>2, <1>3, <1>4, <1>5

\* The PDU arrives.
LEMMA ArriveInv ==
    ASSUME Inv, NEW extra \in Extra, Arrive(extra)
    PROVE  Inv'
<1>1. /\ pc = "sent" /\ sent + extra \in 0 .. MaxPdu /\ size' = sent + extra /\ pc' = "received"
      /\ UNCHANGED <<link, pdu, own, sent, msgs, at, proc_bytes, msg_length, upto, out, reader, result>>
  BY DEF Arrive
<1>2. Types /\ Stages /\ Lists /\ TypeOK  BY DEF Inv, Types
<1>3. Made' /\ Chain' /\ Packing' /\ IsStreamHeader(pdu)'  BY <1>1, SamePdu
<1>4. TypeOK'  BY <1>1, <1>2 DEF TypeOK
<1>5. Lists'  BY <1>1, <1>2 DEF Lists
<1>6. Types'  BY <1>1, <1>2, <1>3, <1>4, <1>5 DEF Types
<1>7. Stages'  BY <1>1, <1>2 DEF Stages
<1>8. ReadsReceivedOnly'
  <2>1. upto' = 0 /\ size' >= 0  BY <1>1, <1>2, ReceiveConstants DEF Stages, ReceiveConstants
  <2> QED  BY <1>1, <2>1 DEF ReadsReceivedOnly
<1> QED
  BY <1>1, <1>3, <1>6, <1>7, <1>8 DEF Inv, Walking, Returned, AcceptedIffWhole

\* What IsValid looks at was received; what it accepts lies in the buffer.
LEMMA ValidFacts ==
    ASSUME NEW f \in DOMAIN Format, NEW n \in Nat, n >= 2, IsStreamHeader(pdu)
    PROVE  /\ Inspected(f, pdu, n) \in Nat /\ Inspected(f, pdu, n) <= n
           /\ pdu.len \in Nat /\ HeaderLen(f, pdu) \in Nat
           /\ IsValid(f, pdu, n) => HeaderLen(f, pdu) + pdu.len <= n
<1>1. HeaderLen(f, pdu) \in Nat /\ pdu.len \in Nat
  BY HeaderLenFacts DEF IsStreamHeader, U16, Below
<1>2. Inspected(f, pdu, n) \in Nat /\ Inspected(f, pdu, n) <= n  BY <1>1 DEF Inspected
<1>3. IsValid(f, pdu, n) => HeaderLen(f, pdu) + pdu.len <= n
  BY <1>1 DEF IsValid
<1> QED  BY <1>1, <1>2, <1>3

\* IsValid accepts a header made here if, and only if, the buffer holds the data.
LEMMA ValidIffWhole ==
    ASSUME NEW f \in DOMAIN Format, NEW g \in DOMAIN Format, NEW octets \in Nat, NEW n \in Int,
           Fresh(pdu, g), Format[f].sub = pdu.sub, pdu.len = octets,
           octets >= Format[f].least, octets % Format[f].unit = 0
    PROVE  /\ HeaderLen(f, pdu) = HeaderLen(g, pdu)
           /\ IsValid(f, pdu, n) <=> n >= HeaderLen(f, pdu) + octets
<1>1. Format[f].sub = Format[g].sub  BY DEF Fresh
<1>2. HeaderLen(f, pdu) = HeaderLen(g, pdu)  BY <1>1, SameSubtype DEF HeaderLen
<1>3. HeaderLen(f, pdu) \in Nat  BY HeaderLenFacts
<1>4. IsSupported(pdu.ver)  BY DEF Fresh, IsSupported
<1>5. PcmRules(pdu)  BY DEF Fresh, PcmRules, DepthFits
<1>6. (n >= HeaderLen(f, pdu) /\ octets <= n - HeaderLen(f, pdu)) <=> n >= HeaderLen(f, pdu) + octets
  BY <1>3
<1>7. IsValid(f, pdu, n) <=> (n >= HeaderLen(f, pdu) /\ octets <= n - HeaderLen(f, pdu))
  BY <1>4, <1>5 DEF IsValid
<1> QED  BY <1>2, <1>6, <1>7

\* A reader of one format validates the PDU.
LEMMA ValidateInv ==
    ASSUME Inv, NEW f \in DOMAIN Format, Validate(f)
    PROVE  Inv'
<1> DEFINE ok == IsValid(f, pdu, size)
<1>1. /\ pc = "received" /\ ~link.udp /\ size >= 2 /\ reader' = f /\ pc' = "done"
      /\ upto' = IF ok THEN HeaderLen(f, pdu) + pdu.len ELSE Inspected(f, pdu, size)
      /\ result' = IF ok THEN 1 ELSE 0
      /\ UNCHANGED <<link, pdu, own, sent, msgs, at, size, proc_bytes, msg_length, out>>
  BY DEF Validate, Finish
<1> HIDE DEF ok
<1>2. Types /\ Stages /\ Lists /\ TypeOK /\ IsStreamHeader(pdu)  BY DEF Inv, Types
<1>3. Made' /\ Chain' /\ Packing' /\ IsStreamHeader(pdu)'  BY <1>1, SamePdu
<1>4. size \in Nat /\ MaxFrames \in Nat /\ sent \in Nat
  BY <1>2, ReceiveConstants DEF TypeOK, ReceiveConstants
<1>5. upto' \in Nat /\ upto' <= size
  BY <1>1, <1>2, <1>4, ValidFacts DEF ok
<1>6. TypeOK'
  <2>1. result' \in -1 .. (MaxFrames + 1)  BY <1>1, <1>4
  <2> QED  BY <1>1, <1>2, <2>1 DEF TypeOK
<1>7. Lists'  BY <1>1, <1>2 DEF Lists
<1>8. Types'  BY <1>3, <1>5, <1>6, <1>7 DEF Types
<1>9. Stages' /\ ReadsReceivedOnly'  BY <1>1, <1>5 DEF Stages, ReadsReceivedOnly
<1>10. AcceptedIffWhole'
  <2>1. SUFFICES ASSUME own, Expressible(f)
        PROVE  ok <=> size >= sent
    BY <1>1 DEF AcceptedIffWhole, Expressible
  <2>2. PICK g \in DOMAIN Format :
          /\ Fresh(pdu, g) /\ Behind(g) \in Nat /\ HeaderLen(g, pdu) \in Nat
          /\ sent = Udp + HeaderLen(g, pdu) + Behind(g)
          /\ Behind(g) < Format[g].cap => pdu.len = Behind(g)
    BY <1>1, <2>1, OwnFacts
  <2>3. Udp = 0  BY <1>1 DEF Udp
  <2>4. pdu.sub = Format[f].sub /\ Format[f].sub = Format[g].sub
    BY <2>1, <2>2 DEF Fresh, Expressible
  <2>5. HeaderLen(f, pdu) = HeaderLen(g, pdu) /\ Format[f].cap = Format[g].cap
    BY <2>4, SameSubtype DEF HeaderLen
  <2>6. sent - HeaderLen(f, pdu) = Behind(g)  BY <2>2, <2>3, <2>5
  <2>7. /\ Behind(g) < Format[f].cap /\ Behind(g) >= Format[f].least
        /\ Behind(g) % Format[f].unit = 0
    BY <2>1, <2>6 DEF Expressible
  <2>8. ok <=> size >= HeaderLen(f, pdu) + Behind(g)
    BY <1>4, <2>2, <2>4, <2>5, <2>7, ValidIffWhole DEF ok
  <2> QED  BY <2>2, <2>3, <2>5, <2>8
<1>11. reader' # "avtp_to_can"  BY <1>1, FormatNames
<1> QED
  BY <1>1, <1>3, <1>8, <1>9, <1>10, <1>11 DEF Inv, Walking, Returned

\* A CAN PDU made here arrived whole, or IsValid refuses it.
LEMMA OwnCan ==
    ASSUME Inv, own, msgs # <<>>, pc \in {"received", "walk"}
    PROVE  \E g \in Claimed :
              /\ g \in DOMAIN Format /\ Claimed = {g} /\ pdu.mine
              /\ pdu.len \in Nat /\ HeaderLen(g, pdu) \in Nat /\ HeaderLen(g, pdu) >= 12
              /\ sent = Udp + HeaderLen(g, pdu) + pdu.len /\ sent < 65536
              /\ at[1] = Udp + HeaderLen(g, pdu)
              /\ IsValid(g, pdu, size - Udp) <=> size >= sent
<1>1. PICK g \in DOMAIN Format :
        /\ Fresh(pdu, g) /\ Behind(g) \in Nat /\ HeaderLen(g, pdu) \in Nat
        /\ HeaderLen(g, pdu) >= 12
        /\ sent = Udp + HeaderLen(g, pdu) + Behind(g)
        /\ msgs # <<>> => /\ g \in ControlFormats /\ Behind(g) < NtscfLengths
                          /\ at[1] = Udp + HeaderLen(g, pdu)
                          /\ pdu.len = Behind(g) /\ sent < 65536
  BY OwnFacts
<1>2. g \in ControlFormats /\ pdu.len = Behind(g)  BY <1>1
<1>3. Format[g].sub = pdu.sub /\ pdu.mine  BY <1>1 DEF Fresh
<1>4. Claimed = {g}
  <2>1. \A f \in ControlFormats : Format[f].sub = pdu.sub => f = g
    BY <1>2, <1>3, ControlFacts, SameSubtype
  <2> QED  BY <1>2, <1>3, <2>1 DEF Claimed
<1>5. link \in Links /\ size \in Nat
  BY ReceiveConstants DEF Inv, Types, TypeOK, ReceiveConstants
<1>6. Udp \in {0, 4}  BY <1>5, UdpFacts
<1>7. Format[g].least = 0 /\ Format[g].unit = 1
  BY <1>2, FormatEntries DEF ControlFormats, Entry
<1>8. pdu.len >= Format[g].least /\ pdu.len % Format[g].unit = 0
  BY <1>1, <1>2, <1>7
<1>9. size - Udp \in Int  BY <1>5, <1>6
<1>10. IsValid(g, pdu, size - Udp) <=> size - Udp >= HeaderLen(g, pdu) + pdu.len
  <2>1. pdu.len \in Nat  BY <1>1, <1>2
  <2> QED  BY <1>1, <1>3, <1>8, <1>9, <2>1, ValidIffWhole
<1>11. IsValid(g, pdu, size - Udp) <=> size >= sent
  BY <1>1, <1>2, <1>5, <1>6, <1>10
<1> QED  BY <1>1, <1>2, <1>3, <1>4, <1>11

\* avtp_to_can is given too little, or a PDU it refuses.
LEMMA GivenUp ==
    ASSUME Inv, pc = "received", pc' = "done", reader' = "avtp_to_can", result' = -1,
           upto' \in Nat, upto' <= size, own /\ msgs # <<>> => size < sent,
           UNCHANGED <<link, pdu, own, sent, msgs, at, size, proc_bytes, msg_length, out>>
    PROVE  Inv'
<1>1. Types /\ Stages /\ Lists /\ TypeOK  BY DEF Inv, Types
<1>2. Made' /\ Chain' /\ Packing' /\ IsStreamHeader(pdu)'  BY SamePdu
<1>3. MaxFrames \in Nat  BY ReceiveConstants DEF ReceiveConstants
<1>4. TypeOK'
  <2>1. -1 \in -1 .. (MaxFrames + 1)  BY <1>3
  <2> QED  BY <1>1, <2>1 DEF TypeOK
<1>5. Lists'  BY <1>1 DEF Lists
<1>6. Types'  BY <1>2, <1>4, <1>5 DEF Types
<1>7. Stages' /\ ReadsReceivedOnly' /\ Walking'  BY DEF Stages, ReadsReceivedOnly, Walking
<1>8. Returned'  BY <1>1 DEF Returned, Lists
<1>9. AcceptedIffWhole'  BY FormatNames DEF AcceptedIffWhole
<1> QED  BY <1>2, <1>6, <1>7, <1>8, <1>9 DEF Inv

\* avtp_to_can finds less than an encapsulation number and two octets.
LEMMA TruncatedInv ==
    ASSUME Inv, ReceiveTruncated
    PROVE  Inv'
<1>1. /\ pc = "received" /\ size < Udp + 2 /\ reader' = "avtp_to_can"
      /\ upto' = (IF size < Udp THEN 0 ELSE Udp)
      /\ pc' = "done" /\ result' = -1
      /\ UNCHANGED <<link, pdu, own, sent, msgs, at, size, proc_bytes, msg_length, out>>
  BY DEF ReceiveTruncated, Finish
<1>2. link \in Links /\ size \in Nat
  BY ReceiveConstants DEF Inv, Types, TypeOK, ReceiveConstants
<1>3. Udp \in {0, 4}  BY <1>2, UdpFacts
<1>4. upto' \in Nat /\ upto' <= size  BY <1>1, <1>2, <1>3
<1>5. ASSUME own, msgs # <<>> PROVE size < sent
  <2>1. PICK g \in Claimed : /\ pdu.len \in Nat /\ HeaderLen(g, pdu) \in Nat
                             /\ HeaderLen(g, pdu) >= 12
                             /\ sent = Udp + HeaderLen(g, pdu) + pdu.len
    BY <1>1, <1>5, OwnCan
  <2> QED  BY <1>1, <1>2, <1>3, <2>1
<1> QED  BY <1>1, <1>4, <1>5, GivenUp

\* avtp_to_can refuses the PDU.
LEMMA RefusedInv ==
    ASSUME Inv, ReceiveRefused
    PROVE  Inv'
<1>1. /\ pc = "received" /\ size >= Udp + 2 /\ reader' = "avtp_to_can"
      /\ \A f \in Claimed : ~IsValid(f, pdu, size - Udp) \/ ~pdu.mine
      /\ upto' = IF Claimed = {} THEN Udp + 2
                 ELSE Udp + Inspected(CHOOSE f \in Claimed : TRUE, pdu, size - Udp)
      /\ pc' = "done" /\ result' = -1
      /\ UNCHANGED <<link, pdu, own, sent, msgs, at, size, proc_bytes, msg_length, out>>
  BY DEF ReceiveRefused, Finish
<1>2. link \in Links /\ size \in Nat /\ IsStreamHeader(pdu) /\ sent \in Nat
  BY ReceiveConstants DEF Inv, Types, TypeOK, ReceiveConstants
<1>3. Udp \in {0, 4}  BY <1>2, UdpFacts
<1>4. upto' \in Nat /\ upto' <= size
  <2>1. CASE Claimed = {}  BY <1>1, <1>2, <1>3, <2>1
  <2>2. CASE Claimed # {}
    <3> DEFINE f == CHOOSE f \in Claimed : TRUE
    <3>1. f \in DOMAIN Format  BY <2>2, ControlFacts DEF Claimed
    <3>2. upto' = Udp + Inspected(f, pdu, size - Udp)  BY <1>1, <2>2
    <3>3. size - Udp \in Nat /\ size - Udp >= 2  BY <1>1, <1>2, <1>3
    <3> HIDE DEF f
    <3>4. Inspected(f, pdu, size - Udp) \in Nat /\ Inspected(f, pdu, size - Udp) <= size - Udp
      BY <1>2, <3>1, <3>3, ValidFacts
    <3> QED  BY <1>2, <1>3, <3>2, <3>4
  <2> QED  BY <2>1, <2>2
<1>5. ASSUME own, msgs # <<>> PROVE size < sent
  <2>1. PICK g \in Claimed : pdu.mine /\ (IsValid(g, pdu, size - Udp) <=> size >= sent)
    BY <1>1, <1>5, OwnCan
  <2> QED  BY <1>1, <1>2, <2>1
<1> QED  BY <1>1, <1>4, <1>5, GivenUp

\* avtp_to_can begins to walk through the messages.
LEMMA AcceptedInv ==
    ASSUME Inv, NEW f \in ControlFormats, ReceiveAccepted(f)
    PROVE  Inv'
<1> DEFINE base == Udp + HeaderLen(f, pdu)
           end == Udp + pdu.len + HeaderLen(f, pdu)
<1>1. /\ pc = "received" /\ size >= Udp + 2 /\ reader' = "avtp_to_can"
      /\ f \in Claimed /\ IsValid(f, pdu, size - Udp)
      /\ proc_bytes' = base % 65536 /\ msg_length' = end % 65536
      /\ upto' = proc_bytes' /\ pc' = "walk"
      /\ UNCHANGED <<link, pdu, own, sent, msgs, at, size, out, result>>
  BY DEF ReceiveAccepted
<1>2. Types /\ Stages /\ Lists /\ TypeOK /\ IsStreamHeader(pdu)  BY DEF Inv, Types
<1>3. Made' /\ Chain' /\ Packing' /\ IsStreamHeader(pdu)' /\ Udp' = Udp  BY <1>1, SamePdu
<1>4. link \in Links /\ size \in Nat /\ sent \in Nat
  BY <1>2, ReceiveConstants DEF TypeOK, ReceiveConstants
<1>5. Udp \in {0, 4}  BY <1>4, UdpFacts
<1>6. /\ HeaderLen(f, pdu) \in Nat /\ pdu.len \in Nat
      /\ HeaderLen(f, pdu) + pdu.len <= size - Udp
  <2>1. f \in DOMAIN Format  BY ControlFacts
  <2>2. size - Udp \in Nat /\ size - Udp >= 2  BY <1>1, <1>4, <1>5
  <2> QED  BY <1>1, <1>2, <2>1, <2>2, ValidFacts
<1>7. base \in Nat /\ end \in Nat /\ base <= size /\ end <= size  BY <1>4, <1>5, <1>6
<1>8. /\ proc_bytes' \in U16 /\ proc_bytes' <= base /\ (base < 65536 => proc_bytes' = base)
      /\ msg_length' \in U16 /\ msg_length' <= end /\ (end < 65536 => msg_length' = end)
  <2> HIDE DEF base, end
  <2> QED  BY <1>1, <1>7, ModFacts
<1>9. proc_bytes' \in Nat /\ msg_length' \in Nat  BY <1>8 DEF U16, Below
<1>10. TypeOK'  BY <1>1, <1>2, <1>8 DEF TypeOK
<1>11. Lists'  BY <1>1, <1>2 DEF Lists
<1>12. Types'  BY <1>1, <1>3, <1>9, <1>10, <1>11 DEF Types
<1>13. Stages'  BY <1>1, <1>3 DEF Stages
<1>14. ReadsReceivedOnly'
  <2>1. upto' <= size /\ msg_length' <= size
    <3> HIDE DEF base, end
    <3> QED  BY <1>1, <1>4, <1>7, <1>8, <1>9
  <2> QED  BY <1>1, <2>1 DEF ReadsReceivedOnly
<1>15. Walking'
  <2>1. SUFFICES ASSUME msgs # <<>>
        PROVE  /\ size >= sent /\ msg_length' = sent
               /\ out = <<>> /\ proc_bytes' = EndOf(at, sent, 0)
    <3>1. ASSUME out = <<>> PROVE Len(out) = 0 /\ Len(out) <= Len(msgs) /\ Found'
      BY <1>1, <1>2, <3>1 DEF Lists, Found
    <3> QED  BY <1>1, <3>1 DEF Walking
  <2>2. own /\ out = <<>>  BY <1>1, <1>2, <2>1 DEF Lists, Stages
  <2>3. PICK g \in Claimed :
          /\ Claimed = {g}
          /\ sent = Udp + HeaderLen(g, pdu) + pdu.len /\ sent < 65536
          /\ at[1] = Udp + HeaderLen(g, pdu)
          /\ IsValid(g, pdu, size - Udp) <=> size >= sent
    BY <1>1, <2>1, <2>2, OwnCan
  <2>4. f = g  BY <1>1, <2>3
  <2>5. end = sent /\ base = at[1] /\ base < 65536
    BY <1>5, <1>6, <2>3, <2>4
  <2>6. Len(at) > 0  BY <1>2, <2>1 DEF Lists
  <2>7. EndOf(at, sent, 0) = at[1]  BY <2>6 DEF EndOf
  <2> HIDE DEF base, end
  <2> QED  BY <1>1, <1>8, <2>2, <2>3, <2>4, <2>5, <2>7
<1> QED
  BY <1>1, <1>3, <1>12, <1>13, <1>14, <1>15 DEF Inv, Returned, AcceptedIffWhole

\* In a PDU made here the loop stands at a message, which it accepts.
LEMMA AtMessage ==
    ASSUME Inv, pc = "walk", msgs # <<>>, proc_bytes < msg_length
    PROVE  /\ own /\ Len(out) + 1 \in 1 .. Len(at) /\ Len(out) < MaxFrames
           /\ HeadersAt = {msgs[Len(out) + 1]}
           /\ msgs[Len(out) + 1] \in MessageHeader /\ ~msgs[Len(out) + 1].big
           /\ Acceptable(msgs[Len(out) + 1])
           /\ (proc_bytes + Acf!AcfMsgLengthInBytes(msgs[Len(out) + 1])) % 65536
                 = EndOf(at, sent, Len(out) + 1)
<1> DEFINE k == Len(out) + 1
           bytes == Acf!AcfMsgLengthInBytes(msgs[k])
<1>1. Types /\ Lists /\ TypeOK  BY DEF Inv, Types
<1>2. /\ msg_length = sent /\ Len(out) <= Len(msgs) /\ proc_bytes = EndOf(at, sent, Len(out))
  BY DEF Inv, Walking
<1>3. /\ msgs \in Seq(MessageHeader) /\ at \in Seq(Nat) /\ out \in Seq(Nat)
      /\ Len(at) = Len(msgs) /\ Len(msgs) <= MaxFrames /\ own
  BY <1>1 DEF Lists
<1>4. /\ MaxFrames \in Nat /\ sent \in Nat /\ sent < 65536 /\ link \in Links
  BY <1>1, <1>2, ReceiveConstants DEF TypeOK, ReceiveConstants, U16, Below
<1>5. Len(out) < Len(at) /\ proc_bytes = at[k]
  <2>1. Len(out) \in Nat /\ Len(at) \in Nat  BY <1>3
  <2> QED  BY <1>2, <1>3, <1>4, <2>1 DEF EndOf
<1>6. k \in 1 .. Len(at) /\ Len(out) < MaxFrames  BY <1>3, <1>4, <1>5
<1>7. msgs[k] \in MessageHeader /\ at[k] \in Nat  BY <1>3, <1>6
<1>8. Linked(link, msgs, at, sent)  BY DEF Inv, Chain
<1>9. /\ IsMade(link, msgs[k]) /\ at[k] + bytes = EndOf(at, sent, k)
  BY <1>6, <1>8 DEF Linked
<1>10. \A j \in 1 .. Len(at) : at[j] \in Nat /\ at[j] < sent /\ (j # k => at[j] # at[k])
  <2> TAKE j \in 1 .. Len(at)
  <2>1. at[j] \in Nat /\ at[j] < sent  BY <1>3, <1>8 DEF Linked
  <2>2. j < k => at[j] < at[k]  BY <1>6, <1>8 DEF Linked
  <2>3. k < j => at[k] < at[j]  BY <1>6, <1>8 DEF Linked
  <2>4. j # k => j < k \/ k < j  BY <1>6
  <2> QED  BY <1>7, <2>1, <2>2, <2>3, <2>4
<1>11. HeadersAt = {msgs[k]}
  <2>1. DOMAIN at = 1 .. Len(at)  BY <1>3
  <2>2. {j \in DOMAIN at : at[j] = proc_bytes} = {k}  BY <1>5, <1>6, <1>10, <2>1
  <2> QED  BY <1>3, <2>2 DEF HeadersAt
<1>12. bytes \in Nat /\ \A rest \in Int : rest >= bytes => Acf!IsValid(link.api, msgs[k], rest)
  BY <1>4, <1>7, <1>9, MadeFacts
<1>13. ~msgs[k].big  BY <1>9 DEF IsMade
<1>14. EndOf(at, sent, k) \in Nat /\ EndOf(at, sent, k) <= sent
  <2>1. CASE k < Len(at)
    <3>1. k + 1 \in 1 .. Len(at)  BY <1>3, <1>6, <2>1
    <3>2. at[k + 1] \in Nat /\ at[k + 1] < sent  BY <1>10, <3>1
    <3> QED  BY <1>4, <2>1, <3>2 DEF EndOf
  <2>2. CASE ~(k < Len(at))  BY <1>4, <2>2 DEF EndOf
  <2> QED  BY <2>1, <2>2
<1> HIDE DEF bytes
<1>15. Acceptable(msgs[k])
  <2>1. msg_length - proc_bytes \in Int /\ msg_length - proc_bytes >= bytes
    BY <1>2, <1>4, <1>5, <1>7, <1>9, <1>12, <1>14
  <2> QED  BY <1>12, <2>1 DEF Acceptable
<1>16. (proc_bytes + bytes) % 65536 = EndOf(at, sent, k)
  <2>1. EndOf(at, sent, k) % 65536 = EndOf(at, sent, k)  BY <1>4, <1>14, ModFacts
  <2> QED  BY <1>5, <1>9, <2>1
<1> QED  BY <1>3, <1>6, <1>7, <1>11, <1>13, <1>15, <1>16 DEF bytes

\* The loop reads only what IsValid has found to be there.
LEMMA ReadFacts ==
    ASSUME Inv, pc = "walk", proc_bytes < msg_length, NEW msg \in MessageHeader
    PROVE  /\ MessageRead(msg) \in Nat /\ MessageRead(msg) <= size
           /\ Acceptable(msg) => Acf!GetPayloadLength(link.api, msg) \in Nat
<1>1. /\ link \in Links /\ size \in Nat /\ proc_bytes \in Nat /\ msg_length \in Nat
      /\ msg_length <= size
  BY ReceiveConstants DEF Inv, Types, TypeOK, ReceiveConstants, ReadsReceivedOnly, U16, Below
<1>2. link.api.hdr \in Nat  BY <1>1, LinkFacts
<1> DEFINE rest == msg_length - proc_bytes
           pay == Acf!GetPayloadLength(link.api, msg)
<1>3. rest \in Int  BY <1>1
<1>4. ASSUME Acceptable(msg) PROVE pay \in Nat /\ link.api.hdr + pay <= rest
  <2>1. /\ pay \in Nat /\ link.api.hdr + pay <= 4 * msg.len /\ 4 * msg.len <= rest
    BY <1>1, <1>3, <1>4, MessageInside DEF Acceptable
  <2>2. msg.len \in Nat  BY MessageFields
  <2> HIDE DEF rest, pay
  <2> QED  BY <1>2, <1>3, <2>1, <2>2
<1>5. MessageRead(msg) = IF rest < link.api.hdr THEN proc_bytes
                         ELSE IF Acceptable(msg) THEN proc_bytes + link.api.hdr + pay
                         ELSE proc_bytes + link.api.hdr
  BY DEF MessageRead
<1> HIDE DEF pay
<1>6. CASE rest < link.api.hdr  BY <1>1, <1>4, <1>5, <1>6 DEF pay
<1>7. CASE ~(rest < link.api.hdr) /\ Acceptable(msg)
  <2>1. MessageRead(msg) = proc_bytes + link.api.hdr + pay  BY <1>5, <1>7
  <2>2. pay \in Nat /\ link.api.hdr + pay <= rest  BY <1>4, <1>7
  <2>3. MessageRead(msg) \in Nat /\ MessageRead(msg) <= size  BY <1>1, <1>2, <2>1, <2>2
  <2> QED  BY <1>4, <2>3 DEF pay
<1>8. CASE ~(rest < link.api.hdr) /\ ~Acceptable(msg)  BY <1>1, <1>2, <1>5, <1>8
<1> QED  BY <1>6, <1>7, <1>8

\* A turn of the loop of avtp_to_can.
LEMMA MessageInv ==
    ASSUME Inv, NEW msg \in HeadersAt, Message(msg)
    PROVE  Inv'
<1> DEFINE pay == Acf!GetPayloadLength(link.api, msg)
           next == (proc_bytes + Acf!AcfMsgLengthInBytes(msg)) % 65536
<1>1. /\ pc = "walk" /\ proc_bytes < msg_length
      /\ upto' = (IF MessageRead(msg) > upto THEN MessageRead(msg) ELSE upto)
      /\ \/ pc' = "done" /\ result' = -1 /\ out' = out /\ proc_bytes' \in {proc_bytes, next}
            /\ (~Acceptable(msg) \/ Len(out) >= MaxFrames \/ msg.big)
         \/ pc' = "walk" /\ result' = result /\ out' = Append(out, pay) /\ proc_bytes' = next
            /\ Acceptable(msg) /\ ~(Len(out) >= MaxFrames)
      /\ UNCHANGED <<link, pdu, own, sent, msgs, at, size, msg_length, reader>>
  BY DEF Message, Finish
<1>2. Types /\ Stages /\ Lists /\ TypeOK /\ upto \in Nat /\ ReadsReceivedOnly  BY DEF Inv, Types
<1>3. Made' /\ Chain' /\ Packing' /\ IsStreamHeader(pdu)' /\ Udp' = Udp  BY <1>1, SamePdu
<1>4. /\ link \in Links /\ size \in Nat /\ proc_bytes \in Nat /\ MaxFrames \in Nat
      /\ link.messages \subseteq MessageHeader
  BY <1>2, ReceiveConstants DEF TypeOK, ReceiveConstants, U16, Below
<1>5. msg \in MessageHeader
  <2>1. CASE msgs # <<>>  BY <1>1, <2>1, AtMessage
  <2>2. CASE msgs = <<>>
    <3>1. DOMAIN at = {}
      <4>1. at \in Seq(Nat) /\ Len(at) = 0  BY <1>2, <2>2 DEF Lists
      <4> QED  BY <4>1
    <3>2. HeadersAt = link.messages  BY <3>1 DEF HeadersAt
    <3> QED  BY <1>4, <3>2
  <2> QED  BY <2>1, <2>2
<1>6. /\ MessageRead(msg) \in Nat /\ MessageRead(msg) <= size
      /\ Acceptable(msg) => pay \in Nat
  BY <1>1, <1>5, ReadFacts
<1>7. upto' \in Nat /\ upto' <= size
  <2>1. upto <= size  BY <1>2 DEF ReadsReceivedOnly
  <2> QED  BY <1>1, <1>2, <1>6, <2>1
<1>8. next \in U16
  <2>1. Acf!AcfMsgLengthInBytes(msg) \in Nat  BY <1>5, MessageFields
  <2>2. proc_bytes + Acf!AcfMsgLengthInBytes(msg) \in Nat  BY <1>4, <2>1
  <2> QED  BY <2>2, ModFacts
<1> HIDE DEF next, pay
<1>9. proc_bytes' \in U16  BY <1>1, <1>2, <1>8 DEF TypeOK
<1>10. out' \in Seq(Nat) /\ Len(out') <= MaxFrames
  <2>1. out \in Seq(Nat) /\ Len(out) <= MaxFrames /\ Len(out) \in Nat  BY <1>2 DEF Lists, TypeOK
  <2>2. CASE out' = out  BY <2>1, <2>2
  <2>3. CASE out' = Append(out, pay) /\ Acceptable(msg) /\ ~(Len(out) >= MaxFrames)
    BY <1>4, <1>6, <2>1, <2>3
  <2> QED  BY <1>1, <2>2, <2>3
<1>11. TypeOK'
  <2>1. result' \in -1 .. (MaxFrames + 1)
    <3>1. -1 \in -1 .. (MaxFrames + 1)  BY <1>4
    <3> QED  BY <1>1, <1>2, <3>1 DEF TypeOK
  <2>2. pc' \in {"walk", "done"}  BY <1>1
  <2> QED  BY <1>1, <1>2, <1>9, <1>10, <2>1, <2>2 DEF TypeOK
<1>12. Lists'  BY <1>1, <1>2, <1>10 DEF Lists
<1>13. Types'  BY <1>3, <1>7, <1>11, <1>12 DEF Types
<1>14. Stages'  BY <1>1, <1>2, <1>3 DEF Stages
<1>15. ReadsReceivedOnly'  BY <1>1, <1>2, <1>7 DEF ReadsReceivedOnly
<1>16. Walking' /\ Returned'
  <2>1. SUFFICES ASSUME msgs # <<>> PROVE Walking' /\ Returned'
    BY <1>1 DEF Walking, Returned
  <2>2. /\ Len(out) + 1 \in 1 .. Len(at) /\ Len(out) < MaxFrames /\ HeadersAt = {msgs[Len(out) + 1]}
        /\ ~msgs[Len(out) + 1].big /\ Acceptable(msgs[Len(out) + 1])
        /\ (proc_bytes + Acf!AcfMsgLengthInBytes(msgs[Len(out) + 1])) % 65536
              = EndOf(at, sent, Len(out) + 1)
    BY <1>1, <2>1, AtMessage
  <2>3. msg = msgs[Len(out) + 1]  BY <2>2
  <2>4. /\ pc' = "walk" /\ out' = Append(out, pay)
        /\ proc_bytes' = EndOf(at, sent, Len(out) + 1)
    <3>1. Len(out) \in Nat  BY <1>2 DEF Lists
    <3>2. ~(Len(out) >= MaxFrames)  BY <1>4, <2>2, <3>1
    <3> QED  BY <1>1, <2>2, <2>3, <3>2 DEF next
  <2>5. /\ size >= sent /\ msg_length = sent /\ Found  BY <1>1, <2>1 DEF Inv, Walking
  <2>6. /\ out \in Seq(Nat) /\ Len(at) = Len(msgs) /\ Len(out) \in Nat /\ Len(msgs) \in Nat
        /\ pay \in Nat
    BY <1>2, <1>6, <2>2, <2>3 DEF Lists
  <2>7. /\ Len(out') = Len(out) + 1 /\ out'[Len(out) + 1] = pay
        /\ \A i \in 1 .. Len(out) : out'[i] = out[i]
    BY <2>4, <2>6
  <2>8. Found'
    <3>1. ASSUME NEW i \in 1 .. Len(out')
          PROVE  out'[i] = Acf!GetPayloadLength(link.api, msgs[i])
      <4>1. CASE i \in 1 .. Len(out)  BY <2>5, <2>7, <4>1 DEF Found
      <4>2. CASE i = Len(out) + 1  BY <2>3, <2>7, <4>2 DEF pay
      <4> QED  BY <2>6, <2>7, <4>1, <4>2
    <3> QED  BY <1>1, <3>1 DEF Found
  <2>9. Len(out') <= Len(msgs)  BY <2>2, <2>6, <2>7
  <2> QED  BY <1>1, <2>4, <2>5, <2>7, <2>8, <2>9 DEF Walking, Returned
<1>17. AcceptedIffWhole'
  <2>1. reader' = "avtp_to_can"  BY <1>1, <1>2 DEF Stages
  <2> QED  BY <2>1, FormatNames DEF AcceptedIffWhole
<1> QED  BY <1>3, <1>13, <1>14, <1>15, <1>16, <1>17 DEF Inv

\* avtp_to_can returns.
LEMMA ReturnInv ==
    ASSUME Inv, Return
    PROVE  Inv'
<1>1. /\ pc = "walk" /\ proc_bytes >= msg_length /\ pc' = "done" /\ result' = Len(out)
      /\ UNCHANGED <<link, pdu, own, sent, msgs, at, size, proc_bytes, msg_length, upto, out, reader>>
  BY DEF Return, Finish
<1>2. Types /\ Stages /\ Lists /\ TypeOK /\ ReadsReceivedOnly  BY DEF Inv, Types
<1>3. Made' /\ Chain' /\ Packing' /\ IsStreamHeader(pdu)'  BY <1>1, SamePdu
<1>4. TypeOK'
  <2>1. Len(out) \in -1 .. (MaxFrames + 1)
    BY <1>2, ReceiveConstants DEF Lists, TypeOK, ReceiveConstants
  <2> QED  BY <1>1, <1>2, <2>1 DEF TypeOK
<1>5. Lists'  BY <1>1, <1>2 DEF Lists
<1>6. Types'  BY <1>1, <1>2, <1>3, <1>4, <1>5 DEF Types
<1>7. Stages' /\ ReadsReceivedOnly' /\ Walking'
  BY <1>1, <1>2 DEF Stages, ReadsReceivedOnly, Walking
<1>8. Returned'
  <2>1. SUFFICES ASSUME msgs # <<>>
        PROVE  size >= sent /\ Len(out) = Len(msgs) /\ Found'
    <3>1. size \in Int /\ sent \in Int  BY <1>2, ReceiveConstants DEF TypeOK, ReceiveConstants
    <3> QED  BY <1>1, <3>1 DEF Returned
  <2>2. /\ size >= sent /\ msg_length = sent /\ Len(out) <= Len(msgs) /\ Found
        /\ proc_bytes = EndOf(at, sent, Len(out))
    BY <1>1, <2>1 DEF Inv, Walking
  <2>3. Found'  BY <1>1, <2>2 DEF Found
  <2>4. /\ Len(out) \in Nat /\ Len(at) = Len(msgs) /\ Len(msgs) \in Nat /\ sent \in Nat
    BY <1>2 DEF Lists, TypeOK
  <2>5. ASSUME Len(out) < Len(at) PROVE FALSE
    <3>1. Len(out) + 1 \in 1 .. Len(at)  BY <2>4, <2>5
    <3>2. proc_bytes = at[Len(out) + 1]  BY <2>2, <2>5 DEF EndOf
    <3>3. at[Len(out) + 1] < sent /\ at[Len(out) + 1] \in Nat
      BY <1>2, <3>1 DEF Inv, Chain, Linked, Lists
    <3> QED  BY <1>1, <2>2, <2>4, <3>2, <3>3
  <2> QED  BY <2>2, <2>3, <2>4, <2>5
<1>9. AcceptedIffWhole'
  <2>1. reader' = "avtp_to_can"  BY <1>1, <1>2 DEF Stages
  <2> QED  BY <2>1, FormatNames DEF AcceptedIffWhole
<1> QED  BY <1>3, <1>6, <1>7, <1>8, <1>9 DEF Inv

\* The next PDU.
LEMMA ReuseInv ==
    ASSUME Inv, Reuse
    PROVE  Inv'
<1>1. link \in Links  BY DEF Inv, Types, TypeOK
<1>2. IsStreamHeader(Blank)  BY DEF Blank, IsStreamHeader, Subtypes, Below, U16
<1>3. Lists'  BY ReceiveConstants DEF Reuse, Lists, ReceiveConstants
<1>4. TypeOK'
  <2>1. MaxFrames \in Nat /\ MaxPdu \in Nat  BY ReceiveConstants DEF ReceiveConstants
  <2>2. 0 \in U16 /\ 0 \in 0 .. MaxPdu /\ 0 \in -1 .. (MaxFrames + 1) /\ Len(<<>>) <= MaxFrames
    BY <2>1 DEF U16, Below
  <2> QED  BY <1>1, <2>2 DEF Reuse, TypeOK
<1>5. Types'  BY <1>2, <1>3, <1>4 DEF Types, Reuse
<1>6. Len(at') = 0  BY DEF Reuse
<1> QED
  BY <1>5, <1>6 DEF Reuse, Inv, Stages, ReadsReceivedOnly, Packing, Made, Chain, Linked, Walking,
     Returned, AcceptedIffWhole

---------------------------------------------------------------------------
(* The theorems *)

\* No step of a talker, the network or a reader disturbs the invariant: the octets
\* of a PDU made here lie where its headers say, and the loop of avtp_to_can stands
\* at the end of the last message it found.
THEOREM ReceiveInvariance == Spec => []Inv
<1>1. Init => Inv  BY InitInv
<1>2. Inv /\ [Next]_vars => Inv'
  <2> SUFFICES ASSUME Inv, [Next]_vars PROVE Inv'  OBVIOUS
  <2>1. ASSUME NEW f \in DOMAIN Format, NEW ver \in {0, 1}, NEW k \in Payloads,
               ~link.udp, Create(f, ver, k)
        PROVE  Inv'
    BY <2>1, CreateInv
  <2>2. ASSUME NEW f \in ControlFormats, NEW ver \in {0, 1}, can_to_avtp(f, ver) PROVE Inv'
    BY <2>2, BeginInv
  <2>3. ASSUME NEW octets \in link.lengths, prepare_acf_packet(octets) PROVE Inv'
    BY <2>3, PackInv
  <2>4. ASSUME NEW f \in ControlFormats, update_cf_length(f) PROVE Inv'  BY <2>4, PackedInv
  <2>5. ASSUME NEW hd \in Foreign, NEW k \in Payloads, Forge(hd, k) PROVE Inv'  BY <2>5, ForgeInv
  <2>6. ASSUME NEW extra \in Extra, Arrive(extra) PROVE Inv'  BY <2>6, ArriveInv
  <2>7. ASSUME NEW f \in DOMAIN Format, Validate(f) PROVE Inv'  BY <2>7, ValidateInv
  <2>8. ASSUME ReceiveTruncated PROVE Inv'  BY <2>8, TruncatedInv
  <2>9. ASSUME ReceiveRefused PROVE Inv'  BY <2>9, RefusedInv
  <2>10. ASSUME NEW f \in ControlFormats, ReceiveAccepted(f) PROVE Inv'  BY <2>10, AcceptedInv
  <2>11. ASSUME NEW msg \in HeadersAt, Message(msg) PROVE Inv'  BY <2>11, MessageInv
  <2>12. ASSUME Return PROVE Inv'  BY <2>12, ReturnInv
  <2>13. ASSUME Reuse PROVE Inv'  BY <2>13, ReuseInv
  <2>14. CASE UNCHANGED vars
    BY <2>14 DEF vars, Inv, Types, TypeOK, Lists, Stages, ReadsReceivedOnly, Packing, Made, Behind,
       Udp, Chain, Walking, Found, Returned, AcceptedIffWhole, Expressible
  <2> QED
    BY <2>1, <2>2, <2>3, <2>4, <2>5, <2>6, <2>7, <2>8, <2>9, <2>10, <2>11, <2>12, <2>13, <2>14
       DEF Next, Walk
<1> QED  BY <1>1, <1>2, PTL DEF Spec

\* Whatever the headers of a PDU declare and however much of it arrived, neither
\* IsValid of a stream format, nor a reader that trusts it, nor the loop of
\* avtp_to_can reads an octet that was not received, and results and frames keep to
\* their bounds.
THEOREM ReadersStayInBuffer == Spec => []ReceiveInv
<1>1. Inv => ReceiveInv  BY DEF Inv, Types, ReceiveInv
<1> QED  BY <1>1, ReceiveInvariance, PTL

\* IsValid of its format accepts a PDU made here if all of it arrived, and only then.
THEOREM WholePduIsAccepted == Spec => []AcceptedIffWhole
<1>1. Inv => AcceptedIffWhole  BY DEF Inv
<1> QED  BY <1>1, ReceiveInvariance, PTL

\* avtp_to_can finds in a PDU of can_to_avtp that arrived whole each message with its
\* payload length, and nothing in one that was cut short.
THEOREM CanMessagesAreRecovered == Spec => []MessagesRecovered
<1>1. Inv => MessagesRecovered
  <2> SUFFICES ASSUME Inv, pc = "done", msgs # <<>>, reader = "avtp_to_can"
      PROVE  IF size < sent THEN result = -1
             ELSE /\ result = Len(msgs)
                  /\ \A k \in DOMAIN msgs :
                        Acf!SetPayloadLength(link.api, msgs[k], out[k]) = msgs[k]
    BY DEF MessagesRecovered
  <2>1. IF size < sent THEN result = -1
        ELSE result = Len(msgs) /\ Len(out) = Len(msgs) /\ Found
    BY DEF Inv, Returned
  <2>2. CASE size < sent  BY <2>1, <2>2
  <2>3. CASE ~(size < sent)
    <3>1. result = Len(msgs) /\ Len(out) = Len(msgs) /\ Found  BY <2>1, <2>3
    <3>2. /\ msgs \in Seq(MessageHeader) /\ Len(at) = Len(msgs) /\ link \in Links
      BY DEF Inv, Types, Lists, TypeOK
    <3>3. ASSUME NEW k \in DOMAIN msgs
          PROVE  Acf!SetPayloadLength(link.api, msgs[k], out[k]) = msgs[k]
      <4>1. k \in 1 .. Len(msgs) /\ msgs[k] \in MessageHeader  BY <3>2
      <4>2. out[k] = Acf!GetPayloadLength(link.api, msgs[k])  BY <3>1, <4>1 DEF Found
      <4>3. IsMade(link, msgs[k])  BY <3>2, <4>1 DEF Inv, Chain, Linked
      <4> QED  BY <3>2, <4>1, <4>2, <4>3, MadeFacts
    <3> QED  BY <2>3, <3>1, <3>3
  <2> QED  BY <2>2, <2>3
<1> QED  BY <1>1, ReceiveInvariance, PTL
=============================================================================
