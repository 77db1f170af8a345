---------------------------- MODULE AvtpReceive ----------------------------
(***************************************************************************)
(* From the octets a socket returned to the messages in them: the IsValid  *)
(* functions of the stream formats under include/avtp, and the loop of     *)
(* avtp_to_can (examples/acf-can/acf-can-common.c) over the ACF CAN        *)
(* messages of a TSCF or NTSCF PDU.  AcfCanPdu treats a PDU as a record of *)
(* whole messages; here the lengths are what is modelled: those the        *)
(* headers declare, those the sender really put there, and the number of   *)
(* octets received.                                                        *)
(*                                                                         *)
(* A PDU is made by a talker of this repository or by someone else, is cut *)
(* short or padded on its way, and is validated and read.  Message headers *)
(* of someone else's PDU are chosen when the loop reads them.              *)
(*                                                                         *)
(* Links       CAN links: [api, udp, fd, lengths, messages]: the message   *)
(*             format (AVTP_CAN_API, one of the four CAN formats), whether *)
(*             PDUs start with an encapsulation number, whether the talker *)
(*             sends CAN FD, its payload lengths, and ACF headers of other *)
(*             senders (big: an identifier above 0x7FF without EFF flag)   *)
(* Payloads    octets media talkers put behind the header                  *)
(* Foreign     stream headers of other senders                             *)
(* Extra       how many octets more (or less) than were sent arrive        *)
(***************************************************************************)
EXTENDS Integers, Sequences

CONSTANTS Links, MaxFrames, MaxPdu, Payloads, Foreign, Extra

\* The values of an unsigned field or type.
Below(k) == {x \in Nat : x < k}
U16 == Below(65536)

\* A stream header as far as every reader looks at it: subtype, version, data
\* length, and whether it carries the reader's stream id.
Subtypes == {"none", "TSCF", "NTSCF", "AAF", "CVF", "RVF", "CRF"}
IsStreamHeader(hd) ==
    hd.sub \in Subtypes /\ hd.ver \in Below(8) /\ hd.len \in U16 /\ hd.mine \in BOOLEAN

\* The length bookkeeping of one ACF message; only its operators are used.
Acf == INSTANCE AcfMessage
       WITH Formats <- <<>>, Payloads <- {}, Sensors <- {}, Forged <- {}, Sizes <- {},
            fmt <- "", h <- 0, made <- FALSE, n <- 0, clean <- 0, size <- 0,
            accepted <- FALSE

\* An ACF header as avtp_to_can looks at it.
MessageHeader == [type : Below(128), len : Below(512), pad : Below(4), fdf : BOOLEAN, num : Below(128),
                  sz : Below(4), big : BOOLEAN]

\* The four CAN formats (AVTP_CAN_API).
CanApi == [hdr : {8, 16}, type : Below(128), kind : {"padded"}, ret : {256}, max : {8}, maxFd : {64}]

\* The longest ACF CAN message, and the values of the NTSCF data length, which
\* hold those of a PDU (MAX_CAN_FRAMES_IN_ACF is 15).
LongestMessage == 16 + 64
NtscfLengths == 2048

ASSUME ReceiveConstants ==
    /\ \A l \in Links :
          /\ l.api \in CanApi /\ l.udp \in BOOLEAN /\ l.fd \in BOOLEAN
          /\ l.lengths \subseteq 0 .. (IF l.fd THEN l.api.maxFd ELSE l.api.max)
          /\ l.messages \subseteq MessageHeader
    /\ MaxFrames \in Nat \ {0} /\ LongestMessage * MaxFrames < NtscfLengths
    /\ MaxPdu \in Nat /\ Payloads \subseteq Nat /\ Extra \subseteq Int
    /\ \A hd \in Foreign : IsStreamHeader(hd)

VARIABLES
    link,       \* the link in use
    pdu,        \* the stream header: subtype, version, data length, PCM fields
    own,        \* made by a talker of this repository
    sent,       \* the octets the sender put on the wire
    msgs, at,   \* the ACF headers in it and where they begin (own CAN PDUs)
    pc,         \* "idle", "pack", "sent", "received", "walk", "done"
    size,       \* the octets received
    proc_bytes, msg_length,     \* of avtp_to_can (uint16_t)
    upto,       \* how far into the buffer the receiver has read
    out,        \* the payload lengths of the frames recovered so far
    reader,     \* who has the PDU: IsValid of a format, or avtp_to_can
    result      \* what it returned (IsValid: 0 or 1)

vars == <<link, pdu, own, sent, msgs, at, pc, size, proc_bytes, msg_length, upto, out, reader,
          result>>

---------------------------------------------------------------------------
(* The stream headers *)

\* sub: subtype;  hdr: header octets of version 0 and 1;  cap: values of the data
\* length field;  least, unit: what IsValid demands of the data length.
Common(sub) == [sub |-> sub, hdr |-> <<24, 40>>, cap |-> 65536, least |-> 0, unit |-> 1]

Tscf  == Common("TSCF")
Ntscf == [sub |-> "NTSCF", hdr |-> <<12, 28>>, cap |-> NtscfLengths, least |-> 0, unit |-> 1]
Aaf   == Common("AAF")
Pcm   == Common("AAF")
Cvf   == Common("CVF")
Rvf   == [Common("RVF") EXCEPT !.least = 8]
Crf   == [sub |-> "CRF", hdr |-> <<20, 36>>, cap |-> 65536, least |-> 1, unit |-> 8]

Format == [Tscf |-> Tscf, Ntscf |-> Ntscf, Aaf |-> Aaf, Pcm |-> Pcm, Cvf |-> Cvf,
           Rvf |-> Rvf, Crf |-> Crf]

\* The enumeration of the PCM formats (0 USER, 1 FLOAT_32BIT, 2 INT_32BIT,
\* 3 INT_24BIT, 4 INT_16BIT) and the bit depths that go with them.
DepthFits(format, depth) ==
    CASE format = 0 -> TRUE
      [] format = 1 -> depth = 32
      [] format = 2 -> depth <= 32
      [] format = 3 -> depth <= 24
      [] format = 4 -> depth <= 16
      [] OTHER -> FALSE

PcmRules(hd) == hd.channels # 0 /\ hd.depth # 0 /\ DepthFits(hd.format, hd.depth)

\* Avtp_X_GetHeaderLen: any version but 1 is read as version 0.
HeaderLen(f, hd) == IF hd.ver = 1 THEN Format[f].hdr[2] ELSE Format[f].hdr[1]

\* Avtp_AvtpduVersion_IsSupported with the mask that all formats have.
IsSupported(ver) == ver \in {0, 1}

\* Mutant of IsValid: the declared length is compared with the whole buffer.
IsValid_HeaderForgotten(f, hd, bufferSize) ==
    /\ hd.sub = Format[f].sub
    /\ IsSupported(hd.ver)
    /\ bufferSize >= HeaderLen(f, hd)
    /\ hd.len >= Format[f].least /\ hd.len % Format[f].unit = 0
    /\ hd.len <= bufferSize
    /\ f = "Pcm" => PcmRules(hd)

\* Mutant of IsValid: a buffer that ends with the data is refused.
IsValid_Strict(f, hd, bufferSize) ==
    /\ hd.sub = Format[f].sub
    /\ IsSupported(hd.ver)
    /\ bufferSize >= HeaderLen(f, hd)
    /\ hd.len >= Format[f].least /\ hd.len % Format[f].unit = 0
    /\ hd.len < bufferSize - HeaderLen(f, hd)
    /\ f = "Pcm" => PcmRules(hd)

IsValid(f, hd, bufferSize) ==
    /\ hd.sub = Format[f].sub
    /\ IsSupported(hd.ver)
    /\ bufferSize >= HeaderLen(f, hd)
    /\ hd.len >= Format[f].least /\ hd.len % Format[f].unit = 0
    /\ hd.len <= bufferSize - HeaderLen(f, hd)
    /\ f = "Pcm" => PcmRules(hd)

\* The octets of the header that IsValid looks at: subtype and version come
\* before the comparison with the buffer size.
Inspected(f, hd, bufferSize) ==
    IF hd.sub = Format[f].sub /\ IsSupported(hd.ver) /\ bufferSize >= HeaderLen(f, hd)
    THEN HeaderLen(f, hd) ELSE 2

---------------------------------------------------------------------------
(* Sending *)

Udp == IF link.udp THEN 4 ELSE 0

Blank == [sub |-> "none", ver |-> 0, len |-> 0, format |-> 4, channels |-> 1, depth |-> 16,
          mine |-> TRUE]

Init ==
    /\ link \in Links
    /\ pdu = Blank /\ own = FALSE /\ sent = 0 /\ msgs = <<>> /\ at = <<>>
    /\ pc = "idle" /\ size = 0 /\ proc_bytes = 0 /\ msg_length = 0
    /\ upto = 0 /\ out = <<>> /\ reader = "none" /\ result = 0

\* Avtp_X_Init and the setter of the data length, which takes a uint16_t; the
\* examples send 16-bit PCM.
Header(f, ver, octets) ==
    [sub |-> Format[f].sub, ver |-> ver, len |-> (octets % 65536) % Format[f].cap,
     format |-> 4, channels |-> 1, depth |-> 16, mine |-> TRUE]

\* A talker fills header and payload: Init, SetPayload, SetStreamDataLength.
Create(f, ver, octets) ==
    /\ pc = "idle"
    /\ pdu' = Header(f, ver, octets)
    /\ own' = TRUE
    /\ sent' = HeaderLen(f, pdu') + octets
    /\ pc' = "sent"
    /\ UNCHANGED <<link, msgs, at, size, proc_bytes, msg_length, upto, out, reader, result>>

\* prepare_acf_packet: the ACF header for a CAN payload of `octets'.
AcfHeader(octets) ==
    Acf!SetPayloadLength(link.api, [type |-> link.api.type, len |-> 0, pad |-> 0, fdf |-> link.fd,
                               num |-> 0, sz |-> 0, big |-> FALSE], octets)

\* can_to_avtp up to its loop: init_cf_pdu.
can_to_avtp(f, ver) ==
    /\ pc = "idle"
    /\ pdu' = Header(f, ver, 0) /\ own' = TRUE
    /\ sent' = Udp + HeaderLen(f, pdu')
    /\ pc' = "pack"
    /\ UNCHANGED <<link, msgs, at, size, proc_bytes, msg_length, upto, out, reader, result>>

\* A turn of its loop; pdu_length is a uint16_t.
prepare_acf_packet(octets) ==
    /\ pc = "pack" /\ Len(msgs) < MaxFrames
    /\ msgs' = Append(msgs, AcfHeader(octets)) /\ at' = Append(at, sent)
    /\ sent' = (sent + Acf!AcfMsgLengthInBytes(AcfHeader(octets))) % 65536
    /\ UNCHANGED <<link, pdu, own, pc, size, proc_bytes, msg_length, upto, out, reader, result>>

\* The control formats that have the subtype of the PDU.
ControlFormats == {"Tscf", "Ntscf"}
Claimed == {f \in ControlFormats : Format[f].sub = pdu.sub}

\* The data length is what is behind the control header; the PDU is sent.
update_cf_length(f) ==
    /\ pc = "pack" /\ msgs # <<>> /\ f \in Claimed
    /\ pdu' = Header(f, pdu.ver, sent - Udp - HeaderLen(f, pdu))
    /\ pc' = "sent"
    /\ UNCHANGED <<link, own, sent, msgs, at, size, proc_bytes, msg_length, upto, out, reader,
                   result>>

\* Someone else's PDU.
Forge(hd, octets) ==
    /\ pc = "idle"
    /\ pdu' = hd
    /\ sent' = octets
    /\ pc' = "sent"
    /\ UNCHANGED <<link, own, msgs, at, size, proc_bytes, msg_length, upto, out, reader, result>>

\* The network delivers the PDU whole, cut short or padded to the least size of
\* an Ethernet frame; recv() never returns more than the buffer holds.
Arrive(extra) ==
    /\ pc = "sent"
    /\ sent + extra \in 0 .. MaxPdu
    /\ size' = sent + extra
    /\ pc' = "received"
    /\ UNCHANGED <<link, pdu, own, sent, msgs, at, proc_bytes, msg_length, upto, out, reader, result>>

---------------------------------------------------------------------------
(* Receiving *)

Finish(res) == pc' = "done" /\ result' = res

\* A reader of one format validates the PDU and, if it is accepted, reads data
\* and data length.  Readers have received the two octets of subtype and version.
Validate(f) ==
    LET ok == IsValid(f, pdu, size) IN
    /\ pc = "received" /\ ~link.udp /\ size >= 2
    /\ reader' = f
    /\ upto' = IF ok THEN HeaderLen(f, pdu) + pdu.len ELSE Inspected(f, pdu, size)
    /\ Finish(IF ok THEN 1 ELSE 0)
    /\ UNCHANGED <<link, pdu, own, sent, msgs, at, size, proc_bytes, msg_length, out>>

\* avtp_to_can up to its loop.
ReceiveTruncated ==
    /\ pc = "received" /\ size < Udp + 2
    /\ reader' = "avtp_to_can"
    /\ upto' = IF size < Udp THEN 0 ELSE Udp
    /\ Finish(-1)
    /\ UNCHANGED <<link, pdu, own, sent, msgs, at, size, proc_bytes, msg_length, out>>

ReceiveRefused ==
    /\ pc = "received" /\ size >= Udp + 2
    /\ reader' = "avtp_to_can"
    /\ \A f \in Claimed : ~IsValid(f, pdu, size - Udp) \/ ~pdu.mine
    /\ upto' = IF Claimed = {} THEN Udp + 2
               ELSE Udp + Inspected(CHOOSE f \in Claimed : TRUE, pdu, size - Udp)
    /\ Finish(-1)
    /\ UNCHANGED <<link, pdu, own, sent, msgs, at, size, proc_bytes, msg_length, out>>

\* Mutant of ReceiveAccepted: the end is taken from the octets received.
ReceiveAccepted_ToEnd(f) ==
    /\ pc = "received" /\ size >= Udp + 2
    /\ reader' = "avtp_to_can"
    /\ f \in Claimed /\ IsValid(f, pdu, size - Udp) /\ pdu.mine
    /\ proc_bytes' = (Udp + HeaderLen(f, pdu)) % 65536
    /\ msg_length' = size
    /\ upto' = proc_bytes'
    /\ pc' = "walk"
    /\ UNCHANGED <<link, pdu, own, sent, msgs, at, size, out, result>>

ReceiveAccepted(f) ==
    /\ pc = "received" /\ size >= Udp + 2
    /\ reader' = "avtp_to_can"
    /\ f \in Claimed /\ IsValid(f, pdu, size - Udp) /\ pdu.mine
    /\ proc_bytes' = (Udp + HeaderLen(f, pdu)) % 65536
    /\ msg_length' = (Udp + pdu.len + HeaderLen(f, pdu)) % 65536
    /\ upto' = proc_bytes'
    /\ pc' = "walk"
    /\ UNCHANGED <<link, pdu, own, sent, msgs, at, size, out, result>>

\* The header at proc_bytes: the message that a talker of this repository put
\* there; anything in the padding and in someone else's PDU.
HeadersAt ==
    LET here == {k \in DOMAIN at : at[k] = proc_bytes} IN
    IF own /\ here # {} THEN {msgs[k] : k \in here} ELSE link.messages

\* The check of the message against what the control format declares to be left.
Acceptable(msg) == Acf!IsValid(link.api, msg, msg_length - proc_bytes)

\* How far the loop reads: nothing of a message whose header is not all there.
MessageRead(msg) ==
    IF msg_length - proc_bytes < link.api.hdr THEN proc_bytes
    ELSE IF Acceptable(msg) THEN proc_bytes + link.api.hdr + Acf!GetPayloadLength(link.api, msg)
    ELSE proc_bytes + link.api.hdr

\* Mutant of Message: an invalid message is skipped, but not stepped over.
Message_Skip(msg) ==
    /\ pc = "walk" /\ proc_bytes < msg_length
    /\ upto' = IF MessageRead(msg) > upto THEN MessageRead(msg) ELSE upto
    /\ IF ~Acceptable(msg) THEN UNCHANGED <<pc, result, proc_bytes, out>>
       ELSE /\ proc_bytes' = (proc_bytes + Acf!AcfMsgLengthInBytes(msg)) % 65536
            /\ IF Len(out) >= MaxFrames \/ msg.big THEN Finish(-1) /\ UNCHANGED out
               ELSE out' = Append(out, Acf!GetPayloadLength(link.api, msg)) /\ UNCHANGED <<pc, result>>
    /\ UNCHANGED <<link, pdu, own, sent, msgs, at, size, msg_length, reader>>

\* One turn of the loop of avtp_to_can.
Message(msg) ==
    /\ pc = "walk" /\ proc_bytes < msg_length
    /\ upto' = IF MessageRead(msg) > upto THEN MessageRead(msg) ELSE upto
    /\ IF ~Acceptable(msg) THEN Finish(-1) /\ UNCHANGED <<proc_bytes, out>>
       ELSE /\ proc_bytes' = (proc_bytes + Acf!AcfMsgLengthInBytes(msg)) % 65536
            /\ IF Len(out) >= MaxFrames \/ msg.big THEN Finish(-1) /\ UNCHANGED out
               ELSE out' = Append(out, Acf!GetPayloadLength(link.api, msg)) /\ UNCHANGED <<pc, result>>
    /\ UNCHANGED <<link, pdu, own, sent, msgs, at, size, msg_length, reader>>

Return ==
    /\ pc = "walk" /\ proc_bytes >= msg_length
    /\ Finish(Len(out))
    /\ UNCHANGED <<link, pdu, own, sent, msgs, at, size, proc_bytes, msg_length, upto, out, reader>>

\* The buffers are used for the next PDU.
Reuse ==
    /\ pc = "done"
    /\ pdu' = Blank /\ own' = FALSE /\ sent' = 0 /\ msgs' = <<>> /\ at' = <<>>
    /\ pc' = "idle" /\ size' = 0 /\ proc_bytes' = 0 /\ msg_length' = 0
    /\ upto' = 0 /\ out' = <<>> /\ reader' = "none" /\ result' = 0
    /\ UNCHANGED link

Walk == (\E msg \in HeadersAt : Message(msg)) \/ Return

Next ==
    \/ \E f \in DOMAIN Format, ver \in {0, 1}, k \in Payloads : ~link.udp /\ Create(f, ver, k)
    \/ \E f \in ControlFormats, ver \in {0, 1} : can_to_avtp(f, ver)
    \/ \E octets \in link.lengths : prepare_acf_packet(octets)
    \/ \E f \in ControlFormats : update_cf_length(f)
    \/ \E hd \in Foreign, k \in Payloads : Forge(hd, k)
    \/ \E extra \in Extra : Arrive(extra)
    \/ \E f \in DOMAIN Format : Validate(f)
    \/ ReceiveTruncated
    \/ ReceiveRefused
    \/ \E f \in ControlFormats : ReceiveAccepted(f)
    \/ Walk
    \/ Reuse

\* The receiving thread runs on once it has a PDU.
Spec == Init /\ [][Next]_vars /\ WF_vars(Walk)

---------------------------------------------------------------------------
(* Properties *)

\* Octet counts keep to the buffer, results to the C types.
TypeOK ==
    /\ link \in Links /\ own \in BOOLEAN /\ sent \in Nat /\ size \in 0 .. MaxPdu
    /\ pc \in {"idle", "pack", "sent", "received", "walk", "done"}
    /\ proc_bytes \in U16 /\ msg_length \in U16
    /\ Len(out) <= MaxFrames /\ result \in -1 .. (MaxFrames + 1)
    /\ reader \in DOMAIN Format \cup {"none", "avtp_to_can"}

\* docs/api-design.md: "If Avtp_<Format>_IsValid(pdu, bufferSize) returns true, then
\* every getter on that format is safe to call and will never overread the buffer";
\* and avtp_to_can: "msg_length can never exceed the received frame".  Whatever the
\* headers declare, nothing that was not received is read.
ReadsReceivedOnly == upto <= size /\ (pc = "walk" => msg_length <= size)

\* Octets, indices and results stay inside buffer, frame array and C types.
ReceiveInv == TypeOK /\ ReadsReceivedOnly

\* The formats that can express the sender's PDU.
Expressible(f) ==
    LET octets == sent - HeaderLen(f, pdu) IN
    /\ pdu.sub = Format[f].sub
    /\ octets < Format[f].cap /\ octets >= Format[f].least /\ octets % Format[f].unit = 0

\* A PDU that a talker of this repository made is accepted by IsValid of its format
\* if all of it arrived, padded or not, and refused if it was cut short.
AcceptedIffWhole ==
    pc = "done" /\ own /\ reader \in DOMAIN Format =>
        (Expressible(reader) => (result = 1 <=> size >= sent))

\* avtp_to_can undoes can_to_avtp: of a PDU that arrived whole, padded or not, it
\* finds each message, with the payload length it was given; of a PDU that was cut
\* short it delivers none.
MessagesRecovered ==
    pc = "done" /\ msgs # <<>> /\ reader = "avtp_to_can" =>
        IF size < sent THEN result = -1
        ELSE /\ result = Len(msgs)
             /\ \A k \in DOMAIN msgs :
                   Acf!SetPayloadLength(link.api, msgs[k], out[k]) = msgs[k]

\* The loop over the messages of a PDU ends, whatever their headers declare.
WalkEnds == pc = "walk" ~> pc = "done"
=============================================================================
