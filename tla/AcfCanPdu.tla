----------------------------- MODULE AcfCanPdu -----------------------------
(***************************************************************************)
(* The conversion between CAN frames and AVTPDUs that the CAN examples     *)
(* share: can_to_avtp and avtp_to_can of examples/acf-can/acf-can-common.c *)
(* A CAN frame is a record of its identifier, its flags and its payload;   *)
(* a PDU is a record of what avtp_to_can looks at:                         *)
(*                                                                         *)
(*   kind   what is left of the headers: "cf" a TSCF or NTSCF header that  *)
(*          IsValid accepts; "invalid" one it refuses; "other" another     *)
(*          subtype; "short" fewer than two octets after the UDP header;   *)
(*          "shortudp" not even a whole UDP header                         *)
(*   udp    encapsulation sequence number                                  *)
(*   ver, seq, sid    version, sequence number and stream id               *)
(*   msgs   the ACF messages; ok: the CAN message passes IsValid           *)
(*   from, k          not on the wire: which run of which talker made the  *)
(*                    PDU (0: not ours), and how many it had made before   *)
(*                                                                         *)
(* CtrMod     values of a uint32_t sequence counter (2^32)                 *)
(* SeqMod     values of the version 0 sequence_num field (2^8)             *)
(* MaxFrames  MAX_CAN_FRAMES_IN_ACF (15)                                   *)
(* StdMax     largest standard identifier (0x7FF)                          *)
(* Streams    stream ids                                                   *)
(* StreamId   the one the listener follows                                 *)
(***************************************************************************)
EXTENDS Integers, Sequences

CONSTANTS CtrMod, SeqMod, MaxFrames, StdMax, Streams, StreamId

ASSUME PduConstants ==
    /\ CtrMod \in Nat \ {0} /\ SeqMod \in Nat \ {0} /\ CtrMod % SeqMod = 0
    /\ MaxFrames \in Nat \ {0} /\ StdMax \in Nat /\ StreamId \in Streams

Counter == 0 .. CtrMod - 1

\* Payloads are numbered.  0 is that of no frame that was read, Oversized one whose
\* length octet is more than the message format allows.
Oversized == -1
Data == Nat \cup {Oversized}

Frame == [id : Nat, eff : BOOLEAN, rtr : BOOLEAN, fdf : BOOLEAN, brs : BOOLEAN,
          esi : BOOLEAN, data : Data]

Message == [id : Nat, eff : BOOLEAN, rtr : BOOLEAN, fdf : BOOLEAN, brs : BOOLEAN,
            esi : BOOLEAN, ok : BOOLEAN, data : Data]

Pdu == [udp : Counter, ver : {0, 1}, kind : {"cf", "invalid", "other", "short", "shortudp"},
        sid : Streams, msgs : Seq(Message), seq : Counter, from : Nat, k : Nat]

\* A frame_t after memset.
Blank == [id |-> 0, eff |-> FALSE, rtr |-> FALSE, fdf |-> FALSE, brs |-> FALSE,
          esi |-> FALSE, data |-> 0]

---------------------------------------------------------------------------
(* CAN to AVTP *)

\* Avtp_Can_CreateAcfMessage sets EFF by the size of the identifier; FDF is set
\* for all frames of a CAN FD socket; the other flags are copied.
prepare_acf_packet(frame, can_fd) ==
    [id   |-> frame.id,
     eff  |-> frame.id > StdMax,
     rtr  |-> frame.rtr,
     fdf  |-> can_fd,
     brs  |-> can_fd /\ frame.brs,
     esi  |-> can_fd /\ frame.esi,
     ok   |-> frame.data # Oversized,
     data |-> frame.data]

\* sequence_num as it is stored by the setter of the header's version.
OnWire(ver, ctr) == IF ver = 0 THEN ctr % SeqMod ELSE ctr

\* Mutant of can_to_avtp: the first frame of the array is packed each time.
can_to_avtp_First(can_frames, can_fd, use_udp, ver, num_acf_msgs, cf_seq_num, udp_seq_num) ==
    [udp  |-> IF use_udp THEN udp_seq_num ELSE 0, ver |-> ver, kind |-> "cf", sid |-> StreamId,
     msgs |-> [i \in 1 .. num_acf_msgs |-> prepare_acf_packet(can_frames[1], can_fd)],
     seq  |-> OnWire(ver, cf_seq_num)]

can_to_avtp(can_frames, can_fd, use_udp, ver, num_acf_msgs, cf_seq_num, udp_seq_num) ==
    [udp  |-> IF use_udp THEN udp_seq_num ELSE 0,
     ver  |-> ver,
     kind |-> "cf",
     sid  |-> StreamId,
     msgs |-> [i \in 1 .. num_acf_msgs |-> prepare_acf_packet(can_frames[i], can_fd)],
     seq  |-> OnWire(ver, cf_seq_num)]

---------------------------------------------------------------------------
(* AVTP to CAN *)

\* Mutant of Masked: version 0 is compared in full.
Masked_Not(ver, x) == x

\* seq_mask: version 0 is compared modulo 2^8, version 1 in full.
Masked(ver, x) == IF ver = 0 THEN x % SeqMod ELSE x

HasUdpHeader(pdu, use_udp) == use_udp /\ pdu.kind # "shortudp"

\* The PDUs that get as far as the check of the control format's number.
Followed(pdu) == pdu.kind = "cf" /\ pdu.sid = StreamId

UdpMismatch(pdu, use_udp, exp) == HasUdpHeader(pdu, use_udp) /\ pdu.udp # exp

CfMismatch(pdu, exp) ==
    Followed(pdu) /\ Masked(pdu.ver, pdu.seq) # Masked(pdu.ver, exp)

\* *exp_udp_seqnum and *exp_cf_seqnum when avtp_to_can returns.
ExpUdpAfter(pdu, use_udp, exp) == IF UdpMismatch(pdu, use_udp, exp) THEN pdu.udp ELSE exp

\* Mutant of ExpCfAfter: no resynchronisation after a mismatch.
ExpCfAfter_Stuck(pdu, exp) == exp

ExpCfAfter(pdu, exp) == IF CfMismatch(pdu, exp) THEN pdu.seq ELSE exp

\* Mutant of Cleared: the memset is missing.
Cleared_Not(slot) == slot

\* memset(frame, 0, sizeof(*frame))
Cleared(slot) == Blank

NeedsEff(msg) == ~msg.eff /\ msg.id > StdMax

\* Mutant of Bad: the number of frames is not limited to the array.
Bad_NoLimit(pdu) == {i \in DOMAIN pdu.msgs : ~pdu.msgs[i].ok \/ NeedsEff(pdu.msgs[i])}

\* The messages at which the loop gives up.
Bad(pdu) ==
    {i \in DOMAIN pdu.msgs : ~pdu.msgs[i].ok \/ i > MaxFrames \/ NeedsEff(pdu.msgs[i])}

\* The flag handling only ever sets bits of the cleared slot.
Unpacked(slot, msg, can_fd) ==
    [id   |-> msg.id,
     eff  |-> msg.eff,
     rtr  |-> msg.rtr,
     fdf  |-> slot.fdf \/ (can_fd /\ msg.fdf),
     brs  |-> slot.brs \/ (can_fd /\ msg.brs),
     esi  |-> slot.esi \/ (can_fd /\ msg.esi),
     data |-> msg.data]

\* can_frames when avtp_to_can returns: filled up to the first bad message,
\* whose own slot is already cleared if only its identifier is wrong.
SlotsAfter(pdu, slots, can_fd) ==
    IF ~Followed(pdu) THEN slots
    ELSE [i \in 1 .. MaxFrames |->
            IF i \notin DOMAIN pdu.msgs \/ (\E j \in Bad(pdu) : j < i) THEN slots[i]
            ELSE IF i \notin Bad(pdu) THEN Unpacked(Cleared(slots[i]), pdu.msgs[i], can_fd)
            ELSE IF pdu.msgs[i].ok THEN Cleared(slots[i]) ELSE slots[i]]

\* Mutant of Recovered: an invalid message ends the loop instead of the function.
Recovered_Break(pdu) ==
    IF ~Followed(pdu) THEN -1
    ELSE IF Bad(pdu) = {} THEN Len(pdu.msgs)
    ELSE LET first == CHOOSE i \in Bad(pdu) : \A j \in Bad(pdu) : i <= j
         IN IF pdu.msgs[first].ok THEN -1 ELSE first - 1

\* The result of avtp_to_can.
Recovered(pdu) == IF Followed(pdu) /\ Bad(pdu) = {} THEN Len(pdu.msgs) ELSE -1
=============================================================================
