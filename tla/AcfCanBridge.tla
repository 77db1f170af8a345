---------------------------- MODULE AcfCanBridge ----------------------------
(***************************************************************************)
(* A CAN bus bridged over an AVTP network by the examples under            *)
(* examples/acf-can/linux: the talker thread (can_to_avtp_runnable of      *)
(* acf-can-bridge, the loop of acf-can-talker) reads frames from the CAN   *)
(* socket and sends them in batches; the listener thread                   *)
(* (avtp_to_can_runnable, acf-can-listener) takes PDUs from the network    *)
(* socket and writes their frames to the far CAN bus.  Between the two is  *)
(* a network that loses, duplicates, reorders, damages and mixes in PDUs;  *)
(* either program can be restarted.                                        *)
(*                                                                         *)
(* Configs    command lines and their surroundings, as records:            *)
(*              num, fd, udp, ver  frames per PDU and the options          *)
(*              app        the listening program                           *)
(*              traffic    the frames on the CAN bus, without payload      *)
(*              leftovers  what can_frames, not initialised, may hold      *)
(*              strays     PDUs from other senders                         *)
(*              faults     what may go wrong                               *)
(*              reads      bound: frames read                              *)
(* MaxReads, MaxEpochs, NetSize   bounds: of `reads', runs of a talker,    *)
(*            PDUs in the network (and one stray PDU besides)              *)
(***************************************************************************)
EXTENDS AcfCanPdu, FiniteSets

CONSTANTS Configs, MaxReads, MaxEpochs, NetSize

ASSUME BridgeConstants ==
    /\ \A c \in Configs :
          /\ c.num \in 1 .. MaxFrames /\ c.ver \in {0, 1}
          /\ c.fd \in BOOLEAN /\ c.udp \in BOOLEAN /\ c.app \in {"bridge", "listener"}
          /\ \A t \in c.traffic :
                /\ t.id \in Nat /\ t.eff \in BOOLEAN /\ t.rtr \in BOOLEAN
                /\ t.fdf \in BOOLEAN /\ t.brs \in BOOLEAN /\ t.esi \in BOOLEAN
          /\ c.leftovers # {} /\ c.leftovers \subseteq Frame
          /\ \A f \in c.leftovers : f.data \in {0, Oversized}
          /\ c.strays \subseteq Pdu /\ \A s \in c.strays : s.from = 0
          /\ c.faults \subseteq {"read", "send", "lose", "duplicate", "reorder", "damage",
                                "stray", "write", "restart"}
          /\ c.reads \in 0 .. MaxReads
    /\ MaxReads \in Nat /\ MaxEpochs \in Nat /\ NetSize \in Nat

\* A stream has one talker: what other senders put on the network under its
\* stream id is not a whole PDU of frames (the listener cannot tell those apart).
ASSUME OneTalker ==
    \A c \in Configs : \A s \in c.strays :
        Followed(s) => \/ s.msgs = <<>> \/ Len(s.msgs) > MaxFrames
                       \/ \E i \in DOMAIN s.msgs : ~s.msgs[i].ok \/ NeedsEff(s.msgs[i])

VARIABLES
    cfg,
    \* talker
    tx,         \* can_frames[num_acf_msgs]
    txI,        \* i: frames of the batch read so far
    cfSeq,      \* cf_seq_num
    udpSeq,     \* udp_seq_num
    \* network
    net,        \* the PDUs in it
    \* listener
    rx,         \* can_frames[MAX_CAN_FRAMES_IN_ACF]
    rxN,        \* num_can_msgs of the PDU being written out
    rxI,        \* i: frames of it already written
    expCf,      \* exp_cf_seqnum
    expUdp,     \* exp_udp_seqnum
    cfAlarm,    \* "Incorrect sequence num." logged for the last PDU
    udpAlarm,   \* "Incorrect UDP sequence num." logged for the last PDU
    \* history, read by no program
    reads,      \* frames read from the CAN socket, in order
    written,    \* frames written to the far CAN bus, in order
    epoch,      \* runs of the talker so far
    sent,       \* PDUs made in this run
    due,        \* [from, k] of the PDU that would continue the stream
    happened    \* the faults that have occurred

talker == <<tx, txI, cfSeq, udpSeq>>
listener == <<rx, rxN, rxI, expCf, expUdp, cfAlarm, udpAlarm>>
history == <<reads, written, epoch, sent, due, happened>>
vars == <<cfg, talker, net, listener, history>>

Empty == [i \in 1 .. MaxFrames |-> Blank]

Init ==
    /\ cfg \in Configs
    /\ tx \in [1 .. cfg.num -> cfg.leftovers] /\ txI = 0 /\ cfSeq = 0 /\ udpSeq = 0
    /\ net = {}
    /\ rx = Empty /\ rxN = 0 /\ rxI = 0 /\ expCf = 0 /\ expUdp = 0
    /\ cfAlarm = FALSE /\ udpAlarm = FALSE
    /\ reads = <<>> /\ written = <<>> /\ epoch = 1 /\ sent = 0
    /\ due = [from |-> 1, k |-> 0] /\ happened = {}

---------------------------------------------------------------------------
(* The talker *)

\* read() returned a frame: store it in the batch.
ReadFrame(kind) ==
    /\ txI < cfg.num /\ Len(reads) < cfg.reads
    /\ LET frame == [id |-> kind.id, eff |-> kind.eff, rtr |-> kind.rtr,
                     fdf |-> cfg.fd /\ kind.fdf, brs |-> cfg.fd /\ kind.brs,
                     esi |-> cfg.fd /\ kind.esi, data |-> Len(reads) + 1]
       IN /\ tx' = [tx EXCEPT ![txI + 1] = frame]
          /\ reads' = Append(reads, frame)
    /\ txI' = txI + 1
    /\ UNCHANGED <<cfg, cfSeq, udpSeq, net, listener, written, epoch, sent, due, happened>>

\* read() failed with -1: only 0 is tested, so the slot counts as read, with
\* whatever it holds (once in a behaviour: the bound).
ReadFails ==
    /\ "read" \in cfg.faults \ happened
    /\ txI < cfg.num
    /\ txI' = txI + 1
    /\ happened' = happened \cup {"read"}
    /\ UNCHANGED <<cfg, tx, cfSeq, udpSeq, net, listener, reads, written, epoch, sent, due>>

\* can_to_avtp with cf_seq_num++ and udp_seq_num++, then sendto; the counters
\* advance whether it succeeds or not.
Pack ==
    LET pdu == can_to_avtp(tx, cfg.fd, cfg.udp, cfg.ver, cfg.num, cfSeq, udpSeq)
    IN [udp |-> pdu.udp, ver |-> pdu.ver, kind |-> pdu.kind, sid |-> pdu.sid,
        msgs |-> pdu.msgs, seq |-> pdu.seq, from |-> epoch, k |-> sent]

SendPdu(ok) ==
    /\ txI = cfg.num
    /\ Cardinality({q \in net : q.from # 0}) < NetSize
    /\ net' = IF ok THEN net \cup {Pack} ELSE net
    /\ cfSeq' = (cfSeq + 1) % CtrMod
    /\ udpSeq' = (udpSeq + 1) % CtrMod
    /\ txI' = 0
    /\ sent' = sent + 1
    /\ happened' = IF ok THEN happened ELSE happened \cup {"send"}
    /\ UNCHANGED <<cfg, tx, listener, reads, written, epoch, due>>

Send == SendPdu(TRUE)

SendFails == "send" \in cfg.faults /\ SendPdu(FALSE)

\* The talker is stopped and started again.
RestartTalker ==
    /\ "restart" \in cfg.faults
    /\ epoch < MaxEpochs
    /\ tx' \in [1 .. cfg.num -> cfg.leftovers] /\ txI' = 0 /\ cfSeq' = 0 /\ udpSeq' = 0
    /\ epoch' = epoch + 1 /\ sent' = 0
    /\ happened' = happened \cup {"restart"}
    /\ UNCHANGED <<cfg, net, listener, reads, written, due>>

---------------------------------------------------------------------------
(* The network *)

Lose(pdu) ==
    /\ "lose" \in cfg.faults
    /\ net' = net \ {pdu}
    /\ happened' = happened \cup {"lose"}
    /\ UNCHANGED <<cfg, talker, listener, reads, written, epoch, sent, due>>

\* An ACF message of a PDU no longer passes IsValid (those of other senders are
\* arbitrary to begin with).
Damage(pdu, i) ==
    /\ "damage" \in cfg.faults /\ pdu.from # 0
    /\ net' = (net \ {pdu}) \cup {[pdu EXCEPT !.msgs[i].ok = FALSE]}
    /\ happened' = happened \cup {"damage"}
    /\ UNCHANGED <<cfg, talker, listener, reads, written, epoch, sent, due>>

\* Another sender's PDU: "foreign" if the listener does not follow its stream.
Stray(pdu) ==
    /\ "stray" \in cfg.faults
    /\ \A q \in net : q.from # 0
    /\ net' = net \cup {pdu}
    /\ happened' = happened \cup {IF Followed(pdu) THEN "stray" ELSE "foreign"}
    /\ UNCHANGED <<cfg, talker, listener, reads, written, epoch, sent, due>>

---------------------------------------------------------------------------
(* The listener *)

\* acf-can-bridge skips PDUs with no frames, acf-can-listener counts them.
Counts(num_can_msgs) ==
    IF cfg.app = "bridge" THEN num_can_msgs > 0 ELSE num_can_msgs >= 0

Earlier(p, q) == p.from < q.from \/ (p.from = q.from /\ p.k < q.k)

InTurn(pdu) ==
    "reorder" \in cfg.faults \/ pdu.from = 0 \/ \A q \in net : q.from = 0 \/ ~Earlier(q, pdu)

\* recv, avtp_to_can, and the counting of a PDU that was accepted.
Receive(pdu, gone) ==
    /\ rxI = rxN
    /\ InTurn(pdu)
    /\ net' = IF gone THEN net \ {pdu} ELSE net
    /\ cfAlarm' = CfMismatch(pdu, expCf)
    /\ udpAlarm' = UdpMismatch(pdu, cfg.udp, expUdp)
    /\ rx' = SlotsAfter(pdu, rx, cfg.fd)
    /\ LET num_can_msgs == Recovered(pdu)
           cf == ExpCfAfter(pdu, expCf)
           udp == ExpUdpAfter(pdu, cfg.udp, expUdp)
       IN IF Counts(num_can_msgs)
          THEN /\ expCf' = (cf + 1) % CtrMod /\ expUdp' = (udp + 1) % CtrMod
               /\ rxN' = num_can_msgs /\ rxI' = 0
          ELSE expCf' = cf /\ expUdp' = udp /\ UNCHANGED <<rxN, rxI>>
    /\ due' = IF ~Followed(pdu) THEN due
              ELSE [from |-> pdu.from,
                    k |-> IF Counts(Recovered(pdu)) THEN pdu.k + 1 ELSE pdu.k]
    /\ happened' = happened \cup (IF gone THEN {} ELSE {"duplicate"})
                    \cup (IF \E q \in net : q.from # 0 /\ pdu.from # 0 /\ Earlier(q, pdu)
                          THEN {"reorder"} ELSE {})
    /\ UNCHANGED <<cfg, talker, reads, written, epoch, sent>>

\* Mutant of WriteFrame: the first frame of the array is written each time.
WriteFrame_First(ok) ==
    /\ rxI < rxN
    /\ rxI' = rxI + 1
    /\ written' = IF ok THEN Append(written, rx[1]) ELSE written
    /\ happened' = IF ok THEN happened ELSE happened \cup {"write"}
    /\ UNCHANGED <<cfg, talker, net, rx, rxN, expCf, expUdp, cfAlarm, udpAlarm,
                   reads, epoch, sent, due>>

\* write() of the next frame to the CAN socket; a failure is only logged.
WriteFrame(ok) ==
    /\ rxI < rxN
    /\ rxI' = rxI + 1
    /\ written' = IF ok THEN Append(written, rx[rxI + 1]) ELSE written
    /\ happened' = IF ok THEN happened ELSE happened \cup {"write"}
    /\ UNCHANGED <<cfg, talker, net, rx, rxN, expCf, expUdp, cfAlarm, udpAlarm,
                   reads, epoch, sent, due>>

Write == WriteFrame(TRUE)

WriteFails == "write" \in cfg.faults /\ WriteFrame(FALSE)

\* The listener is stopped and started again.
RestartListener ==
    /\ "restart" \in cfg.faults
    /\ rx' = Empty /\ rxN' = 0 /\ rxI' = 0 /\ expCf' = 0 /\ expUdp' = 0
    /\ cfAlarm' = FALSE /\ udpAlarm' = FALSE
    /\ due' = [from |-> epoch, k |-> 0]
    /\ happened' = happened \cup {"restart"}
    /\ UNCHANGED <<cfg, talker, net, reads, written, epoch, sent>>

---------------------------------------------------------------------------

Take == \E pdu \in net : pdu.from # 0 /\ Receive(pdu, TRUE)

\* The network delivers a PDU twice (once in a behaviour: the bound).
TakeCopy ==
    "duplicate" \in cfg.faults \ happened /\ \E pdu \in net : Receive(pdu, FALSE)

TakeStray == \E pdu \in net : pdu.from = 0 /\ Receive(pdu, TRUE)

Next ==
    \/ \E kind \in cfg.traffic : ReadFrame(kind)
    \/ ReadFails
    \/ Send
    \/ SendFails
    \/ RestartTalker
    \/ \E pdu \in net : Lose(pdu)
    \/ \E pdu \in net : \E i \in DOMAIN pdu.msgs : Damage(pdu, i)
    \/ \E pdu \in cfg.strays : Stray(pdu)
    \/ Take
    \/ TakeStray
    \/ TakeCopy
    \/ Write
    \/ WriteFails
    \/ RestartListener

Spec == Init /\ [][Next]_vars

\* Both threads run, and the network socket hands out what it queues: other
\* senders' PDUs cannot keep it from handing out the talker's.
FairSpec == Spec /\ WF_vars(Send) /\ WF_vars(Take) /\ WF_vars(Write)

---------------------------------------------------------------------------
(* Properties *)

\* The arrays hold frames, the counters and indices keep to their ranges.
TypeOK ==
    /\ cfg \in Configs
    /\ tx \in [1 .. cfg.num -> Frame] /\ txI \in 0 .. cfg.num
    /\ cfSeq \in Counter /\ udpSeq \in Counter
    /\ net \subseteq Pdu
    /\ rx \in [1 .. MaxFrames -> Frame] /\ rxN \in 0 .. MaxFrames /\ rxI \in 0 .. rxN
    /\ expCf \in Counter /\ expUdp \in Counter
    /\ cfAlarm \in BOOLEAN /\ udpAlarm \in BOOLEAN
    /\ reads \in Seq(Frame) /\ written \in Seq(Frame)
    /\ epoch \in Nat \ {0} /\ sent \in Nat /\ due \in [from : Nat, k : Nat]

\* As long as nothing happens to the stream the listener never reports a wrong
\* sequence number, however often the 8-bit and the 32-bit numbers wrap.  PDUs
\* of other streams and formats do not disturb the control format's number (they
\* do disturb the UDP number, which is checked before the stream is known).
NoFalseAlarm ==
    /\ cfAlarm => ~(happened \subseteq {"foreign", "write"})
    /\ udpAlarm => ~(happened \subseteq {"write"})

Modulus == IF cfg.ver = 0 THEN SeqMod ELSE CtrMod

\* avtp_to_can reports a wrong sequence number exactly if the PDU does not
\* continue the stream: any number of PDUs lost, repeated or overtaken since the
\* last one shows, unless it is a multiple of the range of the field; and after
\* a report the listener is in step again with the stream as it now is.
GapsReported ==
    [][\A pdu \in net : \A gone \in BOOLEAN :
          Receive(pdu, gone) /\ Followed(pdu) /\ pdu.from # 0 /\ pdu.from = due.from
              => (cfAlarm' <=> (pdu.k - due.k) % Modulus # 0)]_vars

\* What of a frame the message format and the bridge carry.
Carried(frame) ==
    [frame EXCEPT !.eff = frame.id > StdMax, !.fdf = cfg.fd]

\* Every frame written to the far bus is, with all its flags, a frame that was
\* read: nothing is left in it of the frames that were in the reused slots of
\* the arrays before, and nothing of PDUs that were given up half way.
NothingStale ==
    \A i \in DOMAIN written :
        \/ written[i].data \in DOMAIN reads /\ written[i] = Carried(reads[written[i].data])
        \/ "read" \in happened /\ written[i].data = 0

\* A PDU is put on the far bus whole or not at all.
AllOrNothing ==
    rxI = rxN /\ happened \cap {"write", "restart"} = {} => Len(written) % cfg.num = 0

\* PDUs are only lost, damaged or mixed with others.
Orderly == cfg.faults \subseteq {"lose", "damage", "stray", "send", "write"}

Tunnel == INSTANCE CanTunnel WITH
    offered <- Len(reads),
    delivered <- IF Orderly THEN [i \in DOMAIN written |-> written[i].data] ELSE <<>>

\* As long as PDUs are only lost, damaged or mixed with others, the bridge is a
\* lossy tunnel: frames come out in order and at most once.  (Where the network
\* repeats or reorders, reads fail or programs are restarted, it claims nothing.)
ImplementsTunnel == Tunnel!Spec

\* Without losses the far bus catches up again and again: each frame of the
\* batches that are complete has been written there, whatever else arrives at
\* the listener's socket.
CaughtUp ==
    \A i \in 1 .. Len(reads) - (Len(reads) % cfg.num) :
        \E j \in DOMAIN written : written[j].data = i

BatchesArrive == []<>(cfg.faults \subseteq {"stray"} => CaughtUp)
=============================================================================
