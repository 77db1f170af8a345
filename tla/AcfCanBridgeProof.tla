------------------------- MODULE AcfCanBridgeProof -------------------------
(***************************************************************************)
(* Proofs about AcfCanBridge for every size of the counters and of the     *)
(* version 0 field (the field dividing the counter), every command line,   *)
(* any traffic, any set of faults, and any PDUs of other senders that are  *)
(* not whole PDUs of the stream.                                           *)
(***************************************************************************)
EXTENDS AcfCanBridge, TLAPS

---------------------------------------------------------------------------
(* Numbers modulo m *)

\* A remainder is below its modulus.
LEMMA ModRange ==
    ASSUME NEW m \in Nat \ {0}, NEW x \in Int
    PROVE  x % m \in 0 .. m - 1
    OBVIOUS

\* The remainder is the only number below the modulus that is left over.
LEMMA ModUnique ==
    ASSUME NEW m \in Nat \ {0}, NEW q \in Int, NEW r \in 0 .. m - 1
    PROVE  (m * q + r) % m = r
    OBVIOUS

\* A number below the modulus is its own remainder.
LEMMA ModSmall ==
    ASSUME NEW m \in Nat \ {0}, NEW x \in 0 .. m - 1
    PROVE  x % m = x
    OBVIOUS

\* Every number is a multiple of the modulus and its remainder.
LEMMA ModSplit ==
    ASSUME NEW m \in Nat \ {0}, NEW x \in Int
    PROVE  \E q \in Int : x = m * q + (x % m)
    <1>1. x = m * (x \div m) + (x % m) /\ x \div m \in Int
          OBVIOUS
    <1>2. QED
          BY <1>1

\* Counting on keeps two numbers congruent.
LEMMA ModNext ==
    ASSUME NEW m \in Nat \ {0}, NEW a \in Int, NEW b \in Int, a % m = b % m
    PROVE  (a + 1) % m = (b + 1) % m
    <1> DEFINE r == a % m
    <1>1. r \in 0 .. m - 1
          BY ModRange
    <1>2. PICK p \in Int : a = m * p + r
          BY ModSplit
    <1>3. PICK q \in Int : b = m * q + r
          BY ModSplit
    <1> HIDE DEF r
    <1>4. CASE r + 1 < m
      <2>1. r + 1 \in 0 .. m - 1
            BY <1>1, <1>4
      <2>2. a + 1 = m * p + (r + 1) /\ b + 1 = m * q + (r + 1)
            BY <1>1, <1>2, <1>3
      <2>3. QED
            BY <2>1, <2>2, ModUnique
    <1>5. CASE r + 1 = m
      <2>1. a + 1 = m * (p + 1) + 0 /\ b + 1 = m * (q + 1) + 0
            BY <1>1, <1>2, <1>3, <1>5
      <2>2. p + 1 \in Int /\ q + 1 \in Int /\ 0 \in 0 .. m - 1
            OBVIOUS
      <2>3. (m * (p + 1) + 0) % m = 0 /\ (m * (q + 1) + 0) % m = 0
            BY <2>2, ModUnique
      <2>4. QED
            BY <2>1, <2>3
    <1>6. QED
          BY <1>1, <1>4, <1>5

\* Two numbers are congruent if the modulus divides their difference.
LEMMA ModDiff ==
    ASSUME NEW m \in Nat \ {0}, NEW a \in Int, NEW b \in Int
    PROVE  a % m = b % m <=> (a - b) % m = 0
    <1>1. PICK p \in Int : a = m * p + (a % m)
          BY ModSplit
    <1>2. PICK q \in Int : b = m * q + (b % m)
          BY ModSplit
    <1>3. a % m \in 0 .. m - 1 /\ b % m \in 0 .. m - 1
          BY ModRange
    <1>4. ASSUME a % m = b % m
          PROVE  (a - b) % m = 0
      <2>1. a - b = m * (p - q) + 0
            BY <1>1, <1>2, <1>3, <1>4
      <2>2. p - q \in Int /\ 0 \in 0 .. m - 1
            OBVIOUS
      <2>3. (m * (p - q) + 0) % m = 0
            BY <2>2, ModUnique
      <2>4. QED
            BY <2>1, <2>3
    <1>5. ASSUME (a - b) % m = 0
          PROVE  a % m = b % m
      <2>1. a - b \in Int
            OBVIOUS
      <2>2. PICK d \in Int : a - b = m * d + ((a - b) % m)
            BY <2>1, ModSplit
      <2>3. a = m * (q + d) + (b % m)
            BY <1>2, <1>3, <1>5, <2>2
      <2>4. q + d \in Int
            OBVIOUS
      <2>5. (m * (q + d) + (b % m)) % m = b % m
            BY <1>3, <2>4, ModUnique
      <2>6. QED
            BY <2>3, <2>5
    <1>6. QED
          BY <1>4, <1>5

\* A counter that wraps at a multiple of m is, modulo m, one that does not wrap.
LEMMA ModMod ==
    ASSUME NEW m \in Nat \ {0}, NEW c \in Nat \ {0}, c % m = 0, NEW x \in Int
    PROVE  (x % c) % m = x % m
    <1> DEFINE r == x % c
               s == r % m
    <1>1. r \in 0 .. c - 1 /\ r \in Int
          BY ModRange
    <1>2. s \in 0 .. m - 1
          BY <1>1, ModRange
    <1>3. PICK d \in Int : x = c * d + r
          BY ModSplit
    <1>4. PICK e \in Int : r = m * e + s
          BY <1>1, ModSplit
    <1>5. PICK q \in Int : c = m * q
      <2>1. c \in Int
            OBVIOUS
      <2>2. PICK q \in Int : c = m * q + (c % m)
            BY <2>1, ModSplit
      <2>3. QED
            BY <2>2
    <1> HIDE DEF r, s
    <1>6. x = m * (q * d + e) + s
          BY <1>1, <1>2, <1>3, <1>4, <1>5
    <1>7. q * d + e \in Int
          OBVIOUS
    <1>8. x % m = s
          BY <1>2, <1>6, <1>7, ModUnique
    <1>9. QED
          BY <1>8 DEF r, s

---------------------------------------------------------------------------
(* Types *)

\* The command line gives 1 to MAX_CAN_FRAMES_IN_ACF frames per PDU, one of two
\* versions and one of two programs.
LEMMA ConfigFacts ==
    ASSUME cfg \in Configs
    PROVE  /\ cfg.num \in 1 .. MaxFrames /\ cfg.num \in Nat /\ cfg.ver \in {0, 1}
           /\ cfg.fd \in BOOLEAN /\ cfg.udp \in BOOLEAN
           /\ cfg.app \in {"bridge", "listener"}
           /\ MaxFrames \in Nat \ {0}
    BY BridgeConstants, PduConstants

\* A frame_t after memset is a frame.
LEMMA BlankFrame == Blank \in Frame
    BY DEF Blank, Frame, Data

\* So is each slot of the listener's array when it starts.
LEMMA EmptyFrames == Empty \in [1 .. MaxFrames -> Frame]
    BY BlankFrame DEF Empty

\* A counter is a number, and counting on keeps it a counter.
LEMMA CounterFacts ==
    /\ 0 \in Counter
    /\ \A x \in Counter : x \in Nat /\ x < CtrMod
    /\ \A x \in Int : x % CtrMod \in Counter
    BY PduConstants DEF Counter

\* What the sequence number setter of either version stores is a counter value.
LEMMA OnWireCounter ==
    ASSUME NEW x \in Counter, NEW v \in {0, 1}
    PROVE  OnWire(v, x) \in Counter
    <1>1. x \in Nat /\ x < CtrMod /\ CtrMod \in Nat \ {0} /\ SeqMod \in Nat \ {0}
          BY CounterFacts, PduConstants
    <1>2. x % SeqMod \in Nat /\ x % SeqMod <= x
          BY <1>1
    <1>3. QED
          BY <1>1, <1>2 DEF OnWire, Counter

\* prepare_acf_packet makes a message of any frame, read or left over.
LEMMA PackedMessage ==
    ASSUME NEW frame \in Frame, NEW fd \in BOOLEAN
    PROVE  prepare_acf_packet(frame, fd) \in Message
    <1>1. /\ frame.id \in Nat /\ frame.rtr \in BOOLEAN /\ frame.brs \in BOOLEAN
          /\ frame.esi \in BOOLEAN /\ frame.data \in Data
          BY DEF Frame
    <1>2. (frame.id > StdMax) \in BOOLEAN /\ (frame.data # Oversized) \in BOOLEAN
          OBVIOUS
    <1>3. (fd /\ frame.brs) \in BOOLEAN /\ (fd /\ frame.esi) \in BOOLEAN
          OBVIOUS
    <1>4. QED
          BY <1>1, <1>2, <1>3, Zenon DEF prepare_acf_packet, Message

\* avtp_to_can makes a frame of any message.
LEMMA UnpackedFrame ==
    ASSUME NEW slot \in Frame, NEW msg \in Message, NEW fd \in BOOLEAN
    PROVE  Unpacked(slot, msg, fd) \in Frame
    <1>1. /\ msg.id \in Nat /\ msg.eff \in BOOLEAN /\ msg.rtr \in BOOLEAN
          /\ msg.data \in Data
          BY DEF Message
    <1>2. QED
          BY <1>1, Zenon DEF Unpacked, Frame

\* can_to_avtp makes a PDU of any batch and any counters.
LEMMA PackedPdu ==
    ASSUME TypeOK
    PROVE  Pack \in Pdu
    <1> DEFINE messages == [i \in 1 .. cfg.num |-> prepare_acf_packet(tx[i], cfg.fd)]
    <1>1. messages \in Seq(Message)
      <2>1. cfg.num \in Nat /\ cfg.fd \in BOOLEAN
            BY ConfigFacts DEF TypeOK
      <2>2. \A i \in 1 .. cfg.num : prepare_acf_packet(tx[i], cfg.fd) \in Message
            BY <2>1, PackedMessage DEF TypeOK
      <2>3. QED
            BY <2>1, <2>2
    <1>2. cfg.ver \in {0, 1} /\ OnWire(cfg.ver, cfSeq) \in Counter
          BY ConfigFacts, OnWireCounter DEF TypeOK
    <1>3. (IF cfg.udp THEN udpSeq ELSE 0) \in Counter
          BY CounterFacts DEF TypeOK
    <1>4. epoch \in Nat /\ sent \in Nat /\ StreamId \in Streams
          BY PduConstants DEF TypeOK
    <1> HIDE DEF messages
    <1>5. Pack = [udp |-> IF cfg.udp THEN udpSeq ELSE 0, ver |-> cfg.ver, kind |-> "cf",
                  sid |-> StreamId, msgs |-> messages, seq |-> OnWire(cfg.ver, cfSeq),
                  from |-> epoch, k |-> sent]
          BY DEF Pack, can_to_avtp, messages
    <1>6. QED
          BY <1>1, <1>2, <1>3, <1>4, <1>5 DEF Pdu

\* avtp_to_can leaves frames in the array, whatever it is given.
LEMMA SlotsFrames ==
    ASSUME NEW pdu \in Pdu, NEW slots \in [1 .. MaxFrames -> Frame], NEW fd \in BOOLEAN
    PROVE  SlotsAfter(pdu, slots, fd) \in [1 .. MaxFrames -> Frame]
    <1>1. \A i \in DOMAIN pdu.msgs : pdu.msgs[i] \in Message
          BY DEF Pdu
    <1>2. \A i \in 1 .. MaxFrames : slots[i] \in Frame /\ Cleared(slots[i]) \in Frame
          BY BlankFrame DEF Cleared
    <1>3. \A i \in 1 .. MaxFrames : i \in DOMAIN pdu.msgs =>
              Unpacked(Cleared(slots[i]), pdu.msgs[i], fd) \in Frame
          BY <1>1, <1>2, UnpackedFrame
    <1>4. QED
          BY <1>2, <1>3 DEF SlotsAfter

\* It reports no more frames than the array has slots.
LEMMA RecoveredRange ==
    ASSUME NEW pdu \in Pdu
    PROVE  Recovered(pdu) \in {-1} \cup (0 .. MaxFrames)
    <1>1. pdu.msgs \in Seq(Message) /\ MaxFrames \in Nat
          BY PduConstants DEF Pdu
    <1>2. ASSUME Bad(pdu) = {}
          PROVE  Len(pdu.msgs) \in 0 .. MaxFrames
      <2>1. Len(pdu.msgs) \in Nat /\ DOMAIN pdu.msgs = 1 .. Len(pdu.msgs)
            BY <1>1
      <2>2. MaxFrames + 1 \notin DOMAIN pdu.msgs
            BY <1>1, <1>2 DEF Bad
      <2>3. QED
            BY <1>1, <2>1, <2>2
    <1>3. QED
          BY <1>2 DEF Recovered

\* Neither program counts a PDU for which avtp_to_can returned an error.
LEMMA CountsFacts ==
    ASSUME cfg \in Configs, NEW num \in Int, Counts(num)
    PROVE  num >= 0
    BY DEF Counts

\* Both programs start with frames in their arrays and counters in range.
LEMMA TypeInit == Init => TypeOK
    <1> SUFFICES ASSUME Init PROVE TypeOK
        OBVIOUS
    <1>1. cfg \in Configs /\ cfg.num \in Nat /\ MaxFrames \in Nat
          BY ConfigFacts DEF Init
    <1>2. tx \in [1 .. cfg.num -> Frame]
          BY BridgeConstants DEF Init
    <1>3. rx \in [1 .. MaxFrames -> Frame] /\ 0 \in Counter
          BY EmptyFrames, CounterFacts DEF Init
    <1>4. reads \in Seq(Frame) /\ written \in Seq(Frame) /\ due \in [from : Nat, k : Nat]
          BY DEF Init
    <1>5. cfAlarm \in BOOLEAN /\ udpAlarm \in BOOLEAN
          BY Zenon DEF Init
    <1>6. /\ txI \in 0 .. cfg.num /\ cfSeq \in Counter /\ udpSeq \in Counter /\ net \subseteq Pdu
          /\ rxN \in 0 .. MaxFrames /\ rxI \in 0 .. rxN /\ expCf \in Counter /\ expUdp \in Counter
          /\ epoch \in Nat \ {0} /\ sent \in Nat
          BY <1>1, <1>3 DEF Init
    <1>7. QED
          BY <1>1, <1>2, <1>3, <1>4, <1>5, <1>6, Zenon DEF TypeOK

\* recv, avtp_to_can and the counting keep the listener's state in range, whatever
\* the PDU holds.
LEMMA TypeReceive ==
    ASSUME TypeOK, NEW pdu \in net, NEW gone \in BOOLEAN, Receive(pdu, gone)
    PROVE  TypeOK'
    <1>1. pdu \in Pdu /\ cfg \in Configs
          BY DEF TypeOK
    <1>2. net' \subseteq Pdu
          BY DEF TypeOK, Receive
    <1>3. cfAlarm' \in BOOLEAN /\ udpAlarm' \in BOOLEAN
          BY Zenon DEF Receive, CfMismatch, UdpMismatch, HasUdpHeader, Followed
    <1>4. rx' \in [1 .. MaxFrames -> Frame]
          BY <1>1, ConfigFacts, SlotsFrames DEF TypeOK, Receive
    <1>5. ExpCfAfter(pdu, expCf) \in Counter /\ ExpUdpAfter(pdu, cfg.udp, expUdp) \in Counter
          BY <1>1 DEF TypeOK, Pdu, ExpCfAfter, ExpUdpAfter
    <1>6. expCf' \in Counter /\ expUdp' \in Counter
      <2>1. /\ ExpCfAfter(pdu, expCf) + 1 \in Int
            /\ ExpUdpAfter(pdu, cfg.udp, expUdp) + 1 \in Int
            BY <1>5, CounterFacts
      <2>2. QED
            BY <1>5, <2>1, CounterFacts DEF Receive
    <1>7. rxN' \in 0 .. MaxFrames /\ rxI' \in 0 .. rxN'
      <2>1. Recovered(pdu) \in {-1} \cup (0 .. MaxFrames) /\ MaxFrames \in Nat
            BY <1>1, RecoveredRange, PduConstants
      <2>2. CASE Counts(Recovered(pdu))
        <3>1. Recovered(pdu) \in 0 .. MaxFrames
              BY <1>1, <2>1, <2>2, CountsFacts
        <3>2. rxN' = Recovered(pdu) /\ rxI' = 0
              BY <2>2 DEF Receive
        <3>3. QED
              BY <2>1, <3>1, <3>2
      <2>3. CASE ~Counts(Recovered(pdu))
            BY <2>3 DEF TypeOK, Receive
      <2>4. QED
            BY <2>2, <2>3
    <1>8. due' \in [from : Nat, k : Nat]
      <2>1. pdu.from \in Nat /\ pdu.k \in Nat /\ pdu.k + 1 \in Nat
            BY <1>1 DEF Pdu
      <2>2. QED
            BY <2>1 DEF TypeOK, Receive
    <1>9. QED
          BY <1>2, <1>3, <1>4, <1>6, <1>7, <1>8 DEF TypeOK, Receive, talker

\* So does every step of the two programs and of the network.
LEMMA TypeStep ==
    ASSUME TypeOK, [Next]_vars
    PROVE  TypeOK'
    <1>1. /\ cfg \in Configs /\ cfg.num \in Nat /\ cfg.fd \in BOOLEAN
          /\ MaxFrames \in Nat /\ txI \in 0 .. cfg.num
          BY ConfigFacts DEF TypeOK
    <1>2. ASSUME NEW kind \in cfg.traffic, ReadFrame(kind)
          PROVE  TypeOK'
      <2> DEFINE frame == [id |-> kind.id, eff |-> kind.eff, rtr |-> kind.rtr,
                           fdf |-> cfg.fd /\ kind.fdf, brs |-> cfg.fd /\ kind.brs,
                           esi |-> cfg.fd /\ kind.esi, data |-> Len(reads) + 1]
      <2>1. frame \in Frame
        <3>1. kind.id \in Nat /\ kind.eff \in BOOLEAN /\ kind.rtr \in BOOLEAN
              BY <1>1, BridgeConstants
        <3>2. Len(reads) + 1 \in Data
              BY DEF TypeOK, Data
        <3>3. QED
              BY <3>1, <3>2, Zenon DEF Frame
      <2>2. tx' = [tx EXCEPT ![txI + 1] = frame] /\ reads' = Append(reads, frame)
            BY <1>2 DEF ReadFrame
      <2> HIDE DEF frame
      <2>3. tx' \in [1 .. cfg.num -> Frame] /\ reads' \in Seq(Frame)
        <3>1. tx \in [1 .. cfg.num -> Frame] /\ reads \in Seq(Frame)
              BY DEF TypeOK
        <3>2. tx' \in [1 .. cfg.num -> Frame]
              BY <2>1, <2>2, <3>1
        <3>3. reads' \in Seq(Frame)
              BY <2>1, <2>2, <3>1
        <3>4. QED
              BY <3>2, <3>3
      <2>4. txI' \in 0 .. cfg.num
            BY <1>1, <1>2 DEF ReadFrame
      <2>5. QED
            BY <1>2, <2>3, <2>4 DEF TypeOK, ReadFrame, listener
    <1>3. ASSUME ReadFails
          PROVE  TypeOK'
      <2>1. txI' \in 0 .. cfg.num
            BY <1>1, <1>3 DEF ReadFails
      <2>2. QED
            BY <1>3, <2>1 DEF TypeOK, ReadFails, listener
    <1>4. ASSUME NEW ok \in BOOLEAN, SendPdu(ok)
          PROVE  TypeOK'
      <2>1. net' \subseteq Pdu
            BY <1>4, PackedPdu DEF TypeOK, SendPdu
      <2>2. cfSeq' \in Counter /\ udpSeq' \in Counter
        <3>1. cfSeq \in Counter /\ udpSeq \in Counter
              BY DEF TypeOK
        <3>2. cfSeq + 1 \in Int /\ udpSeq + 1 \in Int
              BY <3>1, CounterFacts
        <3>3. QED
              BY <1>4, <3>2, CounterFacts DEF SendPdu
      <2>3. txI' \in 0 .. cfg.num /\ sent' \in Nat
            BY <1>1, <1>4 DEF SendPdu, TypeOK
      <2>4. QED
            BY <1>4, <2>1, <2>2, <2>3 DEF TypeOK, SendPdu, listener
    <1>5. ASSUME RestartTalker
          PROVE  TypeOK'
      <2>1. tx' \in [1 .. cfg.num -> Frame]
            BY <1>1, <1>5, BridgeConstants DEF RestartTalker
      <2>2. txI' \in 0 .. cfg.num /\ cfSeq' \in Counter /\ udpSeq' \in Counter
            BY <1>1, <1>5, CounterFacts DEF RestartTalker
      <2>3. epoch' \in Nat \ {0} /\ sent' \in Nat
            BY <1>5 DEF RestartTalker, TypeOK
      <2>4. QED
            BY <1>5, <2>1, <2>2, <2>3 DEF TypeOK, RestartTalker, listener
    <1>6. ASSUME NEW pdu \in net, Lose(pdu)
          PROVE  TypeOK'
          BY <1>6 DEF TypeOK, Lose, talker, listener
    <1>7. ASSUME NEW pdu \in net, NEW i \in DOMAIN pdu.msgs, Damage(pdu, i)
          PROVE  TypeOK'
      <2>1. pdu \in Pdu
            BY DEF TypeOK
      <2>2. [pdu EXCEPT !.msgs[i].ok = FALSE] \in Pdu
        <3>1. pdu.msgs \in Seq(Message) /\ pdu.msgs[i] \in Message
              BY <2>1 DEF Pdu
        <3>2. [pdu.msgs[i] EXCEPT !.ok = FALSE] \in Message
              BY <3>1 DEF Message
        <3>3. [pdu.msgs EXCEPT ![i] = [pdu.msgs[i] EXCEPT !.ok = FALSE]] \in Seq(Message)
              BY <3>1, <3>2
        <3>4. [pdu EXCEPT !.msgs[i].ok = FALSE]
                = [pdu EXCEPT !.msgs = [pdu.msgs EXCEPT ![i] = [pdu.msgs[i] EXCEPT !.ok = FALSE]]]
              BY <2>1, <3>1 DEF Pdu
        <3>5. QED
              BY <2>1, <3>3, <3>4 DEF Pdu
      <2>3. net' \subseteq Pdu
            BY <1>7, <2>2 DEF TypeOK, Damage
      <2>4. QED
            BY <1>7, <2>3 DEF TypeOK, Damage, talker, listener
    <1>8. ASSUME NEW pdu \in cfg.strays, Stray(pdu)
          PROVE  TypeOK'
      <2>1. net' \subseteq Pdu
            BY <1>1, <1>8, BridgeConstants DEF TypeOK, Stray
      <2>2. QED
            BY <1>8, <2>1 DEF TypeOK, Stray, talker, listener
    <1>9. ASSUME NEW pdu \in net, NEW gone \in BOOLEAN, Receive(pdu, gone)
          PROVE  TypeOK'
          BY <1>9, TypeReceive
    <1>10. ASSUME NEW ok \in BOOLEAN, WriteFrame(ok)
           PROVE  TypeOK'
      <2>1. rxN \in 0 .. MaxFrames /\ rxI \in 0 .. rxN /\ rxI < rxN
            BY <1>10 DEF TypeOK, WriteFrame
      <2>2. rxI' \in 0 .. rxN /\ rxI + 1 \in 1 .. MaxFrames
            BY <1>1, <1>10, <2>1 DEF WriteFrame
      <2>3. written' \in Seq(Frame)
            BY <1>10, <2>2 DEF TypeOK, WriteFrame
      <2>4. QED
            BY <1>10, <2>2, <2>3 DEF TypeOK, WriteFrame, talker
    <1>11. ASSUME RestartListener
           PROVE  TypeOK'
      <2>1. rx' \in [1 .. MaxFrames -> Frame] /\ expCf' \in Counter /\ expUdp' \in Counter
            BY <1>11, EmptyFrames, CounterFacts DEF RestartListener
      <2>2. cfAlarm' \in BOOLEAN /\ udpAlarm' \in BOOLEAN
            BY <1>11, Zenon DEF RestartListener
      <2>3. due' \in [from : Nat, k : Nat] /\ rxN' \in 0 .. MaxFrames /\ rxI' \in 0 .. rxN'
            BY <1>1, <1>11 DEF TypeOK, RestartListener
      <2>4. QED
            BY <1>11, <2>1, <2>2, <2>3 DEF TypeOK, RestartListener, talker
    <1>12. CASE UNCHANGED vars
           BY <1>12 DEF TypeOK, vars, talker, listener, history
    <1>13. QED
           BY <1>2, <1>3, <1>4, <1>5, <1>6, <1>7, <1>8, <1>9, <1>10, <1>11, <1>12
           DEF Next, Send, SendFails, Take, TakeStray, TakeCopy, Write, WriteFails

\* Each array index and each counter of both programs keeps to its range, however
\* the network behaves: frames are never written past the end of can_frames.
THEOREM BridgeTypes == Spec => []TypeOK
    <1>1. TypeOK /\ [Next]_vars => TypeOK'
          BY TypeStep
    <1>2. QED
          BY TypeInit, <1>1, PTL DEF Spec

---------------------------------------------------------------------------
(* Sequence numbers *)

\* A PDU of the talker carries the numbers of its place in the stream.
InStream(p) ==
    /\ p.ver = cfg.ver
    /\ Followed(p)
    /\ p.seq = OnWire(cfg.ver, p.k % CtrMod)
    /\ p.udp = IF cfg.udp THEN p.k % CtrMod ELSE 0

\* GapsReported is about a step; what makes it true is that the numbers of both
\* programs are those of the places in the stream they stand for, although the
\* counters wrap, and although the listener's is a number of the field's width
\* after a mismatch and one of 32 bits that counts on from there otherwise.
NumbersInv ==
    /\ cfSeq = sent % CtrMod /\ udpSeq = sent % CtrMod
    /\ \A p \in net : p.from # 0 => InStream(p)
    /\ due.from # 0 => Masked(cfg.ver, expCf) = due.k % Modulus

\* Numbers are compared modulo 2^8 in version 0 and in full in version 1; the first
\* is a divisor of the second.
LEMMA ModulusFacts ==
    ASSUME cfg \in Configs
    PROVE  /\ Modulus \in Nat \ {0} /\ CtrMod \in Nat \ {0} /\ SeqMod \in Nat \ {0}
           /\ CtrMod % SeqMod = 0
           /\ cfg.ver = 0 => Modulus = SeqMod
           /\ cfg.ver = 1 => Modulus = CtrMod
    BY PduConstants DEF Modulus

\* What the listener compares of the number of the k-th PDU.
LEMMA MaskedPlace ==
    ASSUME cfg \in Configs, NEW k \in Nat
    PROVE  Masked(cfg.ver, OnWire(cfg.ver, k % CtrMod)) = k % Modulus
    <1>1. cfg.ver \in {0, 1} /\ CtrMod \in Nat \ {0} /\ SeqMod \in Nat \ {0} /\ k \in Int
          BY ConfigFacts, ModulusFacts
    <1>2. CASE cfg.ver = 0
      <2>1. (k % CtrMod) % SeqMod = k % SeqMod
            BY <1>1, ModulusFacts, ModMod
      <2>2. k % SeqMod \in 0 .. SeqMod - 1
            BY <1>1, ModRange
      <2>3. (k % SeqMod) % SeqMod = k % SeqMod
            BY <1>1, <2>2, ModSmall
      <2>4. QED
            BY <1>2, <2>1, <2>3, ModulusFacts DEF Masked, OnWire
    <1>3. CASE cfg.ver = 1
          BY <1>3, ModulusFacts DEF Masked, OnWire
    <1>4. QED
          BY <1>1, <1>2, <1>3

\* A counter that stands for place k stands for place k + 1 when it counts on.
LEMMA MaskedNext ==
    ASSUME cfg \in Configs, NEW x \in Counter, NEW k \in Nat,
           Masked(cfg.ver, x) = k % Modulus
    PROVE  Masked(cfg.ver, (x + 1) % CtrMod) = (k + 1) % Modulus
    <1>1. /\ cfg.ver \in {0, 1} /\ CtrMod \in Nat \ {0} /\ SeqMod \in Nat \ {0} /\ k \in Int
          /\ x \in Int /\ x + 1 \in Int /\ x \in 0 .. CtrMod - 1
          BY ConfigFacts, ModulusFacts, CounterFacts DEF Counter
    <1>2. CASE cfg.ver = 0
      <2>1. x % SeqMod = k % SeqMod
            BY <1>2, ModulusFacts DEF Masked
      <2>2. (x + 1) % SeqMod = (k + 1) % SeqMod
            BY <1>1, <2>1, ModNext
      <2>3. ((x + 1) % CtrMod) % SeqMod = (x + 1) % SeqMod
            BY <1>1, ModulusFacts, ModMod
      <2>4. QED
            BY <1>2, <2>2, <2>3, ModulusFacts DEF Masked
    <1>3. CASE cfg.ver = 1
      <2>1. x = k % CtrMod
            BY <1>3, ModulusFacts DEF Masked
      <2>2. x % CtrMod = k % CtrMod
            BY <1>1, <2>1, ModSmall
      <2>3. (x + 1) % CtrMod = (k + 1) % CtrMod
            BY <1>1, <2>2, ModNext
      <2>4. QED
            BY <1>3, <2>3, ModulusFacts DEF Masked
    <1>4. QED
          BY <1>1, <1>2, <1>3

\* What a PDU of the talker does to the expected number.
LEMMA ExpAfterPlace ==
    ASSUME TypeOK, NumbersInv, NEW pdu \in net, pdu.from # 0
    PROVE  /\ Masked(cfg.ver, pdu.seq) = pdu.k % Modulus
           /\ Masked(cfg.ver, ExpCfAfter(pdu, expCf)) = pdu.k % Modulus
           /\ CfMismatch(pdu, expCf) <=> Masked(cfg.ver, expCf) # pdu.k % Modulus
    <1>1. InStream(pdu) /\ pdu.k \in Nat /\ cfg \in Configs
          BY DEF NumbersInv, TypeOK, Pdu
    <1>2. Masked(cfg.ver, pdu.seq) = pdu.k % Modulus
          BY <1>1, MaskedPlace DEF InStream
    <1>3. CfMismatch(pdu, expCf) <=> Masked(cfg.ver, expCf) # pdu.k % Modulus
          BY <1>1, <1>2 DEF InStream, CfMismatch
    <1>4. Masked(cfg.ver, ExpCfAfter(pdu, expCf)) = pdu.k % Modulus
          BY <1>2, <1>3 DEF ExpCfAfter
    <1>5. QED
          BY <1>2, <1>3, <1>4

\* Receiving any PDU keeps the listener's number that of the place that is due.
LEMMA NumbersReceive ==
    ASSUME TypeOK, NumbersInv, NEW pdu \in net, NEW gone \in BOOLEAN, Receive(pdu, gone)
    PROVE  NumbersInv'
    <1>1. cfg \in Configs /\ cfg' = cfg /\ pdu \in Pdu
          BY DEF TypeOK, Receive
    <1>2. cfSeq' = sent' % CtrMod /\ udpSeq' = sent' % CtrMod
          BY DEF NumbersInv, Receive, talker
    <1>3. \A p \in net' : p.from # 0 => InStream(p)'
          BY <1>1 DEF NumbersInv, Receive, InStream
    <1>4. due'.from # 0 => Masked(cfg.ver, expCf') = due'.k % Modulus
      <2>1. CASE ~Followed(pdu)
        <3>1. Recovered(pdu) = -1 /\ ~CfMismatch(pdu, expCf)
              BY <2>1 DEF Recovered, CfMismatch
        <3>2. ~Counts(Recovered(pdu)) /\ ExpCfAfter(pdu, expCf) = expCf
              BY <3>1 DEF Counts, ExpCfAfter
        <3>3. expCf' = expCf /\ due' = due
              BY <2>1, <3>2 DEF Receive
        <3>4. QED
              BY <3>3 DEF NumbersInv
      <2>2. CASE Followed(pdu) /\ pdu.from = 0
            BY <2>2 DEF Receive
      <2>3. CASE Followed(pdu) /\ pdu.from # 0
        <3> DEFINE cf == ExpCfAfter(pdu, expCf)
        <3>1. Masked(cfg.ver, cf) = pdu.k % Modulus
              BY <2>3, ExpAfterPlace
        <3>2. cf \in Counter /\ pdu.k \in Nat
              BY <1>1 DEF TypeOK, Pdu, ExpCfAfter
        <3> HIDE DEF cf
        <3>3. Masked(cfg.ver, (cf + 1) % CtrMod) = (pdu.k + 1) % Modulus
              BY <1>1, <3>1, <3>2, MaskedNext
        <3>4. CASE Counts(Recovered(pdu))
          <4>1. expCf' = (cf + 1) % CtrMod /\ due'.k = pdu.k + 1
                BY <2>3, <3>4 DEF Receive, cf
          <4>2. QED
                BY <3>3, <4>1
        <3>5. CASE ~Counts(Recovered(pdu))
          <4>1. expCf' = cf /\ due'.k = pdu.k
                BY <2>3, <3>5 DEF Receive, cf
          <4>2. QED
                BY <3>1, <4>1
        <3>6. QED
              BY <3>4, <3>5
      <2>4. QED
            BY <2>1, <2>2, <2>3
    <1>5. QED
          BY <1>1, <1>2, <1>3, <1>4 DEF NumbersInv, Modulus

\* Sending, or failing to, keeps the talker's numbers those of the next place.
LEMMA NumbersSend ==
    ASSUME TypeOK, NumbersInv, NEW ok \in BOOLEAN, SendPdu(ok)
    PROVE  NumbersInv'
    <1>1. cfg' = cfg /\ due' = due /\ expCf' = expCf /\ sent' = sent + 1
          BY DEF SendPdu, listener
    <1>2. cfSeq' = sent' % CtrMod /\ udpSeq' = sent' % CtrMod
      <2>1. CtrMod \in Nat \ {0} /\ sent \in Int /\ cfSeq \in 0 .. CtrMod - 1 /\ cfSeq \in Int
            BY PduConstants DEF TypeOK, Counter
      <2>2. cfSeq % CtrMod = sent % CtrMod
            BY <2>1, ModSmall DEF NumbersInv
      <2>3. (cfSeq + 1) % CtrMod = (sent + 1) % CtrMod
            BY <2>1, <2>2, ModNext
      <2>4. QED
            BY <1>1, <2>3 DEF SendPdu, NumbersInv
    <1>3. InStream(Pack)
          BY DEF Pack, can_to_avtp, InStream, Followed, NumbersInv
    <1>4. \A p \in net' : p.from # 0 => InStream(p)'
          BY <1>1, <1>3 DEF SendPdu, NumbersInv, InStream
    <1>5. QED
          BY <1>1, <1>2, <1>4 DEF NumbersInv, Modulus

\* No step of programs or network takes the numbers away from their places.
LEMMA NumbersStep ==
    ASSUME TypeOK, NumbersInv, [Next]_vars
    PROVE  NumbersInv'
    <1> USE DEF NumbersInv, InStream, Modulus
    <1>1. CASE \E kind \in cfg.traffic : ReadFrame(kind)
          BY <1>1 DEF ReadFrame, listener
    <1>2. CASE ReadFails
          BY <1>2 DEF ReadFails, listener
    <1>3. CASE Send \/ SendFails
          BY <1>3, NumbersSend DEF Send, SendFails
    <1>4. CASE RestartTalker
      <2>1. 0 % CtrMod = 0
            BY PduConstants
      <2>2. QED
            BY <1>4, <2>1 DEF RestartTalker, listener
    <1>5. CASE \E pdu \in net : Lose(pdu)
          BY <1>5 DEF Lose, talker, listener
    <1>6. ASSUME NEW pdu \in net, NEW i \in DOMAIN pdu.msgs, Damage(pdu, i)
          PROVE  NumbersInv'
      <2> DEFINE damaged == [pdu EXCEPT !.msgs[i].ok = FALSE]
      <2>1. /\ damaged.ver = pdu.ver /\ damaged.kind = pdu.kind /\ damaged.sid = pdu.sid
            /\ damaged.seq = pdu.seq /\ damaged.udp = pdu.udp /\ damaged.k = pdu.k
            /\ damaged.from = pdu.from
            BY DEF TypeOK, Pdu
      <2>2. net' = (net \ {pdu}) \cup {damaged}
            BY <1>6 DEF Damage
      <2> HIDE DEF damaged
      <2>3. QED
            BY <1>6, <2>1, <2>2 DEF Damage, talker, listener, Followed
    <1>7. ASSUME NEW pdu \in cfg.strays, Stray(pdu)
          PROVE  NumbersInv'
      <2>1. pdu.from = 0
            BY BridgeConstants DEF TypeOK
      <2>2. QED
            BY <1>7, <2>1 DEF Stray, talker, listener
    <1>8. CASE Take \/ TakeStray \/ TakeCopy
          BY <1>8, NumbersReceive DEF Take, TakeStray, TakeCopy
    <1>9. CASE Write \/ WriteFails
          BY <1>9 DEF Write, WriteFails, WriteFrame, talker
    <1>10. CASE RestartListener
      <2>1. Masked(cfg.ver, 0) = 0 % Modulus
            BY PduConstants DEF Masked
      <2>2. QED
            BY <1>10, <2>1 DEF RestartListener, talker
    <1>11. CASE UNCHANGED vars
           BY <1>11 DEF vars, talker, listener, history
    <1>12. QED
           BY <1>1, <1>2, <1>3, <1>4, <1>5, <1>6, <1>7, <1>8, <1>9, <1>10, <1>11 DEF Next

\* All numbers start at 0, the first place.
LEMMA NumbersInit == Init => NumbersInv
    <1>1. CtrMod \in Nat \ {0} /\ SeqMod \in Nat \ {0}
          BY PduConstants
    <1>2. 0 % CtrMod = 0 /\ 0 % SeqMod = 0
          BY <1>1
    <1>3. QED
          BY <1>2 DEF Init, NumbersInv, Masked, Modulus

\* In every reachable state the sequence numbers of talker, PDUs and listener are
\* those of the places in the stream they stand for.
THEOREM NumbersInvariance == Spec => [](TypeOK /\ NumbersInv)
    <1>1. TypeOK /\ NumbersInv /\ [Next]_vars => (TypeOK /\ NumbersInv)'
          BY TypeStep, NumbersStep
    <1>2. QED
          BY TypeInit, NumbersInit, <1>1, PTL DEF Spec

\* A report is made exactly for the PDUs that do not continue the stream, for every
\* width of the counters: in any order of losses, repetitions, reordering and
\* restarts of both programs.
THEOREM GapDetection == Spec => GapsReported
    <1>1. ASSUME TypeOK, NumbersInv, NEW pdu \in net, NEW gone \in BOOLEAN,
                 Receive(pdu, gone), Followed(pdu), pdu.from # 0, pdu.from = due.from
          PROVE  cfAlarm' <=> (pdu.k - due.k) % Modulus # 0
      <2>1. cfAlarm' = CfMismatch(pdu, expCf)
            BY <1>1 DEF Receive
      <2>2. CfMismatch(pdu, expCf) <=> Masked(cfg.ver, expCf) # pdu.k % Modulus
            BY <1>1, ExpAfterPlace
      <2>3. Masked(cfg.ver, expCf) = due.k % Modulus
            BY <1>1 DEF NumbersInv
      <2>4. pdu.k \in Int /\ due.k \in Int /\ Modulus \in Nat \ {0}
            BY <1>1, ModulusFacts DEF TypeOK, Pdu
      <2>5. pdu.k % Modulus = due.k % Modulus <=> (pdu.k - due.k) % Modulus = 0
            BY <2>4, ModDiff
      <2>6. QED
            BY <2>1, <2>2, <2>3, <2>5
    <1> DEFINE Step == \A pdu \in net : \A gone \in BOOLEAN :
                  Receive(pdu, gone) /\ Followed(pdu) /\ pdu.from # 0 /\ pdu.from = due.from
                      => (cfAlarm' <=> (pdu.k - due.k) % Modulus # 0)
    <1>2. TypeOK /\ NumbersInv /\ [Next]_vars => [Step]_vars
          BY <1>1
    <1>3. QED
          BY NumbersInvariance, <1>2, PTL DEF Spec, GapsReported

---------------------------------------------------------------------------
(* Quiet streams *)

\* Nothing has happened to the stream of the talker.
Quiet == happened \subseteq {"foreign", "write"}

\* The frames of the batch so far are frames of the bus.
BatchRead == "read" \notin happened => \A i \in 1 .. txI : tx[i].data # Oversized

StraysKnown ==
    \A p \in net : p.from = 0 =>
        "stray" \in happened \/ ("foreign" \in happened /\ ~Followed(p))

Whole(p) == Len(p.msgs) > 0 /\ Bad(p) = {}

\* The network holds one PDU for each place from the one that is due to the last
\* one sent, and avtp_to_can will recover frames from each of them.
InOrder ==
    /\ epoch = 1 /\ due.from = 1 /\ due.k <= sent
    /\ \A p \in net : p.from # 0 => p.from = 1 /\ p.k \in due.k .. sent - 1 /\ Whole(p)
    /\ \A k \in due.k .. sent - 1 : \E p \in net : p.from = 1 /\ p.k = k
    /\ \A p, q \in net : p.from = 1 /\ q.from = 1 /\ p.k = q.k => p = q

\* NoFalseAlarm rests on the order of the PDUs in a network to which nothing
\* happens, and on none of them being refused: a PDU that is refused is not
\* counted, and the one after it would then be reported.
QuietInv ==
    /\ BatchRead /\ StraysKnown
    /\ Quiet => InOrder
    /\ happened \subseteq {"write"} => expUdp = due.k % CtrMod
    /\ NoFalseAlarm

\* A PDU of frames that were read passes every check of avtp_to_can.
LEMMA PackIsWhole ==
    ASSUME TypeOK, BatchRead, "read" \notin happened, txI = cfg.num
    PROVE  Whole(Pack)
    <1>1. cfg.num \in 1 .. MaxFrames /\ cfg.num \in Nat /\ MaxFrames \in Nat
          BY ConfigFacts DEF TypeOK
    <1>2. Pack.msgs = [i \in 1 .. cfg.num |-> prepare_acf_packet(tx[i], cfg.fd)]
          BY DEF Pack, can_to_avtp
    <1>3. DOMAIN Pack.msgs = 1 .. cfg.num
          BY <1>2
    <1>4. Pack.msgs \in Seq(Message)
          BY PackedPdu DEF Pdu
    <1>5. Len(Pack.msgs) = cfg.num
          BY <1>1, <1>3, <1>4
    <1>6. ASSUME NEW i \in 1 .. cfg.num
          PROVE  Pack.msgs[i].ok /\ ~NeedsEff(Pack.msgs[i]) /\ ~(i > MaxFrames)
      <2>1. Pack.msgs[i] = prepare_acf_packet(tx[i], cfg.fd)
            BY <1>2
      <2>2. tx[i].data # Oversized
            BY DEF BatchRead
      <2>3. Pack.msgs[i].ok /\ ~NeedsEff(Pack.msgs[i])
        <3> DEFINE msg == prepare_acf_packet(tx[i], cfg.fd)
        <3>1. msg.ok = (tx[i].data # Oversized) /\ msg.id = tx[i].id /\ msg.eff = (msg.id > StdMax)
              BY Zenon DEF prepare_acf_packet
        <3> HIDE DEF msg
        <3>2. msg.ok /\ ~NeedsEff(msg)
              BY <2>2, <3>1 DEF NeedsEff
        <3>3. QED
              BY <2>1, <3>2 DEF msg
      <2>4. QED
            BY <1>1, <2>3
    <1>7. QED
          BY <1>1, <1>3, <1>5, <1>6 DEF Whole, Bad

\* A PDU from which avtp_to_can recovers frames is counted by both programs.
LEMMA WholeCounts ==
    ASSUME TypeOK, NEW p \in Pdu, Followed(p), Whole(p)
    PROVE  Counts(Recovered(p))
    <1>1. Len(p.msgs) \in Nat /\ Recovered(p) = Len(p.msgs)
          BY DEF Pdu, Recovered, Whole
    <1>2. QED
          BY <1>1 DEF Counts, Whole

\* The talker's PDUs are received in the order of the stream.
LEMMA QuietTake ==
    ASSUME TypeOK, NumbersInv, QuietInv, NEW pdu \in net, pdu.from # 0, Receive(pdu, TRUE)
    PROVE  QuietInv'
    <1>1. /\ cfg' = cfg /\ tx' = tx /\ txI' = txI /\ sent' = sent /\ epoch' = epoch
          /\ net' = net \ {pdu}
          BY DEF Receive, talker
    <1>2. happened \subseteq happened' /\ ("read" \in happened' => "read" \in happened)
          BY DEF Receive
    <1>3. BatchRead' /\ StraysKnown'
          BY <1>1, <1>2 DEF QuietInv, BatchRead, StraysKnown
    <1>4. ASSUME Quiet'
          PROVE  /\ Quiet /\ InOrder /\ pdu.k = due.k
                 /\ due' = [from |-> 1, k |-> due.k + 1]
                 /\ ~CfMismatch(pdu, expCf) /\ Counts(Recovered(pdu))
      <2>1. Quiet /\ InOrder
            BY <1>2, <1>4 DEF Quiet, QuietInv
      <2>2. pdu.from = 1 /\ pdu.k \in due.k .. sent - 1 /\ Whole(pdu)
            BY <2>1 DEF InOrder
      <2>3. due.k \in Nat /\ sent \in Nat /\ cfg \in Configs /\ pdu \in Pdu
            BY DEF TypeOK
      <2>4. \A q \in net : q.from # 0 => ~Earlier(q, pdu)
            BY <1>4 DEF Receive, Quiet
      <2>5. pdu.k = due.k
        <3>1. due.k \in due.k .. sent - 1
              BY <2>2, <2>3
        <3>2. PICK q \in net : q.from = 1 /\ q.k = due.k
              BY <2>1, <3>1 DEF InOrder
        <3>3. ~(due.k < pdu.k)
              BY <2>2, <2>4, <3>2 DEF Earlier
        <3>4. QED
              BY <2>2, <2>3, <3>3
      <2>6. Followed(pdu)
            BY DEF NumbersInv, InStream
      <2>7. Counts(Recovered(pdu))
            BY <2>2, <2>3, <2>6, WholeCounts
      <2>8. due' = [from |-> 1, k |-> due.k + 1]
            BY <2>2, <2>5, <2>6, <2>7 DEF Receive
      <2>9. ~CfMismatch(pdu, expCf)
        <3>1. due.from # 0
              BY <2>1 DEF InOrder
        <3>2. Masked(cfg.ver, expCf) = pdu.k % Modulus
              BY <2>5, <3>1 DEF NumbersInv
        <3>3. QED
              BY <3>2, ExpAfterPlace
      <2>10. QED
            BY <2>1, <2>5, <2>7, <2>8, <2>9
    <1>5. Quiet' => InOrder'
      <2> SUFFICES ASSUME Quiet' PROVE InOrder'
          OBVIOUS
      <2>1. InOrder /\ pdu.k = due.k /\ due' = [from |-> 1, k |-> due.k + 1]
            BY <1>4
      <2>2. due.k \in Nat /\ sent \in Nat /\ pdu.from = 1 /\ pdu.k \in due.k .. sent - 1
            BY <2>1 DEF TypeOK, InOrder
      <2>3. due'.from = 1 /\ due'.k = due.k + 1 /\ due'.k <= sent'
            BY <1>1, <2>1, <2>2
      <2>4. \A p, q \in net' : p.from = 1 /\ q.from = 1 /\ p.k = q.k => p = q
            BY <1>1, <2>1 DEF InOrder
      <2>5. ASSUME NEW p \in net', p.from # 0
            PROVE  p.from = 1 /\ p.k \in due'.k .. sent' - 1 /\ Whole(p)
        <3>1. p \in net /\ p # pdu
              BY <1>1
        <3>2. p.from = 1 /\ p.k \in due.k .. sent - 1 /\ Whole(p)
              BY <2>1, <2>5, <3>1 DEF InOrder
        <3>3. p.k # due.k
              BY <2>1, <2>2, <3>1, <3>2 DEF InOrder
        <3>4. QED
              BY <1>1, <2>2, <2>3, <3>2, <3>3
      <2>6. ASSUME NEW k \in due'.k .. sent' - 1
            PROVE  \E p \in net' : p.from = 1 /\ p.k = k
        <3>1. k \in due.k .. sent - 1 /\ k # due.k
              BY <1>1, <2>2, <2>3
        <3>2. PICK p \in net : p.from = 1 /\ p.k = k
              BY <2>1, <3>1 DEF InOrder
        <3>3. p \in net'
              BY <1>1, <2>1, <3>1, <3>2
        <3>4. QED
              BY <3>2, <3>3
      <2>7. epoch' = 1
            BY <1>1, <2>1 DEF InOrder
      <2>8. QED
            BY <2>3, <2>4, <2>5, <2>6, <2>7 DEF InOrder, Whole, Bad, NeedsEff
    <1>6. ASSUME happened' \subseteq {"write"}
          PROVE  ~UdpMismatch(pdu, cfg.udp, expUdp) /\ expUdp' = due'.k % CtrMod
      <2>1. Quiet' /\ happened \subseteq {"write"}
            BY <1>2, <1>6 DEF Quiet
      <2>2. /\ pdu.k = due.k /\ due' = [from |-> 1, k |-> due.k + 1]
            /\ Counts(Recovered(pdu))
            BY <1>4, <2>1
      <2>3. expUdp = due.k % CtrMod
            BY <2>1 DEF QuietInv
      <2>4. cfg.udp => pdu.udp = due.k % CtrMod
            BY <2>2 DEF NumbersInv, InStream
      <2>5. ~UdpMismatch(pdu, cfg.udp, expUdp)
            BY <2>3, <2>4 DEF UdpMismatch, HasUdpHeader
      <2>6. expUdp' = (expUdp + 1) % CtrMod
            BY <2>2, <2>5 DEF Receive, ExpUdpAfter
      <2>7. CtrMod \in Nat \ {0} /\ due.k \in Int /\ expUdp \in 0 .. CtrMod - 1 /\ expUdp \in Int
            BY PduConstants DEF TypeOK, Counter
      <2>8. expUdp % CtrMod = due.k % CtrMod
            BY <2>3, <2>7, ModSmall
      <2>9. (expUdp + 1) % CtrMod = (due.k + 1) % CtrMod
            BY <2>7, <2>8, ModNext
      <2>10. QED
            BY <2>2, <2>5, <2>6, <2>9
    <1>7. NoFalseAlarm'
          BY <1>4, <1>6 DEF NoFalseAlarm, Receive, Quiet
    <1>8. QED
          BY <1>3, <1>5, <1>6, <1>7 DEF QuietInv

\* A PDU of another sender moves neither the expected number of the control format
\* nor the place that is due, unless it claims to be of the stream.
LEMMA QuietTakeStray ==
    ASSUME TypeOK, QuietInv, NEW pdu \in net, pdu.from = 0, Receive(pdu, TRUE)
    PROVE  QuietInv'
    <1>1. /\ tx' = tx /\ txI' = txI /\ sent' = sent /\ epoch' = epoch /\ net' = net \ {pdu}
          /\ happened' = happened
          BY DEF Receive, talker
    <1>2. BatchRead' /\ StraysKnown'
          BY <1>1 DEF QuietInv, BatchRead, StraysKnown
    <1>3. ~(happened \subseteq {"write"})
          BY DEF QuietInv, StraysKnown
    <1>4. ASSUME Quiet
          PROVE  due' = due /\ ~cfAlarm' /\ InOrder
      <2>1. ~Followed(pdu) /\ InOrder
            BY <1>4 DEF QuietInv, StraysKnown, Quiet
      <2>2. QED
            BY <2>1 DEF Receive, CfMismatch
    <1>5. Quiet' => InOrder'
      <2> SUFFICES ASSUME Quiet PROVE InOrder'
          BY <1>1 DEF Quiet
      <2>1. due' = due /\ InOrder
            BY <1>4
      <2>2. \A k \in due.k .. sent - 1 : \E p \in net' : p.from = 1 /\ p.k = k
            BY <1>1, <2>1 DEF InOrder
      <2>3. QED
            BY <1>1, <2>1, <2>2 DEF InOrder, Whole, Bad, NeedsEff
    <1>6. NoFalseAlarm'
          BY <1>1, <1>3, <1>4 DEF NoFalseAlarm, Quiet
    <1>7. QED
          BY <1>1, <1>2, <1>3, <1>5, <1>6 DEF QuietInv

\* A PDU that is sent takes its place at the end of those in the network.
LEMMA QuietSend ==
    ASSUME TypeOK, QuietInv, SendPdu(TRUE)
    PROVE  QuietInv'
    <1>1. /\ happened' = happened /\ due' = due /\ epoch' = epoch /\ sent' = sent + 1
          /\ net' = net \cup {Pack} /\ expUdp' = expUdp /\ cfAlarm' = cfAlarm
          /\ udpAlarm' = udpAlarm /\ txI' = 0 /\ txI = cfg.num
          BY DEF SendPdu, listener
    <1>2. Pack.from = epoch /\ Pack.k = sent /\ epoch \in Nat \ {0}
          BY DEF Pack, TypeOK
    <1>3. BatchRead'
          BY <1>1 DEF BatchRead
    <1>4. StraysKnown'
          BY <1>1, <1>2 DEF QuietInv, StraysKnown
    <1>5. Quiet' => InOrder'
      <2> SUFFICES ASSUME Quiet PROVE InOrder'
          BY <1>1 DEF Quiet
      <2>1. InOrder /\ BatchRead /\ "read" \notin happened
            BY DEF QuietInv, Quiet
      <2>2. Whole(Pack)
            BY <1>1, <2>1, PackIsWhole
      <2>3. Pack.from = 1 /\ due.k \in Nat /\ sent \in Nat /\ due.k <= sent
            BY <1>2, <2>1 DEF InOrder, TypeOK
      <2>4. ASSUME NEW p \in net', p.from # 0
            PROVE  p.from = 1 /\ p.k \in due'.k .. sent' - 1 /\ Whole(p)
        <3>1. CASE p = Pack
              BY <1>1, <1>2, <2>2, <2>3, <3>1
        <3>2. CASE p \in net
          <4>1. p.from = 1 /\ p.k \in due.k .. sent - 1 /\ Whole(p)
                BY <2>1, <2>4, <3>2 DEF InOrder
          <4>2. QED
                BY <1>1, <2>3, <4>1
        <3>3. QED
              BY <1>1, <3>1, <3>2
      <2>5. ASSUME NEW k \in due'.k .. sent' - 1
            PROVE  \E p \in net' : p.from = 1 /\ p.k = k
        <3>1. CASE k = sent
              BY <1>1, <1>2, <2>3, <3>1
        <3>2. CASE k # sent
          <4>1. k \in due.k .. sent - 1
                BY <1>1, <2>3, <3>2
          <4>2. QED
                BY <1>1, <2>1, <4>1 DEF InOrder
        <3>3. QED
              BY <3>1, <3>2
      <2>6. ASSUME NEW p \in net', NEW q \in net', p.from = 1, q.from = 1, p.k = q.k
            PROVE  p = q
        <3>1. \A r \in net : r.from = 1 => r.k # Pack.k
              BY <1>2, <2>1, <2>3 DEF InOrder
        <3>2. QED
              BY <1>1, <2>1, <2>6, <3>1 DEF InOrder
      <2>7. epoch' = 1 /\ due'.from = 1 /\ due'.k <= sent'
            BY <1>1, <2>1, <2>3 DEF InOrder
      <2>8. QED
            BY <2>4, <2>5, <2>6, <2>7 DEF InOrder, Whole, Bad, NeedsEff
    <1>6. NoFalseAlarm'
          BY <1>1 DEF NoFalseAlarm, QuietInv
    <1>7. QED
          BY <1>1, <1>3, <1>4, <1>5, <1>6 DEF QuietInv

\* After a fault there is nothing to show but where the PDUs come from.
LEMMA NotQuiet ==
    ASSUME BatchRead', StraysKnown', ~Quiet'
    PROVE  QuietInv'
    BY DEF QuietInv, NoFalseAlarm, Quiet

\* Every step either keeps the stream in order or is recorded as a fault.
LEMMA QuietStep ==
    ASSUME TypeOK, NumbersInv, QuietInv, [Next]_vars
    PROVE  QuietInv'
    <1> USE DEF QuietInv
    <1>1. ASSUME NEW kind \in cfg.traffic, ReadFrame(kind)
          PROVE  QuietInv'
      <2>1. BatchRead'
        <3>1. /\ txI \in 0 .. cfg.num /\ tx \in [1 .. cfg.num -> Frame] /\ Len(reads) \in Nat
              /\ cfg.num \in Nat
              BY ConfigFacts DEF TypeOK
        <3> DEFINE frame == [id |-> kind.id, eff |-> kind.eff, rtr |-> kind.rtr,
                             fdf |-> cfg.fd /\ kind.fdf, brs |-> cfg.fd /\ kind.brs,
                             esi |-> cfg.fd /\ kind.esi, data |-> Len(reads) + 1]
        <3>2. tx' = [tx EXCEPT ![txI + 1] = frame] /\ frame.data = Len(reads) + 1
              BY <1>1 DEF ReadFrame
        <3> HIDE DEF frame
        <3>3. txI' = txI + 1 /\ txI + 1 \in 1 .. cfg.num /\ happened' = happened
              BY <1>1, <3>1 DEF ReadFrame
        <3>4. tx'[txI + 1].data # Oversized
              BY <3>1, <3>2, <3>3 DEF Oversized
        <3>5. \A i \in 1 .. txI : tx'[i] = tx[i]
              BY <3>1, <3>2, <3>3
        <3>6. \A i \in 1 .. txI' : i = txI + 1 \/ i \in 1 .. txI
              BY <3>1, <3>3
        <3>7. QED
              BY <3>3, <3>4, <3>5, <3>6 DEF BatchRead
      <2>2. QED
            BY <1>1, <2>1 DEF ReadFrame, StraysKnown, Quiet, InOrder, NoFalseAlarm, listener,
                              Whole, Bad, NeedsEff
    <1>2. CASE ReadFails
          BY <1>2, NotQuiet DEF ReadFails, BatchRead, StraysKnown, Quiet
    <1>3. CASE Send
          BY <1>3, QuietSend DEF Send
    <1>4. CASE SendFails
      <2>1. BatchRead' /\ StraysKnown' /\ ~Quiet'
            BY <1>4 DEF SendFails, SendPdu, BatchRead, StraysKnown, Quiet
      <2>2. QED
            BY <2>1, NotQuiet
    <1>5. CASE RestartTalker
      <2>1. txI' = 0 /\ net' = net /\ happened' = happened \cup {"restart"}
            BY <1>5 DEF RestartTalker
      <2>2. BatchRead' /\ StraysKnown' /\ ~Quiet'
            BY <2>1 DEF BatchRead, StraysKnown, Quiet, QuietInv
      <2>3. QED
            BY <2>2, NotQuiet
    <1>6. CASE \E pdu \in net : Lose(pdu)
      <2>1. BatchRead' /\ StraysKnown' /\ ~Quiet'
            BY <1>6 DEF Lose, BatchRead, StraysKnown, Quiet, talker
      <2>2. QED
            BY <2>1, NotQuiet
    <1>7. ASSUME NEW pdu \in net, NEW i \in DOMAIN pdu.msgs, Damage(pdu, i)
          PROVE  QuietInv'
      <2> DEFINE damaged == [pdu EXCEPT !.msgs[i].ok = FALSE]
      <2>1. damaged.from # 0
            BY <1>7 DEF TypeOK, Pdu, Damage
      <2>2. net' = (net \ {pdu}) \cup {damaged}
            BY <1>7 DEF Damage
      <2> HIDE DEF damaged
      <2>3. BatchRead' /\ StraysKnown' /\ ~Quiet'
            BY <1>7, <2>1, <2>2 DEF Damage, BatchRead, StraysKnown, Quiet, talker
      <2>4. QED
            BY <2>3, NotQuiet
    <1>8. ASSUME NEW pdu \in cfg.strays, Stray(pdu)
          PROVE  QuietInv'
      <2>1. pdu.from = 0
            BY BridgeConstants DEF TypeOK
      <2>2. /\ net' = net \cup {pdu} /\ ~(happened' \subseteq {"write"})
            /\ Quiet' => Quiet /\ ~Followed(pdu)
            BY <1>8 DEF Stray, Quiet
      <2>3. BatchRead' /\ StraysKnown'
            BY <1>8, <2>1 DEF Stray, BatchRead, StraysKnown, talker
      <2>4. Quiet' => InOrder'
        <3> SUFFICES ASSUME Quiet' PROVE InOrder'
            OBVIOUS
        <3>1. InOrder /\ due' = due /\ sent' = sent /\ epoch' = epoch
              BY <1>8, <2>2 DEF Stray
        <3>2. \A k \in due.k .. sent - 1 : \E p \in net' : p.from = 1 /\ p.k = k
              BY <2>2, <3>1 DEF InOrder
        <3>3. QED
              BY <2>1, <2>2, <3>1, <3>2 DEF InOrder, Whole, Bad, NeedsEff
      <2>5. NoFalseAlarm'
            BY <1>8, <2>2 DEF Stray, NoFalseAlarm, Quiet, listener
      <2>6. QED
            BY <2>2, <2>3, <2>4, <2>5
    <1>9. CASE Take
          BY <1>9, QuietTake DEF Take
    <1>10. CASE TakeStray
          BY <1>10, QuietTakeStray DEF TakeStray
    <1>11. CASE TakeCopy
      <2>1. BatchRead' /\ StraysKnown' /\ ~Quiet'
            BY <1>11 DEF TakeCopy, Receive, BatchRead, StraysKnown, Quiet, talker
      <2>2. QED
            BY <2>1, NotQuiet
    <1>12. ASSUME NEW ok \in BOOLEAN, WriteFrame(ok)
           PROVE  QuietInv'
      <2>1. /\ Quiet' <=> Quiet
            /\ happened' \subseteq {"write"} <=> happened \subseteq {"write"}
            BY <1>12 DEF WriteFrame, Quiet
      <2>2. /\ net' = net /\ due' = due /\ sent' = sent /\ epoch' = epoch /\ expUdp' = expUdp
            /\ cfAlarm' = cfAlarm /\ udpAlarm' = udpAlarm
            BY <1>12 DEF WriteFrame, talker
      <2>3. BatchRead' /\ StraysKnown'
            BY <1>12 DEF WriteFrame, talker, BatchRead, StraysKnown
      <2>4. InOrder => InOrder'
            BY <2>2 DEF InOrder, Whole, Bad, NeedsEff
      <2>5. NoFalseAlarm'
            BY <2>1, <2>2 DEF NoFalseAlarm, Quiet
      <2>6. QED
            BY <2>1, <2>2, <2>3, <2>4, <2>5
    <1>13. CASE RestartListener
      <2>1. BatchRead' /\ StraysKnown' /\ ~Quiet'
            BY <1>13 DEF RestartListener, BatchRead, StraysKnown, Quiet, talker
      <2>2. QED
            BY <2>1, NotQuiet
    <1>14. CASE UNCHANGED vars
           BY <1>14 DEF vars, talker, listener, history, BatchRead, StraysKnown, Quiet, InOrder,
                        NoFalseAlarm, Whole, Bad, NeedsEff
    <1>15. QED
           BY <1>1, <1>2, <1>3, <1>4, <1>5, <1>6, <1>7, <1>8, <1>9, <1>10, <1>11, <1>12, <1>13,
              <1>14 DEF Next, Write, WriteFails

\* Before the first PDU the stream is in order.
LEMMA QuietInit == Init => QuietInv
    <1> SUFFICES ASSUME Init PROVE QuietInv
        OBVIOUS
    <1>1. BatchRead /\ StraysKnown /\ NoFalseAlarm
          BY DEF Init, BatchRead, StraysKnown, NoFalseAlarm
    <1>2. InOrder
          BY DEF Init, InOrder
    <1>3. 0 % CtrMod = 0
          BY PduConstants
    <1>4. QED
          BY <1>1, <1>2, <1>3 DEF Init, QuietInv

\* However often the counters wrap and whatever other senders put on the network,
\* the listener reports no wrong number in a stream to which nothing happened.
THEOREM SilentWithoutFaults == Spec => []NoFalseAlarm
    <1>1. TypeOK /\ NumbersInv /\ QuietInv /\ [Next]_vars
              => (TypeOK /\ NumbersInv /\ QuietInv)'
          BY TypeStep, NumbersStep, QuietStep
    <1>2. Init => TypeOK /\ NumbersInv /\ QuietInv
          BY TypeInit, NumbersInit, QuietInit
    <1>3. QuietInv => NoFalseAlarm
          BY DEF QuietInv
    <1>4. QED
          BY <1>1, <1>2, <1>3, PTL DEF Spec

---------------------------------------------------------------------------
(* Where the frames come from *)

\* What of a frame arrives if the socket is CAN FD or not.
CarriedBy(frame, fd) == [frame EXCEPT !.eff = frame.id > StdMax, !.fdf = fd]

\* A slot of the talker's batch holds the frame with its number among those read.
InSlot(f, rs) == f.data \in DOMAIN rs /\ f = rs[f.data]

\* A message will be unpacked into a frame that was read, or it is of a slot that
\* was not filled because read() failed.
InMessage(m, rs, fd, faults) ==
    \/ m.data \in DOMAIN rs /\ Unpacked(Blank, m, fd) = CarriedBy(rs[m.data], fd)
    \/ "read" \in faults /\ (m.data = 0 \/ ~m.ok)

\* The same of a frame the listener writes.
InFrame(f, rs, fd, faults) ==
    \/ f.data \in DOMAIN rs /\ f = CarriedBy(rs[f.data], fd)
    \/ "read" \in faults /\ f.data = 0

\* Only a CAN FD socket reads frames with the CAN FD flags.  Each slot holds a frame
\* that was read, now or for an earlier batch, or what was in memory before.
Source ==
    /\ \A d \in DOMAIN reads : (reads[d].brs => cfg.fd) /\ (reads[d].esi => cfg.fd)
    /\ \A i \in 1 .. cfg.num : InSlot(tx[i], reads) \/ tx[i].data \in {0, Oversized}
    /\ "read" \notin happened => \A i \in 1 .. txI : InSlot(tx[i], reads)

Genuine(p, c, rs, faults) ==
    IF p.from = 0 THEN p \in c.strays
    ELSE /\ Len(p.msgs) = c.num
         /\ \A i \in 1 .. c.num : InMessage(p.msgs[i], rs, c.fd, faults)

\* The PDUs of the network are whole batches, damaged or not, or other senders'.
Transit == \A p \in net : Genuine(p, cfg, reads, happened)

\* The frames of the last PDU that are still to be written, and all those that
\* were, are frames that were read.
Arrived == \A i \in rxI + 1 .. rxN : InFrame(rx[i], reads, cfg.fd, happened)

Written == \A i \in DOMAIN written : InFrame(written[i], reads, cfg.fd, happened)

Multiple(x, num) == \E q \in Nat : x = num * q

\* Between two PDUs the listener has written whole batches.
Lumps ==
    /\ rxN \in {0, cfg.num}
    /\ happened \cap {"write", "restart"} = {} => Multiple(Len(written) - rxI, cfg.num)

\* NothingStale and AllOrNothing are about what is written; what makes them hold is
\* where the frames in memory and on the network come from.
OriginInv == Source /\ Transit /\ Arrived /\ Written /\ Lumps

---------------------------------------------------------------------------
(* Frames stay what they are *)

\* The frames read earlier stay where they are when one is added.
Grown(rs, ss) == \A d \in DOMAIN rs : d \in DOMAIN ss /\ ss[d] = rs[d]

\* A frame read adds to those read before and changes none.
LEMMA ReadsGrow ==
    ASSUME NEW rs \in Seq(Frame), NEW f \in Frame
    PROVE  Grown(rs, rs) /\ Grown(rs, Append(rs, f))
    BY DEF Grown

\* What a message will be unpacked into stays a frame that was read.
LEMMA MessageKeeps ==
    ASSUME NEW m, NEW rs, NEW ss, NEW fd, NEW g, NEW h, Grown(rs, ss), g \subseteq h,
           InMessage(m, rs, fd, g)
    PROVE  InMessage(m, ss, fd, h)
    BY DEF InMessage, Grown

\* So does a frame.
LEMMA FrameKeeps ==
    ASSUME NEW f, NEW rs, NEW ss, NEW fd, NEW g, NEW h, Grown(rs, ss), g \subseteq h,
           InFrame(f, rs, fd, g)
    PROVE  InFrame(f, ss, fd, h)
    BY DEF InFrame, Grown

\* So does a slot of the batch.
LEMMA SlotKeeps ==
    ASSUME NEW f, NEW rs, NEW ss, Grown(rs, ss), InSlot(f, rs)
    PROVE  InSlot(f, ss)
    BY DEF InSlot, Grown

\* So does a PDU.
LEMMA PduKeeps ==
    ASSUME NEW p, NEW c, NEW rs, NEW ss, NEW g, NEW h, Grown(rs, ss), g \subseteq h,
           Genuine(p, c, rs, g)
    PROVE  Genuine(p, c, ss, h)
    BY MessageKeeps DEF Genuine

\* Steps at the other end of the bridge do not change what the talker holds,
LEMMA SourceKeeps ==
    ASSUME Source, cfg' = cfg, tx' = tx, txI' = txI, reads' = reads, happened \subseteq happened'
    PROVE  Source'
    BY DEF Source

\* nor what is in the network,
LEMMA TransitKeeps ==
    ASSUME Transit, cfg' = cfg, net' \subseteq net, Grown(reads, reads'),
           happened \subseteq happened'
    PROVE  Transit'
    BY PduKeeps DEF Transit

\* nor what is left to write,
LEMMA ArrivedKeeps ==
    ASSUME Arrived, cfg' = cfg, rx' = rx, rxN' = rxN, rxI' = rxI, Grown(reads, reads'),
           happened \subseteq happened'
    PROVE  Arrived'
    BY FrameKeeps DEF Arrived

\* nor what was written.
LEMMA WrittenKeeps ==
    ASSUME Written, cfg' = cfg, written' = written, Grown(reads, reads'),
           happened \subseteq happened'
    PROVE  Written'
    BY FrameKeeps DEF Written

\* Batches stay whole while nothing is written.
LEMMA LumpsKeep ==
    ASSUME Lumps, cfg' = cfg, rxN' = rxN, rxI' = rxI, written' = written,
           happened \subseteq happened'
    PROVE  Lumps'
    BY DEF Lumps

---------------------------------------------------------------------------
(* Frames keep their origin *)

\* Packing and unpacking a frame keeps all of it but EFF, which follows the
\* identifier, and FDF, which follows the socket.
LEMMA CarriedThrough ==
    ASSUME NEW f \in Frame, NEW fd \in BOOLEAN, f.brs => fd, f.esi => fd
    PROVE  Unpacked(Blank, prepare_acf_packet(f, fd), fd) = CarriedBy(f, fd)
    <1> DEFINE m == prepare_acf_packet(f, fd)
               u == Unpacked(Blank, m, fd)
               c == CarriedBy(f, fd)
    <1>1. f = [id |-> f.id, eff |-> f.eff, rtr |-> f.rtr, fdf |-> f.fdf, brs |-> f.brs,
               esi |-> f.esi, data |-> f.data]
          BY DEF Frame
    <1>2. c = [id |-> f.id, eff |-> f.id > StdMax, rtr |-> f.rtr, fdf |-> fd, brs |-> f.brs,
               esi |-> f.esi, data |-> f.data]
      <2>1. ASSUME NEW e, NEW d
            PROVE  [f EXCEPT !.eff = e, !.fdf = d]
                     = [id |-> f.id, eff |-> e, rtr |-> f.rtr, fdf |-> d, brs |-> f.brs,
                        esi |-> f.esi, data |-> f.data]
        <3> DEFINE g == [f EXCEPT !.eff = e]
        <3>1. g = [id |-> f.id, eff |-> e, rtr |-> f.rtr, fdf |-> f.fdf, brs |-> f.brs,
                   esi |-> f.esi, data |-> f.data]
              BY <1>1
        <3>2. [f EXCEPT !.eff = e, !.fdf = d] = [g EXCEPT !.fdf = d]
              OBVIOUS
        <3> HIDE DEF g
        <3>3. QED
              BY <3>1, <3>2
      <2>2. QED
            BY <2>1, Zenon DEF CarriedBy
    <1>3. /\ m.id = f.id /\ m.eff = (f.id > StdMax) /\ m.rtr = f.rtr /\ m.data = f.data
          /\ m.fdf = fd /\ m.brs = (fd /\ f.brs) /\ m.esi = (fd /\ f.esi)
          BY Zenon DEF prepare_acf_packet
    <1>4. f.brs \in BOOLEAN /\ f.esi \in BOOLEAN
          BY DEF Frame
    <1>5. Blank.fdf = FALSE /\ Blank.brs = FALSE /\ Blank.esi = FALSE
          BY Zenon DEF Blank
    <1> HIDE DEF m, c
    <1>6. /\ (Blank.fdf \/ (fd /\ m.fdf)) = fd
          /\ (Blank.brs \/ (fd /\ m.brs)) = f.brs
          /\ (Blank.esi \/ (fd /\ m.esi)) = f.esi
          BY <1>3, <1>4, <1>5
    <1>7. u = [id |-> f.id, eff |-> f.id > StdMax, rtr |-> f.rtr, fdf |-> fd, brs |-> f.brs,
               esi |-> f.esi, data |-> f.data]
          BY <1>3, <1>6, Zenon DEF Unpacked
    <1>8. u = c
          BY <1>2, <1>7
    <1>9. QED
          BY <1>8 DEF m, c

\* The frames of a batch are those read for it, unless a read failed.
LEMMA PackIsGenuine ==
    ASSUME TypeOK, Source, txI = cfg.num
    PROVE  Genuine(Pack, cfg, reads, happened)
    <1>1. cfg.num \in Nat /\ cfg.fd \in BOOLEAN
          BY ConfigFacts DEF TypeOK
    <1>2. Pack.msgs = [i \in 1 .. cfg.num |-> prepare_acf_packet(tx[i], cfg.fd)]
          BY DEF Pack, can_to_avtp
    <1>3. Pack.msgs \in Seq(Message) /\ Pack.from # 0
      <2>1. Pack.from = epoch
            BY DEF Pack
      <2>2. QED
            BY <2>1, PackedPdu DEF Pdu, TypeOK
    <1>4. Len(Pack.msgs) = cfg.num
          BY <1>1, <1>2, <1>3
    <1>5. ASSUME NEW i \in 1 .. cfg.num
          PROVE  InMessage(Pack.msgs[i], reads, cfg.fd, happened)
      <2> DEFINE m == prepare_acf_packet(tx[i], cfg.fd)
      <2>1. Pack.msgs[i] = m /\ tx[i] \in Frame
            BY <1>2 DEF TypeOK
      <2>2. m.data = tx[i].data /\ m.ok = (tx[i].data # Oversized)
            BY Zenon DEF prepare_acf_packet
      <2>3. CASE InSlot(tx[i], reads)
        <3>1. (tx[i].brs => cfg.fd) /\ (tx[i].esi => cfg.fd)
              BY <2>3 DEF Source, InSlot
        <3>2. Unpacked(Blank, m, cfg.fd) = CarriedBy(tx[i], cfg.fd)
              BY <1>1, <2>1, <3>1, CarriedThrough
        <3> HIDE DEF m
        <3>3. QED
              BY <2>1, <2>2, <2>3, <3>2 DEF InMessage, InSlot
      <2>4. CASE ~InSlot(tx[i], reads)
        <3>1. "read" \in happened /\ tx[i].data \in {0, Oversized}
              BY <2>4 DEF Source
        <3> HIDE DEF m
        <3>2. QED
              BY <2>1, <2>2, <3>1 DEF InMessage
      <2>5. QED
            BY <2>3, <2>4
    <1>6. QED
          BY <1>3, <1>4, <1>5 DEF Genuine

\* A damaged PDU differs in nothing that would be written.
LEMMA DamagedIsGenuine ==
    ASSUME NEW p \in Pdu, p.from # 0, NEW i \in DOMAIN p.msgs, NEW c, NEW rs, NEW h,
           c.num \in Nat, Genuine(p, c, rs, h)
    PROVE  Genuine([p EXCEPT !.msgs[i].ok = FALSE], c, rs, h)
    <1> DEFINE m == [p.msgs[i] EXCEPT !.ok = FALSE]
               ms == [p.msgs EXCEPT ![i] = m]
               d == [p EXCEPT !.msgs[i].ok = FALSE]
    <1>1. p.msgs \in Seq(Message) /\ p.msgs[i] \in Message
          BY DEF Pdu
    <1>2. d = [p EXCEPT !.msgs = ms]
          BY <1>1 DEF Pdu
    <1>3. m \in Message /\ ~m.ok /\ m.data = p.msgs[i].data
          BY <1>1 DEF Message
    <1>4. Unpacked(Blank, m, c.fd) = Unpacked(Blank, p.msgs[i], c.fd)
          BY <1>1 DEF Unpacked, Message
    <1> HIDE DEF m
    <1>5. ms \in Seq(Message) /\ Len(ms) = Len(p.msgs) /\ DOMAIN ms = DOMAIN p.msgs
          /\ ms[i] = m /\ \A j \in DOMAIN p.msgs : j # i => ms[j] = p.msgs[j]
          BY <1>1, <1>3
    <1>6. d.from = p.from /\ d.msgs = ms
          BY <1>2 DEF Pdu
    <1> HIDE DEF ms, d
    <1>7. Len(p.msgs) = c.num /\ DOMAIN p.msgs = 1 .. c.num
          BY <1>1 DEF Genuine
    <1>8. InMessage(m, rs, c.fd, h)
      <2>1. InMessage(p.msgs[i], rs, c.fd, h)
            BY <1>7 DEF Genuine
      <2>2. QED
            BY <2>1, <1>3, <1>4 DEF InMessage
    <1>9. \A j \in 1 .. c.num : InMessage(d.msgs[j], rs, c.fd, h)
          BY <1>5, <1>6, <1>7, <1>8 DEF Genuine
    <1>10. Genuine(d, c, rs, h)
          BY <1>5, <1>6, <1>7, <1>9 DEF Genuine
    <1>11. QED
          BY <1>10 DEF d

\* What avtp_to_can recovers is a whole batch of frames, or nothing.
LEMMA RecoveredIsGenuine ==
    ASSUME TypeOK, NEW p \in Pdu, Genuine(p, cfg, reads, happened), Recovered(p) >= 0
    PROVE  /\ Recovered(p) = IF p.from = 0 THEN 0 ELSE cfg.num
           /\ \A i \in 1 .. Recovered(p) :
                 /\ SlotsAfter(p, rx, cfg.fd)[i].data = p.msgs[i].data
                 /\ InFrame(SlotsAfter(p, rx, cfg.fd)[i], reads, cfg.fd, happened)
    <1>1. Followed(p) /\ Bad(p) = {} /\ Recovered(p) = Len(p.msgs)
          BY DEF Recovered
    <1>2. p.msgs \in Seq(Message) /\ cfg \in Configs /\ MaxFrames \in Nat /\ cfg.num \in Nat
          BY ConfigFacts DEF Pdu, TypeOK
    <1>3. CASE p.from = 0
      <2>0. Len(p.msgs) > MaxFrames => MaxFrames + 1 \in Bad(p)
            BY <1>2 DEF Bad
      <2>1. p.msgs = <<>>
            BY <1>1, <1>2, <1>3, <2>0, OneTalker DEF Genuine, Bad
      <2>2. QED
            BY <1>1, <1>3, <2>1
    <1>4. CASE p.from # 0
      <2>1. Len(p.msgs) = cfg.num /\ DOMAIN p.msgs = 1 .. cfg.num /\ cfg.num \in 1 .. MaxFrames
            BY <1>2, <1>4, ConfigFacts DEF Genuine
      <2>2. ASSUME NEW i \in 1 .. cfg.num
            PROVE  /\ SlotsAfter(p, rx, cfg.fd)[i].data = p.msgs[i].data
                   /\ InFrame(SlotsAfter(p, rx, cfg.fd)[i], reads, cfg.fd, happened)
        <3> DEFINE u == Unpacked(Blank, p.msgs[i], cfg.fd)
        <3>1. i \in 1 .. MaxFrames
              BY <1>2, <2>1
        <3>2. SlotsAfter(p, rx, cfg.fd)[i] = u
              BY <1>1, <2>1, <3>1 DEF SlotsAfter, Cleared
        <3>3. u.data = p.msgs[i].data
              BY Zenon DEF Unpacked
        <3>4. p.msgs[i].ok
              BY <1>1, <2>1 DEF Bad
        <3>5. InMessage(p.msgs[i], reads, cfg.fd, happened)
              BY <1>4 DEF Genuine
        <3>6. InFrame(u, reads, cfg.fd, happened)
              BY <3>3, <3>4, <3>5 DEF InMessage, InFrame
        <3>7. QED
              BY <3>2, <3>3, <3>6
      <2>3. QED
            BY <1>1, <1>4, <2>1, <2>2
    <1>5. QED
          BY <1>3, <1>4

---------------------------------------------------------------------------
(* One step per action *)

\* Whole batches and one more are whole batches.
LEMMA WholeBatches ==
    ASSUME NEW num \in Nat
    PROVE  Multiple(0, num) /\ \A x \in Int : Multiple(x, num) => Multiple(x + num, num)
    <1>1. Multiple(0, num)
      <2>1. 0 = num * 0
            OBVIOUS
      <2>2. QED
            BY <2>1 DEF Multiple
    <1>2. ASSUME NEW x \in Int, Multiple(x, num)
          PROVE  Multiple(x + num, num)
      <2>1. PICK q \in Nat : x = num * q
            BY <1>2 DEF Multiple
      <2>2. x + num = num * (q + 1) /\ q + 1 \in Nat
            BY <2>1
      <2>3. QED
            BY <2>2 DEF Multiple
    <1>3. QED
          BY <1>1, <1>2

\* So are those written when a batch was written to its end, or not begun.
LEMMA LastBatch ==
    ASSUME NEW num \in Nat, NEW n \in Nat, NEW r \in {0, num}, Multiple(n - r, num)
    PROVE  Multiple(n, num)
    <1> DEFINE x == n - r
    <1>1. x \in Int /\ Multiple(x, num) /\ n = x + r
          OBVIOUS
    <1> HIDE DEF x
    <1>2. CASE r = 0
      <2>1. n = x
            BY <1>1, <1>2
      <2>2. QED
            BY <1>1, <2>1
    <1>3. CASE r = num
          BY <1>1, <1>3, WholeBatches
    <1>4. QED
          BY <1>2, <1>3

\* Both ends start empty.
LEMMA OriginInit == Init => OriginInv
    <1> SUFFICES ASSUME Init PROVE OriginInv
        OBVIOUS
    <1>1. cfg \in Configs /\ cfg.num \in Nat
          BY ConfigFacts DEF Init
    <1>2. Source
      <2>1. \A i \in 1 .. cfg.num : tx[i] \in cfg.leftovers
            BY DEF Init
      <2>2. \A i \in 1 .. cfg.num : tx[i].data \in {0, Oversized}
            BY <1>1, <2>1, BridgeConstants
      <2>3. reads = <<>> /\ txI = 0
            BY DEF Init
      <2>4. QED
            BY <2>2, <2>3 DEF Source
    <1>3. Transit /\ Arrived /\ Written
          BY DEF Init, Transit, Arrived, Written
    <1>4. Lumps
      <2>1. Len(written) - rxI = 0 /\ rxN = 0
            BY DEF Init
      <2>2. QED
            BY <1>1, <2>1, WholeBatches DEF Lumps
    <1>5. QED
          BY <1>2, <1>3, <1>4 DEF OriginInv

\* A frame that is read is stored in its slot.
LEMMA OriginReadFrame ==
    ASSUME TypeOK, OriginInv, NEW kind \in cfg.traffic, ReadFrame(kind)
    PROVE  OriginInv'
    <1> DEFINE frame == [id |-> kind.id, eff |-> kind.eff, rtr |-> kind.rtr,
                         fdf |-> cfg.fd /\ kind.fdf, brs |-> cfg.fd /\ kind.brs,
                         esi |-> cfg.fd /\ kind.esi, data |-> Len(reads) + 1]
    <1>1. /\ tx' = [tx EXCEPT ![txI + 1] = frame] /\ reads' = Append(reads, frame)
          /\ txI' = txI + 1 /\ txI < cfg.num
          /\ UNCHANGED <<cfg, net, rx, rxN, rxI, written, happened>>
          BY DEF ReadFrame, listener
    <1>2. reads' \in Seq(Frame) /\ reads \in Seq(Frame)
          BY TypeStep DEF TypeOK, Next
    <1>3. frame.data = Len(reads) + 1 /\ (frame.brs => cfg.fd) /\ (frame.esi => cfg.fd)
          BY Zenon
    <1> HIDE DEF frame
    <1>4. frame \in Frame
      <2>1. reads'[Len(reads) + 1] = frame /\ Len(reads) + 1 \in DOMAIN reads'
            BY <1>1, <1>2
      <2>2. QED
            BY <1>2, <2>1
    <1>5. Grown(reads, reads')
          BY <1>1, <1>2, <1>4, ReadsGrow
    <1>6. InSlot(frame, reads')
          BY <1>1, <1>2, <1>3, <1>4 DEF InSlot
    <1>7. Source'
      <2>1. /\ tx \in [1 .. cfg.num -> Frame] /\ txI \in 0 .. cfg.num /\ cfg.num \in Nat
            BY ConfigFacts DEF TypeOK
      <2>2. ASSUME NEW d \in DOMAIN reads'
            PROVE  (reads'[d].brs => cfg.fd) /\ (reads'[d].esi => cfg.fd)
        <3>1. CASE d \in DOMAIN reads
              BY <1>5, <3>1 DEF Grown, Source, OriginInv
        <3>2. CASE d \notin DOMAIN reads
          <4>1. reads'[d] = frame
                BY <1>1, <1>2, <1>4, <3>2
          <4>2. QED
                BY <1>3, <4>1
        <3>3. QED
              BY <3>1, <3>2
      <2>3. ASSUME NEW i \in 1 .. cfg.num
            PROVE  InSlot(tx'[i], reads') \/ tx'[i].data \in {0, Oversized}
        <3>1. CASE i = txI + 1
              BY <1>1, <1>6, <2>1, <3>1
        <3>2. CASE i # txI + 1
          <4>1. tx'[i] = tx[i]
                BY <1>1, <2>1, <3>2
          <4>2. QED
                BY <1>5, <4>1, SlotKeeps DEF Source, OriginInv
        <3>3. QED
              BY <3>1, <3>2
      <2>4. ASSUME "read" \notin happened, NEW i \in 1 .. txI'
            PROVE  InSlot(tx'[i], reads')
        <3>1. CASE i = txI + 1
              BY <1>1, <1>6, <2>1, <3>1
        <3>2. CASE i # txI + 1
          <4>1. tx'[i] = tx[i] /\ i \in 1 .. txI
                BY <1>1, <2>1, <3>2
          <4>2. QED
                BY <1>5, <2>4, <4>1, SlotKeeps DEF Source, OriginInv
        <3>3. QED
              BY <3>1, <3>2
      <2>5. QED
            BY <1>1, <2>2, <2>3, <2>4 DEF Source
    <1>8. Transit' /\ Arrived' /\ Written' /\ Lumps'
          BY <1>1, <1>5, TransitKeeps, ArrivedKeeps, WrittenKeeps, LumpsKeep DEF OriginInv
    <1>9. QED
          BY <1>7, <1>8 DEF OriginInv

\* A read that fails counts a slot as filled, and is remembered.
LEMMA OriginReadFails ==
    ASSUME TypeOK, OriginInv, ReadFails
    PROVE  OriginInv'
    <1>1. /\ UNCHANGED <<cfg, tx, net, rx, rxN, rxI, reads, written>>
          /\ happened' = happened \cup {"read"} /\ txI' = txI + 1
          BY DEF ReadFails, listener
    <1>2. Source'
          BY <1>1 DEF Source, OriginInv
    <1>3. Grown(reads, reads')
          BY <1>1 DEF Grown
    <1>4. Transit' /\ Arrived' /\ Written' /\ Lumps'
          BY <1>1, <1>3, TransitKeeps, ArrivedKeeps, WrittenKeeps, LumpsKeep DEF OriginInv
    <1>5. QED
          BY <1>2, <1>4 DEF OriginInv

\* A PDU sent is a batch.
LEMMA OriginSend ==
    ASSUME TypeOK, OriginInv, NEW ok \in BOOLEAN, SendPdu(ok)
    PROVE  OriginInv'
    <1>1. /\ UNCHANGED <<cfg, tx, rx, rxN, rxI, reads, written>>
          /\ txI = cfg.num /\ txI' = 0
          /\ net' \subseteq net \cup {Pack}
          /\ happened' \in {happened, happened \cup {"send"}}
          BY DEF SendPdu, listener
    <1>2. happened \subseteq happened' /\ Grown(reads, reads')
          BY <1>1 DEF Grown
    <1>3. Source'
          BY <1>1 DEF Source, OriginInv
    <1>4. Transit'
      <2>1. ASSUME NEW p \in net'
            PROVE  Genuine(p, cfg, reads, happened)
        <3>1. Genuine(Pack, cfg, reads, happened)
              BY <1>1, PackIsGenuine DEF OriginInv
        <3>2. QED
              BY <1>1, <3>1 DEF OriginInv, Transit
      <2>2. QED
            BY <1>1, <1>2, <2>1, PduKeeps DEF Transit
    <1>5. Arrived' /\ Written' /\ Lumps'
          BY <1>1, <1>2, ArrivedKeeps, WrittenKeeps, LumpsKeep DEF OriginInv
    <1>6. QED
          BY <1>3, <1>4, <1>5 DEF OriginInv

\* A new talker starts with what is in memory.
LEMMA OriginRestartTalker ==
    ASSUME TypeOK, OriginInv, RestartTalker
    PROVE  OriginInv'
    <1>1. /\ UNCHANGED <<cfg, net, rx, rxN, rxI, reads, written>>
          /\ txI' = 0 /\ tx' \in [1 .. cfg.num -> cfg.leftovers]
          /\ happened \subseteq happened'
          BY DEF RestartTalker, listener
    <1>2. Source'
      <2>1. \A i \in 1 .. cfg.num : tx'[i].data \in {0, Oversized}
            BY <1>1, BridgeConstants DEF TypeOK
      <2>2. QED
            BY <1>1, <2>1 DEF Source, OriginInv
    <1>3. Grown(reads, reads')
          BY <1>1 DEF Grown
    <1>4. Transit' /\ Arrived' /\ Written' /\ Lumps'
          BY <1>1, <1>3, TransitKeeps, ArrivedKeeps, WrittenKeeps, LumpsKeep DEF OriginInv
    <1>5. QED
          BY <1>2, <1>4 DEF OriginInv

\* The network drops PDUs, damages them and takes other senders'.
LEMMA OriginNetwork ==
    ASSUME TypeOK, OriginInv,
           \/ \E pdu \in net : Lose(pdu)
           \/ \E pdu \in net : \E i \in DOMAIN pdu.msgs : Damage(pdu, i)
           \/ \E pdu \in cfg.strays : Stray(pdu)
    PROVE  OriginInv'
    <1>1. UNCHANGED <<cfg, tx, txI, rx, rxN, rxI, reads, written>> /\ happened \subseteq happened'
          BY DEF Lose, Damage, Stray, talker, listener
    <1>2. Grown(reads, reads')
          BY <1>1 DEF Grown
    <1>3. \A p \in net' : Genuine(p, cfg, reads, happened)
      <2>1. \A p \in net : Genuine(p, cfg, reads, happened)
            BY DEF OriginInv, Transit
      <2>2. CASE \E pdu \in net : Lose(pdu)
            BY <2>1, <2>2 DEF Lose
      <2>3. ASSUME NEW pdu \in net, NEW i \in DOMAIN pdu.msgs, Damage(pdu, i)
            PROVE  \A p \in net' : Genuine(p, cfg, reads, happened)
        <3>1. pdu \in Pdu /\ pdu.from # 0 /\ cfg.num \in Nat
              BY <2>3, ConfigFacts DEF Damage, TypeOK
        <3>2. Genuine([pdu EXCEPT !.msgs[i].ok = FALSE], cfg, reads, happened)
              BY <2>1, <3>1, DamagedIsGenuine
        <3>3. net' = (net \ {pdu}) \cup {[pdu EXCEPT !.msgs[i].ok = FALSE]}
              BY <2>3 DEF Damage
        <3>4. QED
              BY <2>1, <3>2, <3>3
      <2>4. ASSUME NEW pdu \in cfg.strays, Stray(pdu)
            PROVE  \A p \in net' : Genuine(p, cfg, reads, happened)
        <3>1. pdu.from = 0 /\ net' = net \cup {pdu}
              BY <2>4, BridgeConstants DEF TypeOK, Stray
        <3>2. Genuine(pdu, cfg, reads, happened)
              BY <3>1 DEF Genuine
        <3>3. QED
              BY <2>1, <3>1, <3>2
      <2>5. QED
            BY <2>2, <2>3, <2>4
    <1>4. Transit'
          BY <1>1, <1>2, <1>3, PduKeeps DEF Transit
    <1>5. Source' /\ Arrived' /\ Written' /\ Lumps'
          BY <1>1, <1>2, SourceKeeps, ArrivedKeeps, WrittenKeeps, LumpsKeep DEF OriginInv
    <1>6. QED
          BY <1>4, <1>5 DEF OriginInv

\* A PDU is taken when nothing is left to write of the one before.
LEMMA OriginReceive ==
    ASSUME TypeOK, OriginInv, NEW pdu \in net, NEW gone \in BOOLEAN, Receive(pdu, gone)
    PROVE  OriginInv'
    <1> DEFINE n == Recovered(pdu)
    <1>1. /\ UNCHANGED <<cfg, tx, txI, reads, written>> /\ happened \subseteq happened'
          /\ rxI = rxN /\ net' \subseteq net /\ rx' = SlotsAfter(pdu, rx, cfg.fd)
          /\ IF Counts(n) THEN rxN' = n /\ rxI' = 0 ELSE UNCHANGED <<rxN, rxI>>
          BY DEF Receive, talker
    <1>2. Grown(reads, reads')
          BY <1>1 DEF Grown
    <1>3. /\ pdu \in Pdu /\ cfg \in Configs /\ n \in Int /\ cfg.num \in Nat
          /\ Genuine(pdu, cfg, reads, happened)
          /\ rxN \in Nat /\ Len(written) \in Nat
      <2>1. n \in Int
            BY RecoveredRange, PduConstants DEF TypeOK
      <2>2. QED
            BY <2>1, ConfigFacts DEF TypeOK, OriginInv, Transit
    <1> HIDE DEF n
    <1>4. CASE Counts(n)
      <2>1. n >= 0
            BY <1>3, <1>4, CountsFacts
      <2>2. /\ n = IF pdu.from = 0 THEN 0 ELSE cfg.num
            /\ \A i \in 1 .. n : InFrame(rx'[i], reads, cfg.fd, happened)
            BY <1>1, <1>3, <2>1, RecoveredIsGenuine DEF n
      <2>3. Arrived'
        <3>1. rxI' + 1 = 1 /\ rxN' = n
              BY <1>1, <1>4
        <3>2. QED
              BY <1>1, <1>2, <2>2, <3>1, FrameKeeps DEF Arrived
      <2>4. Lumps'
        <3>1. rxN' \in {0, cfg.num} /\ rxI' = 0
              BY <1>1, <1>4, <2>2
        <3>2. ASSUME happened' \cap {"write", "restart"} = {}
              PROVE  Multiple(Len(written') - rxI', cfg.num)
          <4>1. Multiple(Len(written) - rxI, cfg.num) /\ rxI \in {0, cfg.num}
                BY <1>1, <3>2 DEF OriginInv, Lumps
          <4>2. Multiple(Len(written), cfg.num)
                BY <1>3, <4>1, LastBatch
          <4>3. Len(written') - rxI' = Len(written)
                BY <1>1, <1>3, <3>1
          <4>4. QED
                BY <4>2, <4>3
        <3>3. QED
              BY <1>1, <3>1, <3>2 DEF Lumps
      <2>5. QED
            BY <1>1, <1>2, <2>3, <2>4, SourceKeeps, TransitKeeps, WrittenKeeps DEF OriginInv
    <1>5. CASE ~Counts(n)
      <2>1. rxN' = rxN /\ rxI' = rxI
            BY <1>1, <1>5
      <2>2. Arrived'
        <3>1. rxI' + 1 .. rxN' = {}
              BY <1>1, <1>3, <2>1
        <3>2. QED
              BY <3>1 DEF Arrived
      <2>3. Lumps'
            BY <1>1, <2>1, LumpsKeep DEF OriginInv
      <2>4. QED
            BY <1>1, <1>2, <2>2, <2>3, SourceKeeps, TransitKeeps, WrittenKeeps DEF OriginInv
    <1>6. QED
          BY <1>4, <1>5

\* Each frame of the PDU is written once, from its own slot.
LEMMA OriginWrite ==
    ASSUME TypeOK, OriginInv, NEW ok \in BOOLEAN, WriteFrame(ok)
    PROVE  OriginInv'
    <1>1. /\ UNCHANGED <<cfg, tx, txI, net, rx, rxN, reads>> /\ happened \subseteq happened'
          /\ rxI < rxN /\ rxI' = rxI + 1
          /\ written' = IF ok THEN Append(written, rx[rxI + 1]) ELSE written
          /\ ~ok => "write" \in happened'
          BY DEF WriteFrame, talker
    <1>2. Grown(reads, reads')
          BY <1>1 DEF Grown
    <1>3. /\ rxN \in 0 .. MaxFrames /\ rxI \in 0 .. rxN /\ written \in Seq(Frame)
          /\ rx \in [1 .. MaxFrames -> Frame] /\ MaxFrames \in Nat /\ cfg.num \in Nat
          BY ConfigFacts DEF TypeOK
    <1>4. rxI + 1 \in rxI + 1 .. rxN /\ rxI + 1 \in 1 .. MaxFrames
          BY <1>1, <1>3
    <1>5. InFrame(rx[rxI + 1], reads, cfg.fd, happened) /\ rx[rxI + 1] \in Frame
          BY <1>3, <1>4 DEF OriginInv, Arrived
    <1>6. Arrived'
      <2>1. \A i \in rxI' + 1 .. rxN : i \in rxI + 1 .. rxN
            BY <1>1, <1>3
      <2>2. QED
            BY <1>1, <1>2, <2>1, FrameKeeps DEF OriginInv, Arrived
    <1>7. Written'
      <2>1. \A i \in DOMAIN written' :
                written'[i] = rx[rxI + 1] \/ (i \in DOMAIN written /\ written'[i] = written[i])
            BY <1>1, <1>3, <1>5
      <2>2. \A i \in DOMAIN written' : InFrame(written'[i], reads, cfg.fd, happened)
            BY <1>5, <2>1 DEF OriginInv, Written
      <2>3. QED
            BY <1>1, <1>2, <2>2, FrameKeeps DEF Written
    <1>8. Lumps'
      <2>1. ASSUME happened' \cap {"write", "restart"} = {}
            PROVE  Multiple(Len(written') - rxI', cfg.num)
        <3>1. ok /\ happened \cap {"write", "restart"} = {}
              BY <1>1, <2>1
        <3>2. Len(written') - rxI' = Len(written) - rxI
              BY <1>1, <1>3, <1>5, <3>1
        <3>3. QED
              BY <3>1, <3>2 DEF OriginInv, Lumps
      <2>2. QED
            BY <1>1, <2>1 DEF OriginInv, Lumps
    <1>9. QED
          BY <1>1, <1>2, <1>6, <1>7, <1>8, SourceKeeps, TransitKeeps DEF OriginInv

\* A new listener has nothing left to write.
LEMMA OriginRestartListener ==
    ASSUME TypeOK, OriginInv, RestartListener
    PROVE  OriginInv'
    <1>1. /\ UNCHANGED <<cfg, tx, txI, net, reads, written>>
          /\ happened' = happened \cup {"restart"}
          /\ rxN' = 0 /\ rxI' = 0
          BY DEF RestartListener, talker
    <1>2. Grown(reads, reads') /\ happened \subseteq happened'
          BY <1>1 DEF Grown
    <1>3. Arrived' /\ Lumps'
          BY <1>1 DEF Arrived, Lumps
    <1>4. QED
          BY <1>1, <1>2, <1>3, SourceKeeps, TransitKeeps, WrittenKeeps DEF OriginInv

\* Every step keeps the origin of every frame.
LEMMA OriginStep ==
    ASSUME TypeOK, OriginInv, [Next]_vars
    PROVE  OriginInv'
    <1>1. CASE UNCHANGED vars
      <2>1. UNCHANGED <<cfg, tx, txI, net, rx, rxN, rxI, reads, written, happened>>
            BY <1>1 DEF vars, talker, listener, history
      <2>2. Grown(reads, reads')
            BY <2>1 DEF Grown
      <2>3. QED
            BY <2>1, <2>2, SourceKeeps, TransitKeeps, ArrivedKeeps, WrittenKeeps, LumpsKeep
            DEF OriginInv
    <1>2. QED
          BY <1>1, OriginReadFrame, OriginReadFails, OriginSend, OriginRestartTalker,
             OriginNetwork, OriginReceive, OriginWrite, OriginRestartListener
          DEF Next, Send, SendFails, Take, TakeStray, TakeCopy, Write, WriteFails

\* Every frame in the system is traced to the bus it was read from.
THEOREM OriginInvariance == Spec => [](TypeOK /\ OriginInv)
    <1>1. TypeOK /\ OriginInv /\ [Next]_vars => (TypeOK /\ OriginInv)'
          BY TypeStep, OriginStep
    <1>2. QED
          BY TypeInit, OriginInit, <1>1, PTL DEF Spec

\* Every frame written to the far bus is, flags and all, one that was read: neither
\* the reused slots of the two arrays nor PDUs given up half way show through,
\* whatever the network does and whichever program is restarted.
THEOREM NoStaleFrames == Spec => []NothingStale
    <1>1. OriginInv => NothingStale
      <2> SUFFICES ASSUME OriginInv, NEW i \in DOMAIN written
                   PROVE  \/ /\ written[i].data \in DOMAIN reads
                             /\ written[i] = Carried(reads[written[i].data])
                          \/ "read" \in happened /\ written[i].data = 0
          BY DEF NothingStale
      <2>1. InFrame(written[i], reads, cfg.fd, happened)
            BY DEF OriginInv, Written
      <2>2. QED
            BY <2>1, Zenon DEF InFrame, CarriedBy, Carried
    <1>2. QED
          BY <1>1, OriginInvariance, PTL

\* A PDU reaches the far bus whole or not at all, however it was damaged.
THEOREM WholePdus == Spec => []AllOrNothing
    <1>1. TypeOK /\ OriginInv => AllOrNothing
      <2> SUFFICES ASSUME TypeOK, OriginInv, rxI = rxN, happened \cap {"write", "restart"} = {}
                   PROVE  Len(written) % cfg.num = 0
          BY DEF AllOrNothing
      <2>1. cfg.num \in Nat \ {0} /\ cfg.num \in Nat /\ Len(written) \in Nat
            BY ConfigFacts DEF TypeOK
      <2>2. Multiple(Len(written) - rxI, cfg.num) /\ rxI \in {0, cfg.num}
            BY DEF OriginInv, Lumps
      <2>3. Multiple(Len(written), cfg.num)
            BY <2>1, <2>2, LastBatch
      <2>4. PICK q \in Nat : Len(written) = cfg.num * q
            BY <2>3 DEF Multiple
      <2>5. q \in Int /\ Len(written) = cfg.num * q + 0 /\ 0 \in 0 .. cfg.num - 1
            BY <2>1, <2>4
      <2>6. (cfg.num * q + 0) % cfg.num = 0
            BY <2>1, <2>5, ModUnique, Zenon
      <2>7. QED
            BY <2>5, <2>6, Zenon
    <1>2. QED
          BY <1>1, OriginInvariance, PTL

---------------------------------------------------------------------------
(* The line *)

\* The frames before batch k, if every batch is of num frames.
Before(k, num) == k * num

Placed(p, num, k) ==
    p.from # 0 => /\ p.from = 1 /\ p.k < k
                  /\ \A i \in 1 .. num : p.msgs[i].data = Before(p.k, num) + i

\* The talker fills one batch after the other,
LineTalker ==
    /\ epoch = 1 /\ "read" \notin happened
    /\ Len(reads) = Before(sent, cfg.num) + txI
    /\ \A i \in 1 .. txI : tx[i].data = Before(sent, cfg.num) + i

\* the network has at most one PDU of each batch, with the frames of that batch,
LineNet ==
    /\ \A p \in net : Placed(p, cfg.num, sent)
    /\ \A p, q \in net : p.from # 0 /\ q.from # 0 /\ p.k = q.k => p = q

\* and up to some frame n the line has left the network: what the network holds
\* comes later, and what is left to write are the last ones up to n.
Passed(n) ==
    /\ n <= Before(sent, cfg.num)
    /\ \A p \in net : p.from # 0 => n <= Before(p.k, cfg.num)
    /\ \A i \in rxI + 1 .. rxN : rx[i].data = (n - rxN) + i
    /\ \A i \in DOMAIN written : written[i].data <= (n - rxN) + rxI

\* The frames stand in line, where nothing repeats, reorders or restarts.
LineInv == Orderly => LineTalker /\ LineNet /\ \E n \in Nat : Passed(n)

\* Batches follow one another.
LEMMA BeforeFacts ==
    ASSUME NEW num \in Nat
    PROVE  /\ Before(0, num) = 0
           /\ \A k \in Nat : Before(k, num) \in Nat /\ Before(k + 1, num) = Before(k, num) + num
           /\ \A j, k \in Nat : j < k => Before(j, num) + num <= Before(k, num)
    <1>1. ASSUME NEW j \in Nat, NEW k \in Nat, j < k
          PROVE  j * num + num <= k * num
      <2>1. PICK d \in Nat : k = (j + 1) + d
        <3>1. k - (j + 1) \in Nat /\ k = (j + 1) + (k - (j + 1))
              BY <1>1
        <3>2. QED
              BY <3>1
      <2>2. k * num = (j * num + num) + d * num
            BY <2>1
      <2>3. d * num \in Nat /\ j * num \in Nat
            OBVIOUS
      <2>4. QED
            BY <2>2, <2>3
    <1>2. ASSUME NEW k \in Nat
          PROVE  k * num \in Nat /\ (k + 1) * num = k * num + num
          OBVIOUS
    <1>3. 0 * num = 0
          OBVIOUS
    <1>4. QED
          BY <1>1, <1>2, <1>3 DEF Before

\* What the steps of the line need of the types.
LEMMA LineTypes ==
    ASSUME TypeOK
    PROVE  /\ cfg \in Configs /\ cfg.num \in Nat /\ cfg.num > 0
           /\ sent \in Nat /\ Before(sent, cfg.num) \in Nat
           /\ Before(sent + 1, cfg.num) = Before(sent, cfg.num) + cfg.num
           /\ tx \in [1 .. cfg.num -> Frame] /\ txI \in 0 .. cfg.num
           /\ reads \in Seq(Frame) /\ written \in Seq(Frame)
           /\ rxN \in Nat /\ rxI \in 0 .. rxN
           /\ \A i \in DOMAIN written : written[i].data \in Int
           /\ \A p \in net : p \in Pdu /\ p.k \in Nat /\ Before(p.k, cfg.num) \in Nat
    <1>1. cfg \in Configs /\ cfg.num \in Nat /\ cfg.num > 0 /\ MaxFrames \in Nat
          BY ConfigFacts DEF TypeOK
    <1>2. \A p \in net : p \in Pdu /\ p.k \in Nat
          BY DEF TypeOK, Pdu
    <1>3. sent \in Nat
          BY DEF TypeOK
    <1>4. /\ Before(sent, cfg.num) \in Nat
          /\ Before(sent + 1, cfg.num) = Before(sent, cfg.num) + cfg.num
          /\ \A p \in net : Before(p.k, cfg.num) \in Nat
          BY <1>1, <1>2, <1>3, BeforeFacts
    <1>5. rxN \in Nat /\ rxI \in 0 .. rxN
          BY <1>1 DEF TypeOK
    <1>6. \A i \in DOMAIN written : written[i].data \in Int
      <2>1. \A f \in Frame : f.data \in Int
            BY DEF Frame, Data, Oversized
      <2>2. \A i \in DOMAIN written : written[i] \in Frame
            BY DEF TypeOK
      <2>3. QED
            BY <2>1, <2>2
    <1>7. QED
          BY <1>1, <1>2, <1>3, <1>4, <1>5, <1>6 DEF TypeOK

\* Nobody has a place in the line before the first frame is read.
LEMMA LineInit == Init => LineInv
    <1> SUFFICES ASSUME Init PROVE LineInv
        OBVIOUS
    <1>1. cfg \in Configs /\ cfg.num \in Nat
          BY ConfigFacts DEF Init
    <1>2. Before(0, cfg.num) = 0
          BY <1>1, BeforeFacts
    <1>3. LineTalker /\ LineNet
          BY <1>2 DEF Init, LineTalker, LineNet
    <1>4. Passed(0)
          BY <1>2 DEF Init, Passed
    <1>5. QED
          BY <1>3, <1>4 DEF LineInv

\* Frames of the bus go to the end of the line.
LEMMA LineReadFrame ==
    ASSUME TypeOK, LineInv, NEW kind \in cfg.traffic, ReadFrame(kind)
    PROVE  LineInv'
    <1> DEFINE frame == [id |-> kind.id, eff |-> kind.eff, rtr |-> kind.rtr,
                         fdf |-> cfg.fd /\ kind.fdf, brs |-> cfg.fd /\ kind.brs,
                         esi |-> cfg.fd /\ kind.esi, data |-> Len(reads) + 1]
    <1>1. /\ tx' = [tx EXCEPT ![txI + 1] = frame] /\ reads' = Append(reads, frame)
          /\ txI' = txI + 1 /\ txI < cfg.num
          /\ UNCHANGED <<cfg, net, rx, rxN, rxI, written, happened, sent, epoch>>
          BY DEF ReadFrame, listener
    <1>2. frame.data = Len(reads) + 1
          OBVIOUS
    <1> HIDE DEF frame
    <1> SUFFICES ASSUME Orderly PROVE LineTalker' /\ LineNet' /\ \E n \in Nat : Passed(n)'
        BY <1>1 DEF LineInv, Orderly
    <1>3. LineTalker /\ LineNet /\ \E n \in Nat : Passed(n)
          BY DEF LineInv
    <1>4. LineTalker'
      <2>1. Len(reads') = Len(reads) + 1
            BY <1>1, LineTypes
      <2>2. \A i \in 1 .. txI' : tx'[i] = IF i = txI + 1 THEN frame ELSE tx[i]
            BY <1>1, LineTypes
      <2>3. \A i \in 1 .. txI' : i = txI + 1 \/ i \in 1 .. txI
            BY <1>1, LineTypes
      <2>4. ASSUME NEW i \in 1 .. txI'
            PROVE  tx'[i].data = Before(sent, cfg.num) + i
        <3>1. CASE i = txI + 1
          <4>1. tx'[i].data = (Before(sent, cfg.num) + txI) + 1
                BY <1>2, <1>3, <2>2, <3>1 DEF LineTalker
          <4>2. QED
                BY <3>1, <4>1, LineTypes
        <3>2. CASE i \in 1 .. txI
          <4>1. tx'[i] = tx[i]
                BY <2>2, <3>2, LineTypes
          <4>2. QED
                BY <1>3, <3>2, <4>1 DEF LineTalker
        <3>3. QED
              BY <2>3, <3>1, <3>2
      <2>5. Len(reads') = Before(sent, cfg.num) + txI'
            BY <1>1, <1>3, <2>1, LineTypes DEF LineTalker
      <2>6. QED
            BY <1>1, <1>3, <2>4, <2>5 DEF LineTalker
    <1>5. QED
          BY <1>1, <1>3, <1>4 DEF LineNet, Passed

\* A batch leaves the talker for the network, or is lost where it stands.
LEMMA LineSend ==
    ASSUME TypeOK, LineInv, NEW ok \in BOOLEAN, SendPdu(ok)
    PROVE  LineInv'
    <1>1. /\ UNCHANGED <<cfg, tx, rx, rxN, rxI, reads, written, epoch>>
          /\ txI = cfg.num /\ txI' = 0 /\ sent' = sent + 1
          /\ net' \subseteq net \cup {Pack}
          /\ happened' \in {happened, happened \cup {"send"}}
          BY DEF SendPdu, listener
    <1> SUFFICES ASSUME Orderly PROVE LineTalker' /\ LineNet' /\ \E n \in Nat : Passed(n)'
        BY <1>1 DEF LineInv, Orderly
    <1>2. LineTalker /\ LineNet
          BY DEF LineInv
    <1>3. PICK n \in Nat : Passed(n)
          BY DEF LineInv
    <1>4. LineTalker'
      <2>1. Len(reads') = Before(sent', cfg.num) + txI'
            BY <1>1, <1>2, LineTypes DEF LineTalker
      <2>2. QED
            BY <1>1, <1>2, <2>1 DEF LineTalker
    <1>5. Pack.k = sent /\ Pack.from = 1 /\ \A i \in 1 .. cfg.num : Pack.msgs[i].data = tx[i].data
      <2>1. Pack.k = sent /\ Pack.from = epoch
            BY DEF Pack
      <2>2. Pack.msgs = [i \in 1 .. cfg.num |-> prepare_acf_packet(tx[i], cfg.fd)]
            BY DEF Pack, can_to_avtp
      <2>3. \A i \in 1 .. cfg.num : prepare_acf_packet(tx[i], cfg.fd).data = tx[i].data
            BY DEF prepare_acf_packet
      <2>4. QED
            BY <1>2, <2>1, <2>2, <2>3 DEF LineTalker
    <1>6. Placed(Pack, cfg.num, sent + 1)
      <2>1. \A i \in 1 .. cfg.num : Pack.msgs[i].data = Before(sent, cfg.num) + i
            BY <1>1, <1>2, <1>5 DEF LineTalker
      <2>2. QED
            BY <1>5, <2>1, LineTypes DEF Placed
    <1>7. \A p \in net : Placed(p, cfg.num, sent + 1)
      <2>1. ASSUME NEW p \in net, p.from # 0
            PROVE  p.k < sent + 1
            BY <1>2, <2>1, LineTypes DEF LineNet, Placed
      <2>2. QED
            BY <1>2, <2>1 DEF LineNet, Placed
    <1>8. LineNet'
      <2>1. \A p \in net' : Placed(p, cfg.num, sent + 1)
            BY <1>1, <1>6, <1>7
      <2>2. \A p \in net : p.from # 0 => p.k # Pack.k
            BY <1>2, <1>5, LineTypes DEF LineNet, Placed
      <2>3. \A p, q \in net' : p.from # 0 /\ q.from # 0 /\ p.k = q.k => p = q
            BY <1>1, <1>2, <2>2 DEF LineNet
      <2>4. QED
            BY <1>1, <2>1, <2>3 DEF LineNet
    <1>9. Passed(n)'
      <2>1. n <= Before(sent', cfg.num)
            BY <1>1, <1>3, LineTypes DEF Passed
      <2>2. \A p \in net' : p.from # 0 => n <= Before(p.k, cfg.num)
            BY <1>1, <1>3, <1>5 DEF Passed
      <2>3. QED
            BY <1>1, <1>3, <2>1, <2>2 DEF Passed
    <1>10. QED
          BY <1>4, <1>8, <1>9

\* A PDU that is lost leaves a gap in the line, one that is damaged keeps its place,
\* and those of other senders have none.
LEMMA LineNetwork ==
    ASSUME TypeOK, OriginInv, LineInv,
           \/ \E pdu \in net : Lose(pdu)
           \/ \E pdu \in net : \E i \in DOMAIN pdu.msgs : Damage(pdu, i)
           \/ \E pdu \in cfg.strays : Stray(pdu)
    PROVE  LineInv'
    <1>1. /\ UNCHANGED <<cfg, tx, txI, rx, rxN, rxI, reads, written, sent, epoch>>
          /\ "read" \notin happened => "read" \notin happened'
          BY DEF Lose, Damage, Stray, talker, listener
    <1> SUFFICES ASSUME Orderly PROVE LineTalker' /\ LineNet' /\ \E n \in Nat : Passed(n)'
        BY <1>1 DEF LineInv, Orderly
    <1>2. LineTalker /\ LineNet
          BY DEF LineInv
    <1>3. PICK n \in Nat : Passed(n)
          BY DEF LineInv
    <1>4. LineTalker'
          BY <1>1, <1>2 DEF LineTalker
    <1>5. ASSUME /\ \A p \in net' : Placed(p, cfg.num, sent)
                 /\ \A p, q \in net' : p.from # 0 /\ q.from # 0 /\ p.k = q.k => p = q
                 /\ \A p \in net' : p.from # 0 => \E q \in net : q.from # 0 /\ q.k = p.k
          PROVE  LineNet' /\ Passed(n)'
      <2>1. LineNet'
            BY <1>1, <1>5 DEF LineNet
      <2>2. \A p \in net' : p.from # 0 => n <= Before(p.k, cfg.num)
            BY <1>3, <1>5 DEF Passed
      <2>3. Passed(n)'
            BY <1>1, <1>3, <2>2 DEF Passed
      <2>4. QED
            BY <2>1, <2>3
    <1>6. CASE \E pdu \in net : Lose(pdu)
      <2>1. net' \subseteq net
            BY <1>6 DEF Lose
      <2>2. QED
            BY <1>2, <1>4, <1>5, <2>1 DEF LineNet
    <1>7. ASSUME NEW pdu \in net, NEW i \in DOMAIN pdu.msgs, Damage(pdu, i)
          PROVE  LineNet' /\ Passed(n)'
      <2> DEFINE damaged == [pdu EXCEPT !.msgs[i].ok = FALSE]
                 m == [pdu.msgs[i] EXCEPT !.ok = FALSE]
      <2>1. pdu \in Pdu /\ pdu.msgs \in Seq(Message) /\ pdu.msgs[i] \in Message /\ pdu.from # 0
            BY <1>7 DEF TypeOK, Pdu, Damage
      <2>2. /\ damaged.from = pdu.from /\ damaged.k = pdu.k
            /\ damaged.msgs = [pdu.msgs EXCEPT ![i] = m]
            BY <2>1 DEF Pdu
      <2>3. m.data = pdu.msgs[i].data
            BY <2>1 DEF Message
      <2>4. net' = (net \ {pdu}) \cup {damaged}
            BY <1>7 DEF Damage
      <2> HIDE DEF damaged, m
      <2>5. \A j \in DOMAIN pdu.msgs : damaged.msgs[j].data = pdu.msgs[j].data
            BY <2>1, <2>2, <2>3
      <2>6. Placed(pdu, cfg.num, sent)
            BY <1>2 DEF LineNet
      <2>7. Placed(damaged, cfg.num, sent)
        <3>1. DOMAIN pdu.msgs = 1 .. cfg.num
              BY <2>1 DEF OriginInv, Transit, Genuine
        <3>2. \A j \in 1 .. cfg.num : damaged.msgs[j].data = pdu.msgs[j].data
              BY <2>5, <3>1
        <3>3. QED
              BY <2>2, <2>6, <3>2 DEF Placed
      <2>8. \A p \in net' : Placed(p, cfg.num, sent)
            BY <1>2, <2>4, <2>7 DEF LineNet
      <2>9. \A q \in net : q # pdu /\ q.from # 0 => q.k # damaged.k
            BY <1>2, <2>1, <2>2 DEF LineNet
      <2>10. \A p, q \in net' : p.from # 0 /\ q.from # 0 /\ p.k = q.k => p = q
            BY <1>2, <2>4, <2>9 DEF LineNet
      <2>11. \A p \in net' : p.from # 0 => \E q \in net : q.from # 0 /\ q.k = p.k
            BY <2>1, <2>2, <2>4
      <2>12. QED
            BY <1>5, <2>8, <2>10, <2>11
    <1>8. ASSUME NEW pdu \in cfg.strays, Stray(pdu)
          PROVE  LineNet' /\ Passed(n)'
      <2>1. pdu.from = 0 /\ net' = net \cup {pdu}
            BY <1>8, BridgeConstants DEF TypeOK, Stray
      <2>2. Placed(pdu, cfg.num, sent)
            BY <2>1 DEF Placed
      <2>3. QED
            BY <1>2, <1>5, <2>1, <2>2 DEF LineNet
    <1>9. QED
          BY <1>4, <1>6, <1>7, <1>8

\* The listener takes the first PDU in line.  If it recovers its frames, they come
\* after all that was written and before all that is in the network.
LEMMA LineReceive ==
    ASSUME TypeOK, OriginInv, LineInv, NEW pdu \in net, Receive(pdu, TRUE)
    PROVE  LineInv'
    <1> DEFINE r == Recovered(pdu)
    <1>1. /\ UNCHANGED <<cfg, tx, txI, reads, written, sent, epoch>>
          /\ "read" \notin happened => "read" \notin happened'
          /\ rxI = rxN /\ net' = net \ {pdu} /\ rx' = SlotsAfter(pdu, rx, cfg.fd)
          /\ IF Counts(r) THEN rxN' = r /\ rxI' = 0 ELSE UNCHANGED <<rxN, rxI>>
          /\ InTurn(pdu)
          BY DEF Receive, talker
    <1> SUFFICES ASSUME Orderly PROVE LineTalker' /\ LineNet' /\ \E n \in Nat : Passed(n)'
        BY <1>1 DEF LineInv, Orderly
    <1>2. LineTalker /\ LineNet
          BY DEF LineInv
    <1>3. PICK n \in Nat : Passed(n)
          BY DEF LineInv
    <1>4. LineTalker' /\ LineNet'
      <2>1. LineTalker'
            BY <1>1, <1>2 DEF LineTalker
      <2>2. LineNet'
            BY <1>1, <1>2 DEF LineNet
      <2>3. QED
            BY <2>1, <2>2
    <1>5. pdu \in Pdu /\ r \in Int /\ Genuine(pdu, cfg, reads, happened)
      <2>1. r \in Int
            BY RecoveredRange, PduConstants DEF TypeOK
      <2>2. QED
            BY <2>1 DEF TypeOK, OriginInv, Transit
    <1> HIDE DEF r
    <1>6. \A p \in net' : p.from # 0 => n <= Before(p.k, cfg.num)
          BY <1>1, <1>3 DEF Passed
    <1>7. \A i \in DOMAIN written : written[i].data <= n
      <2>1. (n - rxN) + rxI = n
            BY <1>1, LineTypes
      <2>2. QED
            BY <1>3, <2>1 DEF Passed
    <1>8. CASE ~Counts(r) \/ pdu.from = 0
      <2>1. rxI' = rxN' /\ rxN' \in Nat
        <3>1. CASE ~Counts(r)
              BY <1>1, <3>1, LineTypes
        <3>2. CASE Counts(r) /\ pdu.from = 0
          <4>1. r >= 0
                BY <1>5, <3>2, CountsFacts, LineTypes
          <4>2. r = 0
                BY <1>5, <3>2, <4>1, RecoveredIsGenuine DEF r
          <4>3. QED
                BY <1>1, <3>2, <4>2
        <3>3. QED
              BY <1>8, <3>1, <3>2
      <2>2. rxI' + 1 .. rxN' = {} /\ (n - rxN') + rxI' = n
        <3>1. \A x \in Nat : x + 1 .. x = {} /\ (n - x) + x = n
              OBVIOUS
        <3>2. QED
              BY <2>1, <3>1
      <2>3. Passed(n)'
            BY <1>1, <1>3, <1>6, <1>7, <2>2 DEF Passed
      <2>4. QED
            BY <1>4, <2>3
    <1>9. CASE Counts(r) /\ pdu.from # 0
      <2> DEFINE b == Before(pdu.k, cfg.num)
      <2>1. r = cfg.num /\ \A i \in 1 .. r : rx'[i].data = pdu.msgs[i].data
        <3>1. r >= 0
              BY <1>5, <1>9, CountsFacts, LineTypes
        <3>2. QED
              BY <1>1, <1>5, <1>9, <3>1, RecoveredIsGenuine DEF r
      <2>2. /\ pdu.from = 1 /\ pdu.k \in Nat /\ pdu.k < sent /\ b \in Nat /\ n <= b
            /\ \A i \in 1 .. cfg.num : pdu.msgs[i].data = b + i
            BY <1>2, <1>3, <1>9, LineTypes DEF LineNet, Placed, Passed
      <2>3. PICK m \in Nat : m = b + cfg.num
            BY <2>2, LineTypes
      <2>4. m <= Before(sent, cfg.num)
            BY <2>2, <2>3, BeforeFacts, LineTypes
      <2>5. ASSUME NEW q \in net', q.from # 0
            PROVE  m <= Before(q.k, cfg.num)
        <3>1. q \in net /\ q # pdu /\ q.from = 1 /\ q.k \in Nat
              BY <1>1, <1>2, <2>5, LineTypes DEF LineNet, Placed
        <3>2. q.k # pdu.k
              BY <1>2, <1>9, <2>5, <3>1 DEF LineNet
        <3>3. ~(q.k < pdu.k)
              BY <1>1, <1>9, <2>2, <2>5, <3>1 DEF InTurn, Earlier, Orderly
        <3>4. pdu.k < q.k
              BY <2>2, <3>1, <3>2, <3>3
        <3>5. QED
              BY <2>2, <2>3, <3>1, <3>4, BeforeFacts, LineTypes
      <2> HIDE DEF b
      <2>6. rxN' = cfg.num /\ rxI' = 0
            BY <1>1, <1>9, <2>1
      <2>7. (m - rxN') + rxI' = b
            BY <2>2, <2>3, <2>6, LineTypes
      <2>8. \A i \in rxI' + 1 .. rxN' : rx'[i].data = (m - rxN') + i
        <3>1. \A i \in 1 .. cfg.num : (m - cfg.num) + i = b + i
              BY SMTT(30), <2>2, <2>3, LineTypes
        <3>2. rxI' + 1 = 1
              BY <2>6
        <3>3. QED
              BY <2>1, <2>2, <2>6, <3>1, <3>2
      <2>9. \A i \in DOMAIN written : written[i].data <= b
        <3>1. \A i \in DOMAIN written : written[i].data \in Int
              BY LineTypes
        <3>2. QED
              BY <1>7, <2>2, <3>1
      <2>10. Passed(m)'
            BY <1>1, <2>4, <2>5, <2>7, <2>8, <2>9 DEF Passed
      <2>11. QED
            BY <1>4, <2>10
    <1>10. QED
          BY <1>8, <1>9

\* The next frame written is the next in line.
LEMMA LineWrite ==
    ASSUME TypeOK, LineInv, NEW ok \in BOOLEAN, WriteFrame(ok)
    PROVE  LineInv'
    <1>1. /\ UNCHANGED <<cfg, tx, txI, net, rx, rxN, reads, sent, epoch>>
          /\ "read" \notin happened => "read" \notin happened'
          /\ rxI < rxN /\ rxI' = rxI + 1
          /\ written' = IF ok THEN Append(written, rx[rxI + 1]) ELSE written
          BY DEF WriteFrame, talker
    <1> SUFFICES ASSUME Orderly PROVE LineTalker' /\ LineNet' /\ \E n \in Nat : Passed(n)'
        BY <1>1 DEF LineInv, Orderly
    <1>2. LineTalker /\ LineNet
          BY DEF LineInv
    <1>3. PICK n \in Nat : Passed(n)
          BY DEF LineInv
    <1>4. LineTalker' /\ LineNet'
          BY <1>1, <1>2 DEF LineTalker, LineNet
    <1>5. \A i \in rxI' + 1 .. rxN : rx[i].data = (n - rxN) + i
      <2>1. \A i \in rxI' + 1 .. rxN : i \in rxI + 1 .. rxN
            BY <1>1, LineTypes
      <2>2. QED
            BY <1>3, <2>1 DEF Passed
    <1>6. \A i \in DOMAIN written' : written'[i].data <= (n - rxN) + rxI'
      <2>1. rxI + 1 \in rxI + 1 .. rxN /\ rxI + 1 \in 1 .. MaxFrames /\ rxI + 1 \in Nat
            BY <1>1, PduConstants DEF TypeOK
      <2>2. rx[rxI + 1].data = (n - rxN) + rxI' /\ rx[rxI + 1] \in Frame
            BY <1>1, <1>3, <2>1 DEF Passed, TypeOK
      <2>3. ASSUME NEW i \in DOMAIN written
            PROVE  written[i].data <= (n - rxN) + rxI'
        <3>1. written[i].data <= (n - rxN) + rxI
              BY <1>3 DEF Passed
        <3>2. written[i].data \in Int
              BY LineTypes
        <3>3. rxN \in Int /\ rxI \in Int /\ rxI' = rxI + 1
              BY <1>1, LineTypes
        <3>4. \A x, a, b, c \in Int : x <= (a - b) + c => x <= (a - b) + (c + 1)
              OBVIOUS
        <3>5. QED
              BY <3>1, <3>2, <3>3, <3>4
      <2>4. \A i \in DOMAIN written' :
                written'[i] = rx[rxI + 1] \/ (i \in DOMAIN written /\ written'[i] = written[i])
            BY <1>1, <2>2, LineTypes
      <2>5. (n - rxN) + rxI' <= (n - rxN) + rxI'
            BY <1>1, LineTypes
      <2>6. QED
            BY <2>2, <2>3, <2>4, <2>5
    <1>7. Passed(n)'
          BY <1>1, <1>3, <1>5, <1>6 DEF Passed
    <1>8. QED
          BY <1>4, <1>7

\* No other step is possible in a network that keeps its order.
LEMMA LineStep ==
    ASSUME TypeOK, OriginInv, LineInv, [Next]_vars
    PROVE  LineInv'
    <1>1. CASE UNCHANGED vars
          BY <1>1 DEF vars, talker, listener, history, LineInv, LineTalker, LineNet, Passed, Orderly
    <1>2. CASE ReadFails \/ RestartTalker \/ TakeCopy \/ RestartListener
      <2>1. cfg' = cfg /\ ~Orderly
            BY <1>2 DEF ReadFails, RestartTalker, TakeCopy, Receive, RestartListener, Orderly
      <2>2. QED
            BY <2>1 DEF LineInv, Orderly
    <1>3. QED
          BY <1>1, <1>2, LineReadFrame, LineSend, LineNetwork, LineReceive, LineWrite
          DEF Next, Send, SendFails, Take, TakeStray, Write, WriteFails

---------------------------------------------------------------------------
(* The tunnel *)

delivered == IF Orderly THEN [i \in DOMAIN written |-> written[i].data] ELSE <<>>

\* A step of the bridge is a step of the tunnel, or leaves it alone.
LEMMA TunnelStep ==
    ASSUME TypeOK, OriginInv, LineInv, [Next]_vars
    PROVE  Tunnel!Next \/ UNCHANGED <<Len(reads), delivered>>
    <1>1. ASSUME NEW kind \in cfg.traffic, ReadFrame(kind)
          PROVE  Tunnel!Next
      <2>1. UNCHANGED <<cfg, written>> /\ \E f : reads' = Append(reads, f)
            BY <1>1 DEF ReadFrame
      <2>2. Len(reads') = Len(reads) + 1
            BY <2>1, LineTypes
      <2>3. UNCHANGED delivered
            BY <2>1 DEF delivered, Orderly
      <2>4. QED
            BY <2>2, <2>3 DEF delivered, Tunnel!Next, Tunnel!Offer
    <1>2. ASSUME WriteFrame(TRUE), Orderly
          PROVE  Tunnel!Next
      <2> DEFINE f == rx[rxI + 1]
      <2>1. /\ UNCHANGED <<cfg, reads>> /\ rxI < rxN /\ written' = Append(written, f)
            BY <1>2 DEF WriteFrame
      <2>2. rxI + 1 \in rxI + 1 .. rxN /\ rxI + 1 \in 1 .. MaxFrames /\ rxI + 1 \in Nat
            BY <2>1, PduConstants DEF TypeOK
      <2>3. f \in Frame /\ InFrame(f, reads, cfg.fd, happened)
            BY <2>2 DEF TypeOK, OriginInv, Arrived
      <2>4. f.data \in 1 .. Len(reads)
        <3>1. "read" \notin happened
              BY <1>2 DEF LineInv, LineTalker
        <3>2. f.data \in DOMAIN reads
              BY <2>3, <3>1 DEF InFrame
        <3>3. QED
              BY <3>2, LineTypes
      <2>5. \A i \in DOMAIN written : written[i].data < f.data
        <3>1. PICK n \in Nat : Passed(n)
              BY <1>2 DEF LineInv
        <3>2. f.data = (n - rxN) + (rxI + 1)
              BY <2>2, <3>1 DEF Passed
        <3>3. \A i \in DOMAIN written : written[i].data <= (n - rxN) + rxI
              BY <3>1 DEF Passed
        <3>4. \A i \in DOMAIN written : written[i].data \in Int
              BY LineTypes
        <3> HIDE DEF f
        <3>5. QED
              BY SMTT(30), <3>2, <3>3, <3>4, LineTypes
      <2> HIDE DEF f
      <2>6. delivered = [i \in 1 .. Len(written) |-> written[i].data] /\ Len(written) \in Nat
            BY <1>2, LineTypes DEF delivered
      <2>7. delivered \in Seq(Int) /\ Len(delivered) = Len(written)
        <3>1. DOMAIN written = 1 .. Len(written)
              BY LineTypes
        <3>2. \A i \in 1 .. Len(written) : written[i].data \in Int
              BY <3>1, LineTypes
        <3>3. QED
              BY <2>6, <3>2
      <2>8. delivered' = Append(delivered, f.data)
        <3>1. delivered' = [i \in DOMAIN written' |-> written'[i].data]
              BY <1>2, <2>1 DEF delivered, Orderly
        <3>2. /\ DOMAIN written' = 1 .. Len(written) + 1
              /\ \A i \in 1 .. Len(written) + 1 :
                    written'[i] = IF i = Len(written) + 1 THEN f ELSE written[i]
              BY <2>1, <2>3, LineTypes
        <3>3. Append(delivered, f.data) =
                  [i \in 1 .. Len(written) + 1 |->
                      IF i = Len(written) + 1 THEN f.data ELSE delivered[i]]
              BY <2>6, <2>7
        <3>4. \A i \in 1 .. Len(written) + 1 :
                  written'[i].data = IF i = Len(written) + 1 THEN f.data ELSE delivered[i]
              BY <2>6, <3>2
        <3>5. QED
              BY <3>1, <3>2, <3>3, <3>4
      <2>9. Tunnel!Newest \in Int /\ Tunnel!Newest < f.data
        <3>1. CASE delivered = <<>>
          <4>1. Tunnel!Newest = 0
                BY <3>1 DEF delivered, Tunnel!Newest
          <4>2. QED
                BY <2>4, <4>1
        <3>2. CASE delivered # <<>>
          <4>1. Len(written) \in 1 .. Len(written)
                BY <2>6, <2>7, <3>2
          <4>2. Tunnel!Newest = delivered[Len(delivered)]
                BY <3>2 DEF delivered, Tunnel!Newest
          <4>3. Tunnel!Newest = written[Len(written)].data
                BY <2>6, <2>7, <4>1, <4>2
          <4>4. Len(written) \in DOMAIN written
                BY <4>1, LineTypes
          <4>5. written[Len(written)].data \in Int
                BY <4>4, LineTypes
          <4>6. QED
                BY <2>5, <4>3, <4>4, <4>5
        <3>3. QED
              BY <3>1, <3>2
      <2>10. f.data \in Tunnel!Newest + 1 .. Len(reads)
            BY <2>4, <2>9
      <2>11. UNCHANGED Len(reads)
            BY <2>1
      <2>12. QED
            BY <2>8, <2>10, <2>11 DEF delivered, Tunnel!Next, Tunnel!Deliver
    <1>3. CASE UNCHANGED <<cfg, reads, written>>
          BY <1>3 DEF delivered, Orderly
    <1>4. CASE UNCHANGED <<cfg, reads>> /\ ~Orderly
          BY <1>4 DEF delivered, Orderly
    <1>5. CASE WriteFrame(TRUE) /\ ~Orderly
          BY <1>4, <1>5 DEF WriteFrame, talker
    <1>6. CASE WriteFrame(FALSE)
          BY <1>3, <1>6 DEF WriteFrame
    <1>7. CASE \/ ReadFails \/ Send \/ SendFails \/ RestartTalker
               \/ \E pdu \in net : Lose(pdu)
               \/ \E pdu \in net : \E i \in DOMAIN pdu.msgs : Damage(pdu, i)
               \/ \E pdu \in cfg.strays : Stray(pdu)
               \/ Take \/ TakeStray \/ TakeCopy \/ RestartListener \/ UNCHANGED vars
      <2>1. UNCHANGED <<cfg, reads, written>>
            BY <1>7 DEF ReadFails, Send, SendFails, SendPdu, RestartTalker, Lose, Damage, Stray,
                        Take, TakeStray, TakeCopy, Receive, RestartListener, vars, history
      <2>2. QED
            BY <1>3, <2>1
    <1>8. QED
          BY <1>1, <1>2, <1>5, <1>6, <1>7 DEF Next, Write, WriteFails

\* The bridge implements the tunnel: however many PDUs are lost, damaged or mixed
\* with those of other senders, the frames that come out on the far bus are in the
\* order of the near one and none comes twice.
THEOREM BridgeIsTunnel == Spec => ImplementsTunnel
    <1>1. Init => Tunnel!Init
      <2> SUFFICES ASSUME Init PROVE Tunnel!Init
          OBVIOUS
      <2>1. reads = <<>> /\ written = <<>>
            BY DEF Init
      <2>2. [i \in DOMAIN written |-> written[i].data] = <<>>
            BY <2>1
      <2>3. QED
            BY <2>1, <2>2 DEF Tunnel!Init
    <1>2. TypeOK /\ OriginInv /\ LineInv /\ [Next]_vars => (TypeOK /\ OriginInv /\ LineInv)'
          BY TypeStep, OriginStep, LineStep
    <1>3. TypeOK /\ OriginInv /\ LineInv /\ [Next]_vars
              => [Tunnel!Next]_<<Len(reads), delivered>>
          BY TunnelStep
    <1>4. Init => TypeOK /\ OriginInv /\ LineInv
          BY TypeInit, OriginInit, LineInit
    <1>5. QED
          BY <1>1, <1>2, <1>3, <1>4, PTL
          DEF Spec, ImplementsTunnel, Tunnel!Spec, delivered
=============================================================================
