------------------------- MODULE ZephyrBridgeProof -------------------------
(***************************************************************************)
(* Proofs about ZephyrBridge for every batch, queue length, number of      *)
(* mailboxes and range of the sequence number, any world and any number of *)
(* frames.                                                                 *)
(*                                                                         *)
(* Two inductive invariants.  Wire says what the sequence numbers on the   *)
(* way are as long as no PDU is missing; Order says that the frames in the *)
(* stages of the bridge (controller, listener, network, batch, queue) are  *)
(* those of the bus in its order.                                          *)
(***************************************************************************)
EXTENDS ZephyrBridge, SequenceTheorems, TLAPS

PduSet == [seq : Nat, frames : Seq(Nat)]

\* The types of what TypeOK leaves open.
Stages ==
    /\ rx_msgq \in Seq(Nat) /\ can_frames \in Seq(Nat) /\ net \in Seq(PduSet)
    /\ out \in Seq(Nat) /\ written \in Seq(Nat)
    /\ cf_seq_num \in Nat /\ exp_cf_seqnum \in Nat

\* As long as no PDU is missing those on the way carry the numbers from the
\* expected one up to the one the talker uses next.
Wire ==
    ~gap => /\ ~alarm
            /\ cf_seq_num = exp_cf_seqnum + Len(net)
            /\ \A i \in 1 .. Len(net) : net[i].seq = (exp_cf_seqnum + i - 1) % SeqNums

Increasing(s) == \A i, j \in 1 .. Len(s) : i < j => s[i] < s[j]
Before(s, t) == \A i \in 1 .. Len(s), j \in 1 .. Len(t) : s[i] < t[j]
Above(s, x) == \A i \in 1 .. Len(s) : x < s[i]
Below(s, x) == \A i \in 1 .. Len(s) : s[i] < x

\* What is on the way between two ends of the pipeline.
Within(s, low, high) == Increasing(s) /\ Above(s, low) /\ Below(s, high)

\* The frame handed to the controller last.
Newest == Tunnel!Newest

Order ==
    /\ Newest \in 0 .. taken
    /\ Within(out, Newest, taken + 1)
    /\ Within(can_frames, Newest, taken + 1)
    /\ Within(rx_msgq, Newest, taken + 1)
    /\ Before(out, can_frames) /\ Before(out, rx_msgq) /\ Before(can_frames, rx_msgq)
    /\ \A k \in 1 .. Len(net) :
          /\ Within(net[k].frames, Newest, taken + 1)
          /\ Before(out, net[k].frames)
          /\ Before(net[k].frames, can_frames) /\ Before(net[k].frames, rx_msgq)
    /\ \A k, l \in 1 .. Len(net) : k < l => Before(net[k].frames, net[l].frames)

Inv == TypeOK /\ Stages /\ Wire /\ Order

---------------------------------------------------------------------------
(* Sequences *)

\* What RemoveAt leaves: one element less, the others in their order.
LEMMA RemoveAtFacts ==
    ASSUME NEW S, NEW s \in Seq(S), NEW i \in 1 .. Len(s)
    PROVE  /\ RemoveAt(s, i) \in Seq(S)
           /\ Len(RemoveAt(s, i)) = Len(s) - 1
           /\ \A j \in 1 .. Len(s) - 1 : RemoveAt(s, i)[j] = s[IF j < i THEN j ELSE j + 1]
    <1> DEFINE a == SubSeq(s, 1, i - 1)
               b == SubSeq(s, i + 1, Len(s))
    <1>1. a \in Seq(S) /\ Len(a) = i - 1 /\ \A j \in 1 .. i - 1 : a[j] = s[j]
          OBVIOUS
    <1>2. b \in Seq(S) /\ Len(b) = Len(s) - i /\ \A j \in 1 .. Len(s) - i : b[j] = s[i + j]
          OBVIOUS
    <1>3. RemoveAt(s, i) = a \o b
          BY DEF RemoveAt
    <1> HIDE DEF a, b
    <1>4. a \o b \in Seq(S) /\ Len(a \o b) = Len(s) - 1
      <2>1. a \o b \in Seq(S) /\ Len(a \o b) = Len(a) + Len(b)
            BY <1>1, <1>2, ConcatProperties
      <2>2. i \in Int /\ Len(s) \in Int
            OBVIOUS
      <2>3. QED
            BY <1>1, <1>2, <2>1, <2>2
    <1>5. ASSUME NEW j \in 1 .. Len(s) - 1
          PROVE  (a \o b)[j] = s[IF j < i THEN j ELSE j + 1]
      <2>1. (a \o b)[j] = IF j <= Len(a) THEN a[j] ELSE b[j - Len(a)]
            BY <1>1, <1>2
      <2>2. CASE j < i
            BY <1>1, <2>1, <2>2
      <2>3. CASE j >= i
        <3>1. j - (i - 1) \in 1 .. Len(s) - i
              BY <2>3
        <3>2. b[j - (i - 1)] = s[i + (j - (i - 1))] /\ i + (j - (i - 1)) = j + 1
              BY <1>2, <3>1
        <3>3. QED
              BY <1>1, <2>1, <2>3, <3>2
      <2>4. j < i \/ j >= i
            OBVIOUS
      <2>5. QED
            BY <2>2, <2>3, <2>4
    <1>6. QED
          BY <1>3, <1>4, <1>5

\* Taking the head off a sequence moves the others down by one.
LEMMA TailFacts ==
    ASSUME NEW S, NEW s \in Seq(S), s # << >>
    PROVE  /\ Tail(s) \in Seq(S) /\ Len(Tail(s)) = Len(s) - 1 /\ Len(s) >= 1
           /\ Head(s) \in S /\ Head(s) = s[1]
           /\ \A j \in 1 .. Len(s) - 1 : Tail(s)[j] = s[j + 1]
    OBVIOUS

\* Appending adds one element at the end.
LEMMA AppendFacts ==
    ASSUME NEW S, NEW s \in Seq(S), NEW x \in S
    PROVE  /\ Append(s, x) \in Seq(S) /\ Len(Append(s, x)) = Len(s) + 1
           /\ Append(s, x)[Len(s) + 1] = x
           /\ \A j \in 1 .. Len(s) : Append(s, x)[j] = s[j]
    OBVIOUS

\* An empty stage is in order with every other.
LEMMA OrderEmpty ==
    ASSUME NEW s \in Seq(Nat), NEW x \in Nat
    PROVE  /\ Increasing(<< >>) /\ Above(<< >>, x) /\ Below(<< >>, x)
           /\ Before(<< >>, s) /\ Before(s, << >>)
    BY DEF Increasing, Above, Below, Before

\* Without its head a stage is as well ordered as it was, and above its head.
LEMMA OrderTail ==
    ASSUME NEW s \in Seq(Nat), s # << >>
    PROVE  /\ Increasing(s) => Increasing(Tail(s)) /\ Above(Tail(s), Head(s))
           /\ \A x \in Nat : /\ Above(s, x) => Above(Tail(s), x) /\ x < Head(s)
                             /\ Below(s, x) => Below(Tail(s), x) /\ Head(s) < x
    BY TailFacts DEF Increasing, Above, Below

\* A number above a stage may be appended to it.
LEMMA OrderAppend ==
    ASSUME NEW s \in Seq(Nat), NEW y \in Nat
    PROVE  /\ Increasing(s) /\ Below(s, y) => Increasing(Append(s, y))
           /\ \A x \in Nat : /\ Above(s, x) /\ x < y => Above(Append(s, y), x)
                             /\ Below(s, x) /\ y < x => Below(Append(s, y), x)
    <1>1. /\ Append(s, y) \in Seq(Nat) /\ Len(Append(s, y)) = Len(s) + 1 /\ Len(s) \in Nat
          /\ \A i \in 1 .. Len(s) : s[i] \in Nat
          BY AppendFacts
    <1>2. \A i \in 1 .. Len(Append(s, y)) :
             \/ i \in 1 .. Len(s) /\ Append(s, y)[i] = s[i]
             \/ i = Len(s) + 1 /\ Append(s, y)[i] = y
          BY <1>1, AppendFacts
    <1>3. ASSUME Increasing(s), Below(s, y)
          PROVE  Increasing(Append(s, y))
          BY <1>1, <1>2, <1>3 DEF Increasing, Below
    <1>4. ASSUME NEW x \in Nat, Above(s, x), x < y
          PROVE  Above(Append(s, y), x)
          BY <1>1, <1>2, <1>4 DEF Above
    <1>5. ASSUME NEW x \in Nat, Below(s, x), y < x
          PROVE  Below(Append(s, y), x)
          BY <1>1, <1>2, <1>5 DEF Below
    <1>6. QED
          BY <1>3, <1>4, <1>5

\* The same for two stages one of which is before the other.
LEMMA BeforeTail ==
    ASSUME NEW s \in Seq(Nat), NEW t \in Seq(Nat), Before(s, t)
    PROVE  /\ s # << >> => Before(Tail(s), t) /\ Above(t, Head(s))
           /\ t # << >> => Before(s, Tail(t)) /\ Below(s, Head(t))
    BY TailFacts DEF Before, Above, Below

\* What lies between two stages may be appended to either.
LEMMA BeforeAppend ==
    ASSUME NEW s \in Seq(Nat), NEW t \in Seq(Nat), NEW x \in Nat, Before(s, t)
    PROVE  /\ Above(t, x) => Before(Append(s, x), t)
           /\ Below(s, x) => Before(s, Append(t, x))
    <1>1. \A r \in Seq(Nat) : \A i \in 1 .. Len(Append(r, x)) :
             \/ i \in 1 .. Len(r) /\ Append(r, x)[i] = r[i]
             \/ i = Len(r) + 1 /\ Append(r, x)[i] = x
          BY AppendFacts
    <1>2. QED
          BY <1>1 DEF Before, Above, Below

\* Bounds may be moved apart.
LEMMA OrderWiden ==
    ASSUME NEW s \in Seq(Nat), NEW x \in Nat, NEW y \in Nat, x <= y
    PROVE  (Below(s, x) => Below(s, y)) /\ (Above(s, y) => Above(s, x))
    BY DEF Above, Below

---------------------------------------------------------------------------
(* The invariant *)

\* TypeOK in two parts.
Flags ==
    up \in BOOLEAN /\ event \in BOOLEAN /\ listening \in BOOLEAN /\ alarm \in BOOLEAN
    /\ gap \in BOOLEAN

Ranges ==
    /\ world \in Worlds /\ main \in Places \cup {"asleep", "returned"} /\ iface_up \in 0 .. 1
    /\ taken \in 0 .. MaxFrames /\ Len(rx_msgq) <= QueueLen /\ Len(can_frames) <= Batch
    /\ mailbox \in 0 .. Mailboxes /\ refused \subseteq 1 .. taken

\* The two parts are all of it.
LEMMA TypeParts == TypeOK <=> Flags /\ Ranges
    BY DEF TypeOK, Flags, Ranges

\* The bridge starts with nothing on the way.
LEMMA InvInit == Init => Inv
    <1> SUFFICES ASSUME Init PROVE Inv
        OBVIOUS
    <1>1. TypeOK
      <2>1. Flags
            BY DEF Init, Flags
      <2>2. Ranges
            BY ZephyrAssumption DEF Init, Ranges, Places
      <2>3. QED
            BY <2>1, <2>2, TypeParts
    <1>2. Stages
          BY DEF Init, Stages
    <1>3. Wire
          BY DEF Init, Wire
    <1>4. Newest = 0
          BY DEF Init, Newest, Tunnel!Newest
    <1>5. Order
          BY <1>4 DEF Init, Order, Increasing, Before, Within, Above, Below
    <1>6. QED
          BY <1>1, <1>2, <1>3, <1>5 DEF Inv

\* What the bridge does on the way: all but the start of the bridge, the
\* interface and the controller's own sending.
carried == <<taken, rx_msgq, can_frames, cf_seq_num, net, exp_cf_seqnum, alarm, out,
             written, refused, gap>>

\* A step that moves no frame keeps the invariant.
LEMMA InvOther ==
    ASSUME Inv, UNCHANGED carried, Flags', Ranges'
    PROVE  Inv'
    <1>1. Stages' /\ Wire'
          BY DEF Inv, Stages, Wire, carried
    <1>2. Newest' = Newest
          BY DEF Newest, Tunnel!Newest, carried
    <1>3. Order'
          BY <1>2 DEF Inv, Order, carried
    <1>4. TypeOK'
          BY DEF TypeOK, Flags, Ranges
    <1>5. QED
          BY <1>1, <1>3, <1>4 DEF Inv

\* main, the interface, Zephyr's event thread and the CAN bus move no frame.
LEMMA InvStart ==
    ASSUME Inv, Main \/ StartFails \/ InterfaceUp \/ RunCallbacks \/ BusTakes \/ UNCHANGED vars
    PROVE  Inv'
    <1> USE DEF carried, start, talker, listener, history, Goto
    <1>1. Flags /\ Ranges
          BY TypeParts DEF Inv
    <1>2. CASE Main
      <2> USE <1>2 DEF Main, InitCanDev, InitCanRx, IsUp, AddCallback, SemTake, CreateThreads
      <2>1. Flags'
            BY <1>1 DEF Flags
      <2>2. Ranges'
        <3>1. main' \in Places \cup {"asleep", "returned"} /\ iface_up' \in 0 .. 1
              BY <1>1 DEF Ranges, Places
        <3>2. UNCHANGED <<world, taken, rx_msgq, can_frames, mailbox, refused>>
              OBVIOUS
        <3>3. QED
              BY <1>1, <3>1, <3>2 DEF Ranges
      <2>3. UNCHANGED carried
            OBVIOUS
      <2>4. QED
            BY <2>1, <2>2, <2>3, InvOther
    <1>3. CASE StartFails
      <2> USE <1>3 DEF StartFails
      <2>1. Flags'
            BY <1>1 DEF Flags
      <2>2. Ranges'
            BY <1>1 DEF Ranges, Places
      <2>3. UNCHANGED carried
            OBVIOUS
      <2>4. QED
            BY <2>1, <2>2, <2>3, InvOther
    <1>4. CASE InterfaceUp
      <2> USE <1>4 DEF InterfaceUp
      <2>1. Flags'
            BY <1>1 DEF Flags
      <2>2. Ranges'
            BY <1>1 DEF Ranges, Places
      <2>3. UNCHANGED carried
            OBVIOUS
      <2>4. QED
            BY <2>1, <2>2, <2>3, InvOther
    <1>5. CASE RunCallbacks
      <2> USE <1>5 DEF RunCallbacks
      <2>1. Flags'
            BY <1>1 DEF Flags
      <2>2. Ranges'
            BY <1>1 DEF Ranges, Places, iface_up_handler
      <2>3. UNCHANGED carried
            OBVIOUS
      <2>4. QED
            BY <2>1, <2>2, <2>3, InvOther
    <1>6. CASE BusTakes
      <2> USE <1>6 DEF BusTakes
      <2>1. Flags'
            BY <1>1 DEF Flags
      <2>2. Ranges'
            BY <1>1, ZephyrAssumption DEF Ranges, Places
      <2>3. UNCHANGED carried
            OBVIOUS
      <2>4. QED
            BY <2>1, <2>2, <2>3, InvOther
    <1>7. CASE UNCHANGED vars
      <2> USE <1>7 DEF vars
      <2>1. Flags'
            BY <1>1 DEF Flags
      <2>2. Ranges'
            BY <1>1 DEF Ranges, Places
      <2>3. UNCHANGED carried
            OBVIOUS
      <2>4. QED
            BY <2>1, <2>2, <2>3, InvOther
    <1>8. QED
          BY <1>2, <1>3, <1>4, <1>5, <1>6, <1>7

\* What the steps need of the types.
LEMMA StageTypes ==
    ASSUME Inv
    PROVE  /\ Flags /\ Ranges /\ Stages /\ Order /\ Wire
           /\ taken \in Nat /\ Newest \in Nat
           /\ \A k \in 1 .. Len(net) : net[k] \in PduSet /\ net[k].frames \in Seq(Nat)
                                       /\ net[k].seq \in Nat
    <1>1. Flags /\ Ranges
          BY TypeParts DEF Inv
    <1>2. taken \in Nat /\ Newest \in Nat
          BY <1>1, ZephyrAssumption DEF Ranges, Inv, Order
    <1>3. \A k \in 1 .. Len(net) : net[k] \in PduSet
          BY DEF Inv, Stages
    <1>4. QED
          BY <1>1, <1>2, <1>3 DEF Inv, PduSet

\* A frame of the bus is numbered behind all others.
LEMMA InvCanFrame ==
    ASSUME Inv, CanFrame
    PROVE  Inv'
    <1> USE DEF CanFrame, start, talker, listener, history
    <1> USE StageTypes
    <1>2. taken' = taken + 1 /\ taken + 1 \in Nat
          BY DEF Ranges
    <1>3. rx_msgq' \in Seq(Nat) /\ Len(rx_msgq') <= QueueLen
          BY <1>2, AppendFacts, ZephyrAssumption DEF HasRoom, Ranges, Stages
    <1>4. TypeOK'
      <2>1. Flags'
            BY DEF Flags
      <2>2. Ranges'
            BY <1>2, <1>3, ZephyrAssumption DEF Ranges
      <2>3. QED
            BY <2>1, <2>2 DEF TypeOK, Flags, Ranges
    <1>5. Stages' /\ Wire'
          BY <1>3 DEF Stages, Wire
    <1>6. Newest' = Newest
          BY DEF Newest, Tunnel!Newest
    <1>7. ASSUME NEW s \in Seq(Nat), Within(s, Newest, taken + 1)
          PROVE  Within(s, Newest, taken' + 1) /\ (Before(s, rx_msgq) => Before(s, rx_msgq'))
      <2>1. Within(s, Newest, taken' + 1)
            BY <1>2, <1>7, OrderWiden DEF Within
      <2>2. QED
            BY <1>2, <1>7, <2>1, BeforeAppend DEF Within, Stages
    <1>8. Within(rx_msgq', Newest, taken' + 1)
      <2>1. Within(rx_msgq, Newest, taken' + 1)
            BY <1>7 DEF Order, Stages
      <2>2. Newest < taken + 1 /\ taken + 1 < taken' + 1 /\ taken' + 1 \in Nat
            BY <1>2 DEF Order
      <2>3. QED
            BY <1>2, <2>1, <2>2, OrderAppend DEF Within, Stages, Order
    <1>9. Order'
          BY SMTT(30), <1>2, <1>6, <1>7, <1>8 DEF Order, Stages
    <1>10. QED
           BY <1>4, <1>5, <1>9 DEF Inv

\* The head of the queue goes behind the frames of the batch.
LEMMA InvGetFrame ==
    ASSUME Inv, GetFrame
    PROVE  Inv'
    <1> USE DEF GetFrame, start, talker, listener, history
    <1> USE StageTypes
    <1>1. /\ rx_msgq' \in Seq(Nat) /\ Len(rx_msgq') = Len(rx_msgq) - 1 /\ Head(rx_msgq) \in Nat
          BY TailFacts DEF Stages
    <1>2. can_frames' \in Seq(Nat) /\ Len(can_frames') = Len(can_frames) + 1
          BY <1>1, AppendFacts DEF Stages
    <1>3. TypeOK'
      <2>1. Flags'
            BY DEF Flags
      <2>2. Ranges'
            BY SMTT(30), <1>1, <1>2, ZephyrAssumption DEF Ranges, Stages
      <2>3. QED
            BY <2>1, <2>2 DEF TypeOK, Flags, Ranges
    <1>4. Stages' /\ Wire'
          BY <1>1, <1>2 DEF Stages, Wire
    <1>5. Newest' = Newest
          BY DEF Newest, Tunnel!Newest
    <1>6. ASSUME NEW s \in Seq(Nat), Before(s, can_frames), Before(s, rx_msgq)
          PROVE  Before(s, can_frames') /\ Before(s, rx_msgq')
          BY <1>1, <1>6, BeforeTail, BeforeAppend DEF Stages
    <1>7. Within(rx_msgq', Newest, taken + 1) /\ Above(rx_msgq', Head(rx_msgq))
      <2>1. rx_msgq \in Seq(Nat) /\ rx_msgq # << >> /\ rx_msgq' = Tail(rx_msgq)
            BY DEF Stages
      <2>2. taken + 1 \in Nat
            OBVIOUS
      <2>3. QED
            BY <2>1, <2>2, OrderTail DEF Within, Order
    <1>8. Within(can_frames', Newest, taken + 1)
      <2>1. Below(can_frames, Head(rx_msgq)) /\ Newest < Head(rx_msgq) /\ Head(rx_msgq) < taken + 1
            BY OrderTail, BeforeTail DEF Within, Stages, Order
      <2>2. QED
            BY <1>1, <2>1, OrderAppend DEF Within, Stages, Order
    <1>9. Before(can_frames', rx_msgq')
          BY <1>1, <1>7, BeforeTail, BeforeAppend DEF Order, Stages
    <1>10. Order'
          BY <1>5, <1>6, <1>7, <1>8, <1>9 DEF Order, Stages
    <1>11. QED
           BY <1>3, <1>4, <1>10 DEF Inv

\* A batch becomes a PDU behind those on the way, or is given up.
LEMMA InvSendPdu ==
    ASSUME Inv, NEW ok \in BOOLEAN, SendPdu(ok)
    PROVE  Inv'
    <1> USE DEF SendPdu, start, talker, listener, history
    <1> USE StageTypes
    <1> DEFINE pdu == [seq |-> cf_seq_num % SeqNums, frames |-> can_frames]
    <1>1. pdu \in PduSet /\ pdu.frames = can_frames
          BY SMTT(30), ZephyrAssumption DEF Stages, PduSet
    <1>2. net' \in Seq(PduSet)
          BY <1>1 DEF Stages
    <1>3. TypeOK'
      <2>1. Flags'
            BY DEF Flags
      <2>2. Ranges'
            BY ZephyrAssumption DEF Ranges
      <2>3. QED
            BY <2>1, <2>2 DEF TypeOK, Flags, Ranges
    <1>4. Stages'
          BY <1>2 DEF Stages
    <1>5. Wire'
      <2> SUFFICES ASSUME ~gap'
                   PROVE  /\ ~alarm'
                          /\ cf_seq_num' = exp_cf_seqnum' + Len(net')
                          /\ \A i \in 1 .. Len(net') : net'[i].seq = (exp_cf_seqnum' + i - 1) % SeqNums
          BY DEF Wire
      <2>1. ok /\ ~gap
            OBVIOUS
      <2>2. net' = Append(net, pdu) /\ Len(net') = Len(net) + 1
            BY <1>1, <2>1 DEF Stages
      <2>3. cf_seq_num' = exp_cf_seqnum' + Len(net') /\ ~alarm'
            BY <2>1, <2>2 DEF Wire, Stages
      <2>4. ASSUME NEW i \in 1 .. Len(net')
            PROVE  net'[i].seq = (exp_cf_seqnum + i - 1) % SeqNums
        <3>1. CASE i \in 1 .. Len(net)
              BY <2>1, <2>2, <3>1, <1>1 DEF Wire, Stages
        <3>2. CASE i = Len(net) + 1
          <4>1. net'[i] = pdu /\ exp_cf_seqnum + i - 1 = cf_seq_num
                BY <1>1, <2>1, <2>2, <3>2 DEF Wire, Stages
          <4>2. QED
                BY <4>1
        <3>3. QED
              BY <2>2, <3>1, <3>2 DEF Stages
      <2>5. QED
            BY <2>3, <2>4
    <1>6. Newest' = Newest
          BY DEF Newest, Tunnel!Newest
    <1>7. ASSUME NEW k \in 1 .. Len(net')
          PROVE  \/ k \in 1 .. Len(net) /\ net'[k] = net[k]
                 \/ ok /\ k = Len(net) + 1 /\ net'[k].frames = can_frames
      <2>1. CASE ok
            BY SMTT(30), <1>1, <2>1, AppendFacts DEF Stages
      <2>2. CASE ~ok
            BY <2>2
      <2>3. QED
            BY <2>1, <2>2
    <1>8. /\ Before(out, << >>) /\ Before(<< >>, rx_msgq) /\ Within(<< >>, Newest, taken + 1)
          /\ \A s \in Seq(Nat) : Before(s, << >>)
          BY OrderEmpty DEF Stages, Within
    <1>9. \A k, l \in 1 .. Len(net') : k < l => Before(net'[k].frames, net'[l].frames)
      <2> SUFFICES ASSUME NEW k \in 1 .. Len(net'), NEW l \in 1 .. Len(net'), k < l
                   PROVE  Before(net'[k].frames, net'[l].frames)
          OBVIOUS
      <2>1. k \in 1 .. Len(net) /\ net'[k] = net[k]
            BY <1>2, <1>7 DEF Stages
      <2>2. QED
            BY <1>7, <2>1 DEF Order
    <1>10. \A k \in 1 .. Len(net') :
              /\ Within(net'[k].frames, Newest, taken + 1)
              /\ Before(out, net'[k].frames)
              /\ Before(net'[k].frames, can_frames') /\ Before(net'[k].frames, rx_msgq)
           BY <1>7, <1>8 DEF Order, Stages
    <1>11. Order'
           BY <1>6, <1>8, <1>9, <1>10 DEF Order
    <1>12. QED
           BY <1>3, <1>4, <1>5, <1>11 DEF Inv

\* The PDUs that are left when one is lost are in the order they had.
LEMMA InvLose ==
    ASSUME Inv, Lose
    PROVE  Inv'
    <1> USE DEF Lose, start, talker, listener, history
    <1> USE StageTypes
    <1>1. PICK n \in 1 .. Len(net) : net' = RemoveAt(net, n)
          BY DEF Stages
    <1>2. /\ net' \in Seq(PduSet) /\ Len(net') = Len(net) - 1
          /\ \A j \in 1 .. Len(net') : net'[j] = net[IF j < n THEN j ELSE j + 1]
          BY <1>1, RemoveAtFacts DEF Stages
    <1>3. TypeOK'
      <2>1. Flags'
            BY DEF Flags
      <2>2. Ranges'
            BY DEF Ranges
      <2>3. QED
            BY <2>1, <2>2 DEF TypeOK, Flags, Ranges
    <1>4. Stages'
          BY <1>2 DEF Stages
    <1>5. Wire'
          BY DEF Wire
    <1>6. Newest' = Newest
          BY DEF Newest, Tunnel!Newest
    <1>7. \A k \in 1 .. Len(net') : \E m \in 1 .. Len(net) :
             net'[k] = net[m] /\ m = IF k < n THEN k ELSE k + 1
      <2> SUFFICES ASSUME NEW k \in 1 .. Len(net')
                   PROVE  (IF k < n THEN k ELSE k + 1) \in 1 .. Len(net)
          BY <1>2
      <2>1. Len(net) \in Nat
            BY DEF Stages
      <2>2. QED
            BY <1>1, <1>2, <2>1
    <1>8. \A k \in 1 .. Len(net') :
              /\ Within(net'[k].frames, Newest, taken + 1)
              /\ Before(out, net'[k].frames)
              /\ Before(net'[k].frames, can_frames) /\ Before(net'[k].frames, rx_msgq)
           BY <1>7 DEF Order
    <1>9. \A k, l \in 1 .. Len(net') : k < l => Before(net'[k].frames, net'[l].frames)
      <2> SUFFICES ASSUME NEW k \in 1 .. Len(net'), NEW l \in 1 .. Len(net'), k < l
                   PROVE  Before(net'[k].frames, net'[l].frames)
          OBVIOUS
      <2>1. PICK p \in 1 .. Len(net) : net'[k] = net[p] /\ p = IF k < n THEN k ELSE k + 1
            BY <1>7
      <2>2. PICK q \in 1 .. Len(net) : net'[l] = net[q] /\ q = IF l < n THEN l ELSE l + 1
            BY <1>7
      <2>3. p < q
            BY <2>1, <2>2
      <2>4. QED
            BY <2>1, <2>2, <2>3 DEF Order
    <1>10. Order'
           BY <1>6, <1>8, <1>9 DEF Order
    <1>11. QED
           BY <1>3, <1>4, <1>5, <1>10 DEF Inv

\* The listener takes the frames of the first PDU; unless one is missing it
\* carries the number that is expected.
LEMMA InvReceive ==
    ASSUME Inv, Receive
    PROVE  Inv'
    <1> USE DEF Receive, start, talker, listener, history
    <1> USE StageTypes
    <1>1. /\ net' \in Seq(PduSet) /\ Len(net') = Len(net) - 1 /\ Len(net) \in Nat
          /\ 1 \in 1 .. Len(net) /\ Head(net) = net[1]
          /\ \A j \in 1 .. Len(net') : net'[j] = net[j + 1] /\ j + 1 \in 1 .. Len(net)
          BY TailFacts DEF Stages
    <1>2. exp_cf_seqnum' \in Nat /\ out' = net[1].frames /\ out' \in Seq(Nat)
          BY <1>1 DEF Stages, NextExpected
    <1>3. TypeOK'
      <2>1. Flags'
            BY DEF Flags
      <2>2. Ranges'
            BY DEF Ranges
      <2>3. QED
            BY <2>1, <2>2 DEF TypeOK, Flags, Ranges
    <1>4. Stages'
          BY <1>1, <1>2 DEF Stages
    <1>5. Wire'
      <2> SUFFICES ASSUME ~gap
                   PROVE  /\ ~alarm'
                          /\ cf_seq_num = exp_cf_seqnum' + Len(net')
                          /\ \A i \in 1 .. Len(net') : net'[i].seq = (exp_cf_seqnum' + i - 1) % SeqNums
          BY DEF Wire
      <2>1. Head(net).seq = exp_cf_seqnum % SeqNums
        <3>1. net[1].seq = (exp_cf_seqnum + 1 - 1) % SeqNums
              BY <1>1 DEF Wire
        <3>2. exp_cf_seqnum + 1 - 1 = exp_cf_seqnum
              BY DEF Stages
        <3>3. QED
              BY <1>1, <3>1, <3>2
      <2>2. exp_cf_seqnum' = exp_cf_seqnum + 1 /\ ~alarm'
            BY <2>1 DEF NextExpected
      <2>3. ASSUME NEW i \in 1 .. Len(net')
            PROVE  net'[i].seq = (exp_cf_seqnum' + i - 1) % SeqNums
        <3>1. net'[i].seq = (exp_cf_seqnum + (i + 1) - 1) % SeqNums
              BY <1>1 DEF Wire
        <3>2. exp_cf_seqnum + (i + 1) - 1 = exp_cf_seqnum' + i - 1
              BY <2>2 DEF Stages
        <3>3. QED
              BY <3>1, <3>2
      <2>4. QED
            BY <1>1, <2>2, <2>3 DEF Wire, Stages
    <1>6. Newest' = Newest
          BY DEF Newest, Tunnel!Newest
    <1>7. \A k \in 1 .. Len(net') :
              /\ Within(net'[k].frames, Newest, taken + 1)
              /\ Before(out', net'[k].frames)
              /\ Before(net'[k].frames, can_frames) /\ Before(net'[k].frames, rx_msgq)
      <2> SUFFICES ASSUME NEW k \in 1 .. Len(net')
                   PROVE  /\ Within(net'[k].frames, Newest, taken + 1)
                          /\ Before(out', net'[k].frames)
                          /\ Before(net'[k].frames, can_frames)
                          /\ Before(net'[k].frames, rx_msgq)
          OBVIOUS
      <2>1. net'[k] = net[k + 1] /\ k + 1 \in 1 .. Len(net) /\ 1 < k + 1
            BY <1>1
      <2>2. QED
            BY <1>1, <1>2, <2>1 DEF Order
    <1>8. \A k, l \in 1 .. Len(net') : k < l => Before(net'[k].frames, net'[l].frames)
      <2> SUFFICES ASSUME NEW k \in 1 .. Len(net'), NEW l \in 1 .. Len(net'), k < l
                   PROVE  Before(net'[k].frames, net'[l].frames)
          OBVIOUS
      <2>1. /\ net'[k] = net[k + 1] /\ k + 1 \in 1 .. Len(net)
            /\ net'[l] = net[l + 1] /\ l + 1 \in 1 .. Len(net) /\ k + 1 < l + 1
            BY <1>1
      <2>2. QED
            BY <2>1 DEF Order
    <1>9. Within(out', Newest, taken + 1) /\ Before(out', can_frames) /\ Before(out', rx_msgq)
          BY <1>1, <1>2 DEF Order
    <1>10. Order'
           BY <1>6, <1>7, <1>8, <1>9 DEF Order
    <1>11. QED
           BY <1>3, <1>4, <1>5, <1>10 DEF Inv

\* The next frame for the controller is newer than the last one it took.
LEMMA HeadIsNewer ==
    ASSUME Inv, out # << >>
    PROVE  /\ out \in Seq(Nat) /\ Head(out) \in Nat
           /\ Newest < Head(out) /\ Head(out) < taken + 1
           /\ Within(Tail(out), Head(out), taken + 1) /\ Within(Tail(out), Newest, taken + 1)
    <1> USE StageTypes
    <1>1. out \in Seq(Nat) /\ Head(out) \in Nat /\ taken + 1 \in Nat
          BY TailFacts DEF Stages
    <1>2. QED
          BY <1>1, OrderTail DEF Within, Order

\* A frame is handed to the controller, or given up.
LEMMA InvCanSend ==
    ASSUME Inv, CanSend
    PROVE  Inv'
    <1> USE DEF CanSend, start, talker, listener, history
    <1> USE StageTypes
    <1>1. out # << >> /\ out' = Tail(out) /\ out' \in Seq(Nat)
          BY TailFacts DEF Stages, AfterRefusal
    <1>2. \/ written' = Append(written, Head(out)) /\ mailbox' = mailbox + 1
             /\ mailbox < Mailboxes /\ refused' = refused
          \/ written' = written /\ mailbox' = mailbox /\ refused' = refused \cup {Head(out)}
          OBVIOUS
    <1>3. /\ Head(out) \in 1 .. taken /\ Head(out) \in Nat /\ written \in Seq(Nat)
          BY SMTT(30), <1>1, HeadIsNewer DEF Stages
    <1>4. written' \in Seq(Nat)
      <2>1. Append(written, Head(out)) \in Seq(Nat)
            BY <1>3, AppendProperties
      <2>2. written' \in {written, Append(written, Head(out))}
            BY <1>2
      <2>3. QED
            BY <1>3, <2>1, <2>2
    <1>5. \/ Newest' = Newest
          \/ Newest' = Head(out)
      <2>1. CASE written' = Append(written, Head(out))
        <3>1. written' # << >> /\ written'[Len(written')] = Head(out)
              BY <1>3, <2>1, AppendFacts
        <3>2. QED
              BY <3>1 DEF Newest, Tunnel!Newest
      <2>2. CASE written' = written
            BY <2>2 DEF Newest, Tunnel!Newest
      <2>3. QED
            BY <1>2, <2>1, <2>2
    <1>6. TypeOK'
      <2>1. Flags'
            BY DEF Flags
      <2>2. Ranges'
            BY SMTT(30), <1>2, <1>3, ZephyrAssumption DEF Ranges
      <2>3. QED
            BY <2>1, <2>2 DEF TypeOK, Flags, Ranges
    <1>7. Stages' /\ Wire'
          BY <1>1, <1>4 DEF Stages, Wire
    <1>8. Newest' \in 0 .. taken /\ Within(out', Newest', taken + 1)
          BY <1>1, <1>5, HeadIsNewer DEF Order
    <1>9. ASSUME NEW s \in Seq(Nat), Before(out, s), Within(s, Newest, taken + 1)
          PROVE  Before(out', s) /\ Within(s, Newest', taken + 1)
      <2>1. Before(out', s) /\ Above(s, Head(out))
            BY <1>1, <1>9, HeadIsNewer, BeforeTail
      <2>2. QED
            BY <1>5, <1>9, <2>1 DEF Within
    <1>10. Order'
          BY <1>8, <1>9 DEF Order, Stages
    <1>11. QED
          BY <1>6, <1>7, <1>10 DEF Inv

\* Every step keeps the invariant.
LEMMA InvStep == Inv /\ [Next]_vars => Inv'
    BY InvStart, InvCanFrame, InvGetFrame, InvSendPdu, InvLose, InvReceive, InvCanSend
    DEF Next, Talker, Listener, Send, SendFails

---------------------------------------------------------------------------
(* Theorems *)

\* The pipeline is in order and its numbers are consecutive while none is
\* missing, whatever the queue, the network and the controller drop.
THEOREM PipelineInvariance == Spec => []Inv
    BY InvInit, InvStep, PTL DEF Spec

\* The listener logs a wrong sequence number only when a PDU was not sent or was
\* lost, however often the number on the wire has wrapped; and the queue, the
\* batch and the controller stay within their limits.
THEOREM AlarmHasCause == Spec => []NoFalseAlarm
    <1>1. Inv => NoFalseAlarm
          BY DEF Inv, Wire, NoFalseAlarm
    <1>2. QED
          BY <1>1, PipelineInvariance, PTL

\* A step of the bridge is a step of the tunnel, or leaves it alone.
LEMMA TunnelStep ==
    Inv /\ [Next]_vars => [Tunnel!Next]_<<taken, written>>
    <1> SUFFICES ASSUME Inv, [Next]_vars
                 PROVE  Tunnel!Next \/ UNCHANGED <<taken, written>>
        OBVIOUS
    <1> USE DEF start, talker, listener, history
    <1>1. CASE CanFrame
          BY <1>1 DEF CanFrame, Tunnel!Next, Tunnel!Offer
    <1>2. CASE CanSend /\ mailbox < Mailboxes
      <2>1. written' = Append(written, Head(out)) /\ UNCHANGED taken
            BY <1>2 DEF CanSend
      <2>2. Head(out) \in Tunnel!Newest + 1 .. taken
            BY <1>2, StageTypes, HeadIsNewer DEF CanSend, Newest
      <2>3. QED
            BY <2>1, <2>2 DEF Tunnel!Next, Tunnel!Deliver
    <1>3. CASE CanSend /\ ~(mailbox < Mailboxes)
          BY <1>3 DEF CanSend
    <1>4. CASE Main \/ StartFails \/ InterfaceUp \/ RunCallbacks \/ BusTakes \/ UNCHANGED vars
          BY <1>4 DEF Main, InitCanDev, InitCanRx, IsUp, AddCallback, SemTake, CreateThreads,
                      StartFails, Goto, InterfaceUp, RunCallbacks, BusTakes, vars
    <1>5. CASE GetFrame \/ Send \/ SendFails \/ Lose \/ Receive
          BY <1>5 DEF GetFrame, Send, SendFails, SendPdu, Lose, Receive
    <1>6. QED
          BY <1>1, <1>2, <1>3, <1>4, <1>5 DEF Next, Talker, Listener

\* The bridge implements the tunnel: through a queue, batches, a network that
\* loses PDUs and a controller that refuses frames, those that come out are in
\* the order of the bus and none comes twice.
THEOREM BridgeIsTunnel == Spec => ImplementsTunnel
    <1>1. Init => Tunnel!Init
          BY DEF Init, Tunnel!Init
    <1>2. QED
          BY <1>1, TunnelStep, PipelineInvariance, PTL DEF Spec, ImplementsTunnel, Tunnel!Spec
=============================================================================
