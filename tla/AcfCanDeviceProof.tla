------------------------- MODULE AcfCanDeviceProof -------------------------
(***************************************************************************)
(* Proofs about AcfCanDevice for any finite set of CAN devices, any        *)
(* Ethernet devices and cables, any configurations, traffic and operations *)
(* that the world allows.                                                  *)
(*                                                                         *)
(* The inductive invariant adds to DeviceInv the count of references       *)
(* (Counted), what the packet handler still has in front of it (Walking),  *)
(* and where each frame that was sent may be: at one place only (Genuine,  *)
(* Distinct).                                                              *)
(***************************************************************************)
EXTENDS AcfCanDevice, FiniteSetTheorems, SequenceTheorems, WellFoundedInduction, TLAPS

Settings == UNION {world.settings[d] : d \in Devs}
Coded == {Encode(f) : f \in world.traffic}
Pdus == [from : Devs, no : Nat, frame : Coded, stream : {v.tx : v \in Settings}]
Sends == [from : Devs, no : Nat \ {0}, frame : world.traffic]
Receipts == [dev : Devs, from : Devs, no : Nat, frame : world.traffic]
Walks == [pos : Devs \cup {Null, End}, pdu : Pdus \cup {NoPdu}, eth : Eths \cup {Null},
          found : Devs \cup {Null}, stable : SUBSET Devs]

\* TypeOK without the number of frames received, with the shapes of the
\* records and functions.
Life ==
    /\ world \in Worlds /\ created \subseteq Devs
    /\ exists \subseteq created /\ up \subseteq exists
    /\ ethDev \in [Devs -> Eths \cup {Null}] /\ \A d \in up : ethDev[d] \in Eths
    /\ list \in Seq(Devs) /\ refs \in [Eths -> Int] /\ alive \subseteq Eths

Config ==
    /\ cfg \in [Devs -> Settings] /\ \A d \in Devs : cfg[d] \in world.settings[d]
    /\ \A s \in storing : s.dev \in exists /\ s.val \in world.settings[s.dev]

Flags == loaded \in BOOLEAN /\ crashed \in BOOLEAN /\ missed = FALSE

Histories ==
    /\ wire \in [Eths -> Seq(Pdus)] /\ sent \in Seq(Sends) /\ received \in Seq(Receipts)
    /\ Len(sent) <= world.sent

\* acfcan_up and acfcan_down keep the count, as long as no device was deleted.
Counted ==
    exists = created =>
        \A e \in Eths : refs[e] = Cardinality(Users(up, e)) /\ (Users(up, e) # {} => e \in alive)

\* No member of S stands before p in l.
NotBefore(l, p, S) == \A i, j \in 1 .. Len(l) : l[i] = p /\ l[j] \in S => i <= j

\* The devices that are owed the frame in the handler stand in the list where
\* the handler is or further on.
Walking ==
    /\ walk \in Walks
    /\ walk.stable \subseteq up
    /\ \A d \in walk.stable : Matches(d, walk.pdu, walk.eth)
    /\ NotBefore(list, walk.pos, walk.stable)
    /\ walk.pos = Null => walk = Idle
    /\ walk.pos = End => walk.stable = {} /\ walk.found = Null
    /\ walk.pos # Null => walk.pdu \in Pdus

\* x carries the frame f of a device that sent it.
Genuine(x, f) ==
    \E i \in 1 .. Len(sent) :
        sent[i].from = x.from /\ sent[i].no = x.no /\ sent[i].frame = f

Origin ==
    /\ \A i \in 1 .. Len(sent) : sent[i].no <= Cardinality(SentBy(sent[i].from))
    /\ \A e \in Eths : \A i \in 1 .. Len(wire[e]) : Genuine(wire[e][i], Decode(wire[e][i].frame))
    /\ \A i \in 1 .. Len(received) : Genuine(received[i], received[i].frame)
    /\ walk.pos # Null => Genuine(walk.pdu, Decode(walk.pdu.frame))

\* No frame that was sent is at two places.
Same(x, y) == x.from = y.from /\ x.no = y.no

Distinct ==
    /\ \A e, f \in Eths : \A i \in 1 .. Len(wire[e]), j \in 1 .. Len(wire[f]) :
          Same(wire[e][i], wire[f][j]) => e = f /\ i = j
    /\ \A i, j \in 1 .. Len(received) : Same(received[i], received[j]) => i = j
    /\ \A e \in Eths : \A i \in 1 .. Len(wire[e]) :
          /\ \A j \in 1 .. Len(received) : ~Same(received[j], wire[e][i])
          /\ walk.pos # Null => ~Same(walk.pdu, wire[e][i])
    /\ \A j \in 1 .. Len(received) : walk.pos # Null => ~Same(received[j], walk.pdu)

Frames == Histories /\ Origin /\ Distinct

Inv == Life /\ Config /\ Flags /\ ListIsUp /\ Counted /\ Walking /\ Frames

---------------------------------------------------------------------------
(* The list *)

\* What RemoveAt leaves: one element less, the others in their order.
LEMMA RemoveAtFacts ==
    ASSUME NEW S, NEW s \in Seq(S), NEW i \in 1 .. Len(s)
    PROVE  /\ RemoveAt(s, i) \in Seq(S)
           /\ Len(RemoveAt(s, i)) = Len(s) - 1
           /\ \A j \in 1 .. Len(s) - 1 : RemoveAt(s, i)[j] = s[IF j < i THEN j ELSE j + 1]
    <1> DEFINE a == SubSeq(s, 1, i - 1)
               b == SubSeq(s, i + 1, Len(s))
    <1>1. a \in Seq(S) /\ Len(a) = i - 1 /\ \A j \in 1 .. i - 1 : a[j] = s[j]
          OBVIOUS
    <1>2. b \in Seq(S) /\ Len(b) = Len(s) - i /\ \A j \in 1 .. Len(s) - i : b[j] = s[i + j]
          OBVIOUS
    <1>3. RemoveAt(s, i) = a \o b
          BY DEF RemoveAt
    <1> HIDE DEF a, b
    <1>4. a \o b \in Seq(S) /\ Len(a \o b) = Len(s) - 1
      <2>1. a \o b \in Seq(S) /\ Len(a \o b) = Len(a) + Len(b)
            BY <1>1, <1>2, ConcatProperties
      <2>2. i \in Int /\ Len(s) \in Int
            OBVIOUS
      <2>3. QED
            BY <1>1, <1>2, <2>1, <2>2
    <1>5. ASSUME NEW j \in 1 .. Len(s) - 1
          PROVE  (a \o b)[j] = s[IF j < i THEN j ELSE j + 1]
      <2>1. (a \o b)[j] = IF j <= Len(a) THEN a[j] ELSE b[j - Len(a)]
            BY <1>1, <1>2
      <2>2. CASE j < i
            BY <1>1, <2>1, <2>2
      <2>3. CASE j >= i
        <3>1. j - (i - 1) \in 1 .. Len(s) - i
              BY <2>3
        <3>2. b[j - (i - 1)] = s[i + (j - (i - 1))] /\ i + (j - (i - 1)) = j + 1
              BY <1>2, <3>1
        <3>3. QED
              BY <1>1, <2>1, <2>3, <3>2
      <2>4. j < i \/ j >= i
            OBVIOUS
      <2>5. QED
            BY <2>2, <2>3, <2>4
    <1>6. QED
          BY <1>3, <1>4, <1>5

\* Taking the head off a sequence moves the others down by one.
LEMMA TailFacts ==
    ASSUME NEW S, NEW s \in Seq(S), s # << >>
    PROVE  /\ Tail(s) \in Seq(S) /\ Len(Tail(s)) = Len(s) - 1 /\ Len(s) >= 1
           /\ Head(s) \in S /\ Head(s) = s[1]
           /\ \A j \in 1 .. Len(s) - 1 : Tail(s)[j] = s[j + 1]
    OBVIOUS

\* An element of an extended sequence is an old one or the new one.
LEMMA AppendFacts ==
    ASSUME NEW S, NEW s \in Seq(S), NEW x \in S
    PROVE  /\ Append(s, x) \in Seq(S) /\ Len(Append(s, x)) = Len(s) + 1
           /\ Append(s, x)[Len(s) + 1] = x
           /\ \A j \in 1 .. Len(s) : Append(s, x)[j] = s[j]
    OBVIOUS

\* Before the last index there is a next one.
LEMMA NextIndex ==
    ASSUME NEW n \in Nat, NEW i \in 1 .. n, i # n
    PROVE  i + 1 \in 1 .. n
    OBVIOUS

\* A member of the list has an entry.
LEMMA EntryFacts ==
    ASSUME list \in Seq(Devs), NEW d \in Range(list)
    PROVE  Entry(d) \in 1 .. Len(list) /\ list[Entry(d)] = d
    <1>1. DOMAIN list = 1 .. Len(list)
          OBVIOUS
    <1>2. \E k \in DOMAIN list : list[k] = d
          BY DEF Range
    <1>3. QED
          BY <1>1, <1>2 DEF Entry

\* list_del takes one device off the list and leaves the others in their order.
LEMMA ListDel ==
    ASSUME list \in Seq(Devs), IsInjective(list), NEW d
    PROVE  /\ list_del(d) \in Seq(Devs) /\ IsInjective(list_del(d))
           /\ Range(list_del(d)) = Range(list) \ {d}
           /\ \A p, S, T : NotBefore(list, p, S) /\ T \subseteq S => NotBefore(list_del(d), p, T)
    <1> DEFINE r == list_del(d)
               n == IF d \in Range(list) THEN Entry(d) ELSE Len(list) + 1
               old(i) == IF i < n THEN i ELSE i + 1
    <1>1. /\ n \in Nat /\ r \in Seq(Devs) /\ Len(r) \in Nat /\ Len(list) \in Nat
          /\ \A i \in 1 .. Len(r) : old(i) \in 1 .. Len(list) /\ r[i] = list[old(i)] /\ old(i) # n
          /\ \A k \in 1 .. Len(list) : k # n =>
                \E i \in 1 .. Len(r) : old(i) = k
          /\ \A k \in 1 .. Len(list) : k = n <=> list[k] = d
      <2>1. CASE d \in Range(list)
        <3>1. n \in 1 .. Len(list) /\ list[n] = d /\ Len(list) \in Nat
              BY <2>1, EntryFacts
        <3>2. r = RemoveAt(list, n)
              BY <2>1 DEF list_del
        <3> HIDE DEF n, r
        <3>3. /\ r \in Seq(Devs) /\ Len(r) = Len(list) - 1
              /\ \A i \in 1 .. Len(list) - 1 : r[i] = list[old(i)]
              BY <3>1, <3>2, RemoveAtFacts
        <3>4. \A i \in 1 .. Len(r) : old(i) \in 1 .. Len(list) /\ r[i] = list[old(i)] /\ old(i) # n
              BY <3>1, <3>3
        <3>5. ASSUME NEW k \in 1 .. Len(list), k # n
              PROVE  \E i \in 1 .. Len(r) : old(i) = k
          <4>1. CASE k < n
                BY <3>1, <3>3, <4>1
          <4>2. CASE k > n
            <5>1. k - 1 \in 1 .. Len(r) /\ old(k - 1) = k
                  BY <3>1, <3>3, <4>2
            <5>2. QED
                  BY <5>1
          <4>3. QED
                BY <3>1, <3>5, <4>1, <4>2
        <3>6. \A k \in 1 .. Len(list) : k = n <=> list[k] = d
              BY <3>1 DEF IsInjective
        <3>7. QED
              BY <3>1, <3>3, <3>4, <3>5, <3>6
      <2>2. CASE d \notin Range(list)
        <3>1. r = list /\ n = Len(list) + 1 /\ Len(list) \in Nat
              BY <2>2 DEF list_del
        <3>2. \A k \in 1 .. Len(list) : list[k] # d
              BY <2>2 DEF Range
        <3>3. \A k \in 1 .. Len(list) : old(k) = k /\ k # n
              BY <3>1
        <3> HIDE DEF n, r, old
        <3>4. QED
              BY <3>1, <3>2, <3>3
      <2>3. QED
            BY <2>1, <2>2
    <1>2. \A i, j \in 1 .. Len(r) : old(i) <= old(j) => i <= j
          BY <1>1
    <1>3. DOMAIN r = 1 .. Len(r) /\ DOMAIN list = 1 .. Len(list)
          BY <1>1
    <1>4. \A i, j \in 1 .. Len(r) : old(i) = old(j) => i = j
          BY <1>1
    <1> HIDE DEF n, r, old
    <1>5. IsInjective(r)
          BY <1>1, <1>3, <1>4 DEF IsInjective
    <1>6. Range(r) = Range(list) \ {d}
      <2>1. ASSUME NEW x \in Range(r)
            PROVE  x \in Range(list) \ {d}
            BY <1>1, <1>3 DEF Range
      <2>2. ASSUME NEW x \in Range(list) \ {d}
            PROVE  x \in Range(r)
        <3>1. PICK k \in 1 .. Len(list) : x = list[k]
              BY <1>3 DEF Range
        <3>2. PICK i \in 1 .. Len(r) : old(i) = k
              BY <1>1, <3>1
        <3>3. QED
              BY <1>1, <1>3, <3>1, <3>2 DEF Range
      <2>3. QED
            BY <2>1, <2>2
    <1>7. ASSUME NEW p, NEW S, NEW T, NotBefore(list, p, S), T \subseteq S
          PROVE  NotBefore(r, p, T)
          BY <1>1, <1>2, <1>7 DEF NotBefore
    <1>8. QED
          BY <1>1, <1>5, <1>6, <1>7 DEF r

\* list_add puts a device in front.
LEMMA ListAdd ==
    ASSUME list \in Seq(Devs), IsInjective(list), NEW d \in Devs \ Range(list)
    PROVE  /\ <<d>> \o list \in Seq(Devs) /\ IsInjective(<<d>> \o list)
           /\ Range(<<d>> \o list) = Range(list) \cup {d}
           /\ \A p, S : NotBefore(list, p, S) /\ d \notin S => NotBefore(<<d>> \o list, p, S)
    <1> DEFINE r == <<d>> \o list
    <1>1. /\ r \in Seq(Devs) /\ Len(r) = Len(list) + 1 /\ Len(list) \in Nat /\ r[1] = d
          /\ \A i \in 1 .. Len(list) : r[i + 1] = list[i]
          OBVIOUS
    <1> HIDE DEF r
    <1>2. DOMAIN r = 1 .. Len(list) + 1 /\ DOMAIN list = 1 .. Len(list)
          BY <1>1
    <1>3. \A i \in 1 .. Len(list) + 1 :
             \/ i = 1 /\ r[i] = d
             \/ i > 1 /\ i - 1 \in 1 .. Len(list) /\ r[i] = list[i - 1] /\ r[i] # d
      <2>1. ASSUME NEW i \in 1 .. Len(list) + 1, i > 1
            PROVE  i - 1 \in 1 .. Len(list) /\ r[i] = list[i - 1] /\ r[i] # d
        <3>1. i - 1 \in 1 .. Len(list) /\ (i - 1) + 1 = i
              BY <1>1, <2>1
        <3>2. r[i] = list[i - 1]
              BY <1>1, <3>1
        <3>3. QED
              BY <1>2, <3>1, <3>2 DEF Range
      <2>2. QED
            BY <1>1, <2>1
    <1>4. IsInjective(r)
      <2> SUFFICES ASSUME NEW a \in 1 .. Len(list) + 1, NEW b \in 1 .. Len(list) + 1, r[a] = r[b]
                   PROVE  a = b
          BY <1>2 DEF IsInjective
      <2>1. CASE a = 1 \/ b = 1
            BY <1>3, <2>1
      <2>2. CASE a # 1 /\ b # 1
        <3>1. a - 1 \in DOMAIN list /\ b - 1 \in DOMAIN list /\ list[a - 1] = list[b - 1]
              BY <1>2, <1>3, <2>2
        <3>2. a - 1 = b - 1
              BY <3>1 DEF IsInjective
        <3>3. QED
              BY <3>2
      <2>3. QED
            BY <2>1, <2>2
    <1>5. Range(r) = Range(list) \cup {d}
      <2>1. ASSUME NEW x \in Range(r)
            PROVE  x \in Range(list) \cup {d}
            BY <1>2, <1>3 DEF Range
      <2>2. ASSUME NEW x \in Range(list) \cup {d}
            PROVE  x \in Range(r)
        <3>1. CASE x = d
          <4>1. 1 \in DOMAIN r
                BY <1>1, <1>2
          <4>2. QED
                BY <1>1, <3>1, <4>1 DEF Range
        <3>2. CASE x \in Range(list)
          <4>1. PICK k \in 1 .. Len(list) : x = list[k]
                BY <1>2, <3>2 DEF Range
          <4>2. k + 1 \in DOMAIN r /\ r[k + 1] = x
                BY <1>1, <1>2, <4>1
          <4>3. QED
                BY <4>2 DEF Range
        <3>3. QED
              BY <3>1, <3>2
      <2>3. QED
            BY <2>1, <2>2
    <1>6. ASSUME NEW p, NEW S, NotBefore(list, p, S), d \notin S
          PROVE  NotBefore(r, p, S)
          BY <1>1, <1>3, <1>6 DEF NotBefore
    <1>7. QED
          BY <1>1, <1>4, <1>5, <1>6 DEF r

---------------------------------------------------------------------------
(* Frames *)

\* What the handler makes of a frame is the frame that was sent.
LEMMA CodecRoundTrip ==
    ASSUME world \in Worlds, NEW f \in world.traffic
    PROVE  Decode(Encode(f)) = f
    <1>1. /\ f \in [id : Nat, eff : BOOLEAN, rtr : BOOLEAN, fd : BOOLEAN, brs : BOOLEAN, esi : BOOLEAN]
          /\ f.id < (IF f.eff THEN EffMod ELSE SffMod)
          /\ f.brs \/ f.esi => f.fd
          /\ SffMod \in Nat \ {0} /\ EffMod \in Nat \ {0}
          BY DeviceConstants
    <1>2. f.id \in Nat /\ f.eff \in BOOLEAN /\ f.fd \in BOOLEAN /\ f.brs \in BOOLEAN /\ f.esi \in BOOLEAN
          BY <1>1
    <1>3. (IF f.eff THEN f.id % EffMod ELSE f.id % SffMod) = f.id
      <2>1. CASE f.eff
            BY <1>1, <1>2, <2>1
      <2>2. CASE ~f.eff
            BY <1>1, <1>2, <2>2
      <2>3. QED
            BY <2>1, <2>2
    <1>4. (f.fd /\ f.brs) = f.brs /\ (f.fd /\ f.esi) = f.esi
          BY <1>1, <1>2
    <1>5. Encode(f) = [id |-> f.id, eff |-> f.eff, rtr |-> f.rtr, fdf |-> f.fd, brs |-> f.brs, esi |-> f.esi]
          BY <1>3, <1>4 DEF Encode
    <1>6. Decode(Encode(f)) = [id |-> f.id, eff |-> f.eff, rtr |-> f.rtr,
                               fd |-> f.fd, brs |-> f.fd /\ f.brs, esi |-> f.fd /\ f.esi]
          BY <1>5 DEF Decode
    <1>7. f = [id |-> f.id, eff |-> f.eff, rtr |-> f.rtr, fd |-> f.fd, brs |-> f.brs, esi |-> f.esi]
          BY <1>1
    <1>8. QED
          BY <1>4, <1>6, <1>7

\* The frames are as they were if the handler took none.
LEMMA FramesKept ==
    ASSUME Frames, UNCHANGED <<world, wire, sent, received>>,
           walk'.pos # Null => walk.pos # Null /\ walk'.pdu = walk.pdu
    PROVE  Frames'
    <1>1. Histories'
          BY DEF Frames, Histories, Pdus, Sends, Receipts, Coded, Settings
    <1>2. Origin'
          BY DEF Frames, Origin, Genuine, SentBy
    <1>3. Distinct'
          BY DEF Frames, Distinct, Same
    <1>4. QED
          BY <1>1, <1>2, <1>3 DEF Frames

\* The wire of one Ethernet device loses its first frames.
Shorter(e, n) ==
    /\ wire' \in [Eths -> Seq(Pdus)]
    /\ \A f \in Eths : \A i \in 1 .. Len(wire'[f]) :
          LET k == IF f = e THEN i + n ELSE i
          IN k \in 1 .. Len(wire[f]) /\ wire'[f][i] = wire[f][k]

\* A wire without its first frame.
LEMMA WireTail ==
    ASSUME Histories, NEW e \in Eths, wire[e] # << >>, wire' = [wire EXCEPT ![e] = Tail(@)]
    PROVE  Shorter(e, 1)
    <1>1. wire \in [Eths -> Seq(Pdus)]
          BY DEF Histories
    <1>2. /\ Tail(wire[e]) \in Seq(Pdus) /\ Len(Tail(wire[e])) = Len(wire[e]) - 1
          /\ Len(wire[e]) \in Nat
          /\ \A j \in 1 .. Len(wire[e]) - 1 : Tail(wire[e])[j] = wire[e][j + 1]
          BY <1>1, TailFacts
    <1>3. \A f \in Eths : wire'[f] = IF f = e THEN Tail(wire[e]) ELSE wire[f]
          BY <1>1
    <1>4. wire' \in [Eths -> Seq(Pdus)]
          BY <1>1, <1>2
    <1>5. ASSUME NEW f \in Eths, NEW i \in 1 .. Len(wire'[f])
          PROVE  LET k == IF f = e THEN i + 1 ELSE i
                 IN k \in 1 .. Len(wire[f]) /\ wire'[f][i] = wire[f][k]
      <2>1. CASE f = e
        <3>1. wire'[e] = Tail(wire[e])
              BY <1>3
        <3>2. i \in 1 .. Len(wire[e]) - 1
              BY <1>2, <2>1, <3>1
        <3>3. i + 1 \in 1 .. Len(wire[e])
              BY <1>2, <3>2
        <3>4. QED
              BY <1>2, <2>1, <3>1, <3>2, <3>3
      <2>2. CASE f # e
            BY <1>3, <2>2
      <2>3. QED
            BY <2>1, <2>2
    <1>6. QED
          BY <1>4, <1>5 DEF Shorter

\* A wire that is gone.
LEMMA WireGone ==
    ASSUME Histories, NEW e \in Eths, wire' = [wire EXCEPT ![e] = << >>]
    PROVE  Shorter(e, 0)
    <1>1. wire \in [Eths -> Seq(Pdus)]
          BY DEF Histories
    <1>2. \A f \in Eths : wire'[f] = IF f = e THEN << >> ELSE wire[f]
          BY <1>1
    <1>3. wire' \in [Eths -> Seq(Pdus)]
          BY <1>1
    <1>4. \A f \in Eths : \A i \in 1 .. Len(wire'[f]) : f # e
          BY <1>2
    <1>5. QED
          BY <1>2, <1>3, <1>4 DEF Shorter

\* Frames that go leave the others genuine and at one place.
LEMMA FramesShorter ==
    ASSUME Frames, NEW e \in Eths, NEW n \in Nat, Shorter(e, n), UNCHANGED <<world, sent, received>>
    PROVE  /\ Histories'
           /\ walk'.pos = walk.pos /\ walk'.pdu = walk.pdu => Frames'
           /\ \A i \in 1 .. Len(sent) : (sent[i].no <= Cardinality(SentBy(sent[i].from)))'
           /\ \A f \in Eths : \A i \in 1 .. Len(wire'[f]) :
                 Genuine(wire[f][i], Decode(wire[f][i].frame))'
           /\ \A i \in 1 .. Len(received) : Genuine(received[i], received[i].frame)'
           /\ \A f, g \in Eths : \A i \in 1 .. Len(wire'[f]), j \in 1 .. Len(wire'[g]) :
                 Same(wire'[f][i], wire'[g][j]) => f = g /\ i = j
           /\ \A f \in Eths : \A i \in 1 .. Len(wire'[f]) :
                 \A j \in 1 .. Len(received) : ~Same(received[j], wire'[f][i])
    <1> DEFINE old(f, i) == IF f = e THEN i + n ELSE i
    <1>1. /\ wire' \in [Eths -> Seq(Pdus)]
          /\ \A f \in Eths : \A i \in 1 .. Len(wire'[f]) :
                old(f, i) \in 1 .. Len(wire[f]) /\ wire'[f][i] = wire[f][old(f, i)]
          BY DEF Shorter
    <1>2. Histories'
          BY <1>1 DEF Frames, Histories, Pdus, Sends, Receipts, Coded, Settings
    <1>3. \A f \in Eths : \A i \in 1 .. Len(wire'[f]), j \in 1 .. Len(wire'[f]) :
             old(f, i) = old(f, j) => i = j
          OBVIOUS
    <1> HIDE DEF old
    <1>4. \A f \in Eths : \A i \in 1 .. Len(wire'[f]) :
             Genuine(wire[f][i], Decode(wire[f][i].frame))'
      <2> SUFFICES ASSUME NEW f \in Eths, NEW i \in 1 .. Len(wire'[f])
                   PROVE  Genuine(wire[f][i], Decode(wire[f][i].frame))'
          OBVIOUS
      <2>1. PICK k \in 1 .. Len(wire[f]) : wire'[f][i] = wire[f][k]
            BY <1>1
      <2>2. Genuine(wire[f][k], Decode(wire[f][k].frame))
            BY DEF Frames, Origin
      <2>3. QED
            BY <2>1, <2>2 DEF Genuine, Decode
    <1>5. \A i \in 1 .. Len(received) : Genuine(received[i], received[i].frame)'
          BY DEF Frames, Origin, Genuine
    <1>6. \A i \in 1 .. Len(sent) : (sent[i].no <= Cardinality(SentBy(sent[i].from)))'
          BY DEF Frames, Origin, SentBy
    <1>7. \A f, g \in Eths : \A i \in 1 .. Len(wire'[f]), j \in 1 .. Len(wire'[g]) :
             Same(wire'[f][i], wire'[g][j]) => f = g /\ i = j
      <2> SUFFICES ASSUME NEW f \in Eths, NEW g \in Eths, NEW i \in 1 .. Len(wire'[f]),
                          NEW j \in 1 .. Len(wire'[g]), Same(wire'[f][i], wire'[g][j])
                   PROVE  f = g /\ i = j
          OBVIOUS
      <2>1. Same(wire[f][old(f, i)], wire[g][old(g, j)])
            BY <1>1
      <2>2. f = g /\ old(f, i) = old(g, j)
            BY <1>1, <2>1 DEF Frames, Distinct
      <2>3. QED
            BY <1>3, <2>2
    <1>8. \A f \in Eths : \A i \in 1 .. Len(wire'[f]) :
             \A j \in 1 .. Len(received) : ~Same(received[j], wire'[f][i])
          BY <1>1 DEF Frames, Distinct
    <1>9. ASSUME walk'.pos = walk.pos, walk'.pdu = walk.pdu
          PROVE  Frames'
      <2>1. Origin'
            BY <1>4, <1>5, <1>6, <1>9 DEF Frames, Origin, Genuine
      <2>2. \A f \in Eths : \A i \in 1 .. Len(wire'[f]) :
               walk.pos # Null => ~Same(walk.pdu, wire'[f][i])
            BY <1>1 DEF Frames, Distinct
      <2>3. Distinct'
            BY <1>7, <1>8, <1>9, <2>2 DEF Frames, Distinct, Same
      <2>4. QED
            BY <1>2, <2>1, <2>3 DEF Frames
    <1>10. QED
           BY <1>2, <1>4, <1>5, <1>6, <1>7, <1>8, <1>9

---------------------------------------------------------------------------
(* The invariant *)

\* Nothing is up and nothing under way.
LEMMA InvInit == Init => Inv
    <1> SUFFICES ASSUME Init PROVE Inv
        OBVIOUS
    <1> USE DEF Init
    <1>1. Range(list) = {} /\ IsInjective(list)
          BY DEF Range, IsInjective
    <1>2. Life
          BY DEF Life
    <1>3. Config
          BY DeviceConstants DEF Config, Settings
    <1>4. Flags /\ ListIsUp
          BY <1>1 DEF Flags, ListIsUp
    <1>5. Counted
      <2>1. \A e \in Eths : Users(up, e) = {}
            BY DEF Users
      <2>2. QED
            BY <2>1, FS_EmptySet DEF Counted
    <1>6. Walking
          BY DEF Walking, Walks, Idle, NotBefore
    <1>7. walk.pos = Null
          BY DEF Idle
    <1>8. Histories /\ Origin /\ Distinct
          BY <1>7, DeviceConstants DEF Histories, Origin, Distinct
    <1>9. QED
          BY <1>2, <1>3, <1>4, <1>5, <1>6, <1>8 DEF Inv, Frames

\* Devices that leave the list are no longer owed anything.
LEMMA LeaveFacts ==
    ASSUME Walking, NEW D, Leave(D)
    PROVE  /\ walk'.pos = walk.pos /\ walk'.pdu = walk.pdu /\ walk'.eth = walk.eth
           /\ walk'.found = walk.found /\ walk'.stable = walk.stable \ D
           /\ walk' \in [pos : Devs \cup {Null, End}, pdu : Pdus \cup {NoPdu}, eth : Eths \cup {Null},
                         found : Devs \cup {Null}, stable : SUBSET Devs]
           /\ walk'.pos = Null => walk' = Idle
    <1>1. walk \in Walks
          BY DEF Walking
    <1>2. /\ walk'.pos = walk.pos /\ walk'.pdu = walk.pdu /\ walk'.eth = walk.eth
          /\ walk'.found = walk.found /\ walk'.stable = walk.stable \ D
          BY <1>1 DEF Leave, Walks
    <1>3. walk' \in [pos : Devs \cup {Null, End}, pdu : Pdus \cup {NoPdu}, eth : Eths \cup {Null},
                     found : Devs \cup {Null}, stable : SUBSET Devs]
          BY <1>1 DEF Leave, Walks
    <1>4. walk.pos = Null => walk' = Idle
      <2> SUFFICES ASSUME walk = Idle
                   PROVE  walk' = Idle
          BY DEF Walking
      <2>1. Idle.stable \ D = {} /\ Idle.stable = {}
            BY DEF Idle
      <2>2. walk' = [Idle EXCEPT !.stable = {}]
            BY <2>1 DEF Leave
      <2>3. QED
            BY <2>2 DEF Idle
    <1>5. QED
          BY <1>2, <1>3, <1>4

\* The walk is undisturbed when devices leave, or are put in front of the list,
\* and the configuration of those that are owed the frame stays.
LEMMA WalkingKept ==
    ASSUME Inv, NEW D, Leave(D), UNCHANGED world,
           walk.stable \ D \subseteq up', \A d \in walk.stable \ D : cfg'[d] = cfg[d],
           NotBefore(list', walk.pos, walk.stable \ D)
    PROVE  Walking'
    <1>1. Walking
          BY DEF Inv
    <1>2. /\ walk'.pos = walk.pos /\ walk'.pdu = walk.pdu /\ walk'.eth = walk.eth
          /\ walk'.found = walk.found /\ walk'.stable = walk.stable \ D
          /\ walk'.pos = Null => walk' = Idle
          BY <1>1, LeaveFacts
    <1>3. Pdus' = Pdus
          BY DEF Pdus, Coded, Settings
    <1>4. Walks' = Walks
          BY <1>3 DEF Walks
    <1>5. walk' \in Walks
          BY <1>1, LeaveFacts DEF Walks
    <1>6. \A d \in walk'.stable : Matches(d, walk.pdu, walk.eth)'
          BY <1>1, <1>2 DEF Walking, Matches
    <1>7. QED
          BY <1>1, <1>2, <1>3, <1>4, <1>5, <1>6 DEF Walking

\* The same where the handler's state does not change.
LEMMA WalkingSame ==
    ASSUME Inv, UNCHANGED <<world, walk>>, walk.stable \subseteq up',
           \A d \in walk.stable : cfg'[d] = cfg[d], NotBefore(list', walk.pos, walk.stable)
    PROVE  Walking'
    <1>1. Walking
          BY DEF Inv
    <1>2. Pdus' = Pdus
          BY DEF Pdus, Coded, Settings
    <1>3. Walks' = Walks
          BY <1>2 DEF Walks
    <1>4. \A d \in walk.stable : Matches(d, walk.pdu, walk.eth)'
          BY <1>1 DEF Walking, Matches
    <1>5. QED
          BY <1>1, <1>2, <1>3, <1>4 DEF Walking

\* The users of an Ethernet device can be counted.
LEMMA UsersFinite ==
    ASSUME NEW D \in SUBSET Devs, NEW e
    PROVE  IsFiniteSet(Users(D, e)) /\ Cardinality(Users(D, e)) \in Nat
    <1>1. Users(D, e) \in SUBSET Devs /\ IsFiniteSet(Devs)
          BY DeviceConstants DEF Users
    <1>2. QED
          BY <1>1, FS_Subset, FS_CardinalityType

\* A new device is configured by default and is not yet up.
LEMMA InvNewlink ==
    ASSUME Inv, NEW d \in Devs, Newlink(d)
    PROVE  Inv'
    <1>1. /\ UNCHANGED <<world, loaded, up, list, refs, alive, storing, walk, wire, crashed,
                         missed, sent, received>>
          /\ exists' = exists \cup {d} /\ created' = created \cup {d} /\ d \notin created
          /\ cfg' = [cfg EXCEPT ![d] = Default] /\ ethDev' = [ethDev EXCEPT ![d] = Null]
          BY DEF Newlink, traffic
    <1>2. d \notin up /\ d \notin exists
          BY <1>1 DEF Inv, Life
    <1>3. Life'
          BY <1>1, <1>2 DEF Inv, Life
    <1>4. Config'
      <2>1. Default \in world.settings[d]
            BY DeviceConstants DEF Inv, Life
      <2>2. Default \in Settings /\ Settings' = Settings
            BY <1>1, <2>1 DEF Settings
      <2>3. QED
            BY <1>1, <2>1, <2>2 DEF Inv, Config
    <1>5. Flags' /\ ListIsUp'
          BY <1>1 DEF Inv, Flags, ListIsUp
    <1>6. Counted'
      <2>1. exists' = created' => exists = created
            BY <1>1, <1>2
      <2>2. \A e : Users(up, e)' = Users(up, e)
        <3>1. \A x \in up : ethDev'[x] = ethDev[x]
              BY <1>1, <1>2 DEF Inv, Life
        <3>2. QED
              BY <1>1, <3>1 DEF Users
      <2>3. QED
            BY <1>1, <2>1, <2>2 DEF Inv, Counted
    <1>7. Walking'
      <2>1. walk.stable \subseteq up /\ NotBefore(list, walk.pos, walk.stable)
            BY DEF Inv, Walking
      <2>2. \A x \in walk.stable : cfg'[x] = cfg[x]
            BY <1>1, <1>2, <2>1 DEF Inv, Config, Life
      <2>3. QED
            BY <1>1, <2>1, <2>2, WalkingSame
    <1>8. Frames'
          BY <1>1, FramesKept DEF Inv
    <1>9. QED
          BY <1>3, <1>4, <1>5, <1>6, <1>7, <1>8 DEF Inv

\* acfcan_up takes a reference to a device that is there.
LEMMA InvUp ==
    ASSUME Inv, NEW d \in Devs, Up(d)
    PROVE  Inv'
    <1> DEFINE e == cfg[d].eth
    <1>1. /\ UNCHANGED <<world, loaded, created, exists, cfg, alive, storing, walk, wire, crashed,
                         missed, sent, received>>
          /\ d \in exists /\ d \notin up /\ e \in alive /\ up' = up \cup {d}
          /\ refs' = [refs EXCEPT ![e] = @ + 1] /\ ethDev' = [ethDev EXCEPT ![d] = e]
          /\ list' = <<d>> \o list
          BY DEF Up, module, traffic
    <1> HIDE DEF e
    <1>2. e \in Eths /\ refs \in [Eths -> Int] /\ ethDev \in [Devs -> Eths \cup {Null}]
          /\ list \in Seq(Devs) /\ IsInjective(list) /\ Range(list) = up /\ up \subseteq Devs
          BY <1>1 DEF Inv, Life, ListIsUp
    <1>3. /\ list' \in Seq(Devs) /\ IsInjective(list') /\ Range(list') = up'
          /\ \A p, S : NotBefore(list, p, S) /\ d \notin S => NotBefore(list', p, S)
          BY <1>1, <1>2, ListAdd
    <1>4. Life'
          BY <1>1, <1>2, <1>3 DEF Inv, Life
    <1>5. Config'
          BY <1>1 DEF Inv, Config, Settings
    <1>6. Flags' /\ ListIsUp'
          BY <1>1, <1>3 DEF Inv, Flags, ListIsUp
    <1>7. Counted'
      <2> SUFFICES ASSUME exists = created, NEW f \in Eths
                   PROVE  refs'[f] = Cardinality(Users(up, f)') /\ (Users(up, f)' # {} => f \in alive)
          BY <1>1 DEF Counted
      <2>1. refs[f] = Cardinality(Users(up, f)) /\ (Users(up, f) # {} => f \in alive)
            BY DEF Inv, Counted
      <2>2. Users(up, f)' = IF f = e THEN Users(up, f) \cup {d} ELSE Users(up, f)
        <3>1. \A x \in up : ethDev'[x] = ethDev[x]
              BY <1>1, <1>2
        <3>2. ethDev'[d] = e
              BY <1>1, <1>2
        <3>3. QED
              BY <1>1, <3>1, <3>2 DEF Users
      <2>3. d \notin Users(up, f)
            BY <1>1 DEF Users
      <2>4. CASE f = e
        <3>1. Cardinality(Users(up, f) \cup {d}) = Cardinality(Users(up, f)) + 1
              BY <1>2, <2>3, UsersFinite, FS_AddElement
        <3>2. refs'[f] = refs[f] + 1
              BY <1>1, <1>2, <2>4
        <3>3. QED
              BY <1>1, <2>1, <2>2, <2>4, <3>1, <3>2
      <2>5. CASE f # e
            BY <1>1, <1>2, <2>1, <2>2, <2>5
      <2>6. QED
            BY <2>4, <2>5
    <1>8. Walking'
      <2>1. walk.stable \subseteq up /\ NotBefore(list, walk.pos, walk.stable)
            BY DEF Inv, Walking
      <2>2. NotBefore(list', walk.pos, walk.stable)
            BY <1>1, <1>3, <2>1
      <2>3. QED
            BY <1>1, <2>1, <2>2, WalkingSame
    <1>9. Frames'
          BY <1>1, FramesKept DEF Inv
    <1>10. QED
          BY <1>4, <1>5, <1>6, <1>7, <1>8, <1>9 DEF Inv

\* acfcan_down gives it back.
LEMMA InvDown ==
    ASSUME Inv, NEW d \in Devs, Down(d)
    PROVE  Inv'
    <1> DEFINE e == ethDev[d]
    <1>1. /\ UNCHANGED <<world, loaded, created, exists, cfg, ethDev, alive, storing, wire, crashed,
                         missed, sent, received>>
          /\ d \in up /\ up' = up \ {d} /\ refs' = [refs EXCEPT ![e] = @ - 1]
          /\ list' = list_del(d) /\ Leave({d})
          BY DEF Down, module, traffic
    <1>2. e \in Eths /\ refs \in [Eths -> Int] /\ list \in Seq(Devs) /\ IsInjective(list)
          /\ Range(list) = up /\ up \subseteq Devs
          BY <1>1 DEF Inv, Life, ListIsUp
    <1> HIDE DEF e
    <1>3. /\ list' \in Seq(Devs) /\ IsInjective(list') /\ Range(list') = up'
          /\ \A p, S, T : NotBefore(list, p, S) /\ T \subseteq S => NotBefore(list', p, T)
          BY <1>1, <1>2, ListDel
    <1>4. Life'
          BY <1>1, <1>2, <1>3 DEF Inv, Life
    <1>5. Config'
          BY <1>1 DEF Inv, Config, Settings
    <1>6. Flags' /\ ListIsUp'
          BY <1>1, <1>3 DEF Inv, Flags, ListIsUp
    <1>7. Counted'
      <2> SUFFICES ASSUME exists = created, NEW f \in Eths
                   PROVE  refs'[f] = Cardinality(Users(up, f)') /\ (Users(up, f)' # {} => f \in alive)
          BY <1>1 DEF Counted
      <2>1. refs[f] = Cardinality(Users(up, f)) /\ (Users(up, f) # {} => f \in alive)
            BY DEF Inv, Counted
      <2>2. Users(up, f)' = IF f = e THEN Users(up, f) \ {d} ELSE Users(up, f)
            BY <1>1 DEF Users, e
      <2>3. CASE f = e
        <3>1. d \in Users(up, f)
              BY <1>1, <2>3 DEF Users, e
        <3>2. Cardinality(Users(up, f) \ {d}) = Cardinality(Users(up, f)) - 1
              BY <1>2, <3>1, UsersFinite, FS_RemoveElement
        <3>3. refs'[f] = refs[f] - 1
              BY <1>1, <1>2, <2>3
        <3>4. QED
              BY <2>1, <2>2, <2>3, <3>1, <3>2, <3>3
      <2>4. CASE f # e
            BY <1>1, <1>2, <2>1, <2>2, <2>4
      <2>5. QED
            BY <2>3, <2>4
    <1>8. Walking'
      <2>1. walk.stable \subseteq up /\ NotBefore(list, walk.pos, walk.stable)
            BY DEF Inv, Walking
      <2>2. NotBefore(list', walk.pos, walk.stable \ {d})
            BY <1>3, <2>1
      <2>3. walk.stable \ {d} \subseteq up'
            BY <1>1, <2>1
      <2>4. QED
            BY <1>1, <2>2, <2>3, WalkingKept
    <1>9. Frames'
      <2>1. walk'.pos = walk.pos /\ walk'.pdu = walk.pdu
            BY <1>1, LeaveFacts DEF Inv
      <2>2. QED
            BY <1>1, <2>1, FramesKept DEF Inv
    <1>10. QED
          BY <1>4, <1>5, <1>6, <1>7, <1>8, <1>9 DEF Inv

\* Devices that are deleted leave the list; the count is then no longer claimed.
LEMMA InvRemove ==
    ASSUME Inv, NEW D \in SUBSET exists, NEW rest, acfcan_remove(D, rest),
           UNCHANGED <<world, created>>, loaded' \in BOOLEAN, D # {} \/ exists = {},
           rest \in Seq(Devs), IsInjective(rest), Range(rest) = up \ D,
           NotBefore(rest, walk.pos, walk.stable \ D)
    PROVE  Inv'
    <1>1. /\ UNCHANGED <<cfg, ethDev, alive, storing, wire, crashed, missed, sent, received>>
          /\ \A s \in storing : s.dev \notin D
          /\ up' = up \ D /\ exists' = exists \ D /\ list' = rest /\ Leave(D)
          /\ refs' = [e \in Eths |-> refs[e] - Cardinality(Users(D, e))
                                            - Cardinality(Users(D \cap up, e))]
          BY DEF acfcan_remove, traffic
    <1>2. up \subseteq exists /\ exists \subseteq created /\ created \subseteq Devs
          /\ refs \in [Eths -> Int]
          BY DEF Inv, Life
    <1>3. \A e \in Eths : Cardinality(Users(D, e)) \in Nat /\ Cardinality(Users(D \cap up, e)) \in Nat
          BY <1>2, UsersFinite
    <1>4. refs' \in [Eths -> Int]
      <2>1. ASSUME NEW e \in Eths
            PROVE  refs[e] - Cardinality(Users(D, e)) - Cardinality(Users(D \cap up, e)) \in Int
        <3>1. \A a \in Int : \A b, c \in Nat : a - b - c \in Int
              OBVIOUS
        <3>2. refs[e] \in Int
              BY <1>2
        <3>3. QED
              BY <1>3, <3>1, <3>2
      <2>2. QED
            BY <1>1, <2>1
    <1>5. Life'
          BY <1>1, <1>2, <1>4 DEF Inv, Life
    <1>6. Config'
          BY <1>1 DEF Inv, Config, Settings
    <1>7. Flags' /\ ListIsUp'
          BY <1>1 DEF Inv, Flags, ListIsUp
    <1>8. Counted'
      <2>1. exists' = created' => exists = {} /\ created = {}
            BY <1>1, <1>2
      <2>2. ASSUME exists = {}, created = {}, NEW e \in Eths
            PROVE  refs'[e] = Cardinality(Users(up, e)') /\ Users(up, e)' = {}
        <3>1. Users(D, e) = {} /\ Users(D \cap up, e) = {} /\ Users(up, e)' = {} /\ Users(up, e) = {}
              BY <1>1, <1>2, <2>2 DEF Users
        <3>2. refs[e] = 0
              BY <2>2, <3>1, FS_EmptySet DEF Inv, Counted
        <3>3. refs'[e] = refs[e] - Cardinality({}) - Cardinality({})
              BY <1>1, <3>1
        <3>4. Cardinality({}) = 0
              BY FS_EmptySet
        <3>5. QED
              BY <3>1, <3>2, <3>3, <3>4
      <2>3. QED
            BY <2>1, <2>2 DEF Counted
    <1>9. Walking'
      <2>1. walk.stable \subseteq up
            BY DEF Inv, Walking
      <2>2. QED
            BY <1>1, <2>1, WalkingKept
    <1>10. Frames'
      <2>1. walk'.pos = walk.pos /\ walk'.pdu = walk.pdu
            BY <1>1, LeaveFacts DEF Inv
      <2>2. QED
            BY <1>1, <2>1, FramesKept DEF Inv
    <1>11. QED
          BY <1>5, <1>6, <1>7, <1>8, <1>9, <1>10 DEF Inv

\* A device is deleted.
LEMMA InvDellink ==
    ASSUME Inv, NEW d \in Devs, Dellink(d)
    PROVE  Inv'
    <1>1. d \in exists /\ acfcan_remove({d}, list_del(d)) /\ UNCHANGED <<world, created, loaded>>
          BY DEF Dellink, module
    <1>2. list \in Seq(Devs) /\ IsInjective(list) /\ Range(list) = up /\ loaded \in BOOLEAN
          BY DEF Inv, Life, ListIsUp, Flags
    <1>3. /\ list_del(d) \in Seq(Devs) /\ IsInjective(list_del(d)) /\ Range(list_del(d)) = up \ {d}
          /\ NotBefore(list_del(d), walk.pos, walk.stable \ {d})
          BY <1>2, ListDel DEF Inv, Walking
    <1>4. {d} \in SUBSET exists /\ {d} # {} /\ loaded' \in BOOLEAN
          BY <1>1, <1>2
    <1>5. QED
          BY <1>1, <1>3, <1>4, InvRemove

\* All devices are deleted.
LEMMA InvUnload ==
    ASSUME Inv, Unload
    PROVE  Inv'
    <1>1. acfcan_remove(exists, << >>) /\ UNCHANGED <<world, created>> /\ loaded' = FALSE
          BY DEF Unload
    <1>2. /\ << >> \in Seq(Devs) /\ IsInjective(<< >>) /\ Range(<< >>) = up \ exists
          /\ NotBefore(<< >>, walk.pos, walk.stable \ exists)
          BY DEF Inv, Life, IsInjective, Range, NotBefore
    <1>3. QED
          BY <1>1, <1>2, InvRemove

\* A store passes its check.
LEMMA InvStoreCheck ==
    ASSUME Inv, NEW d \in Devs, NEW val \in world.settings[d], StoreCheck(d, val)
    PROVE  Inv'
    <1>1. /\ UNCHANGED <<world, loaded, created, exists, up, cfg, ethDev, list, refs, alive, walk,
                         wire, crashed, missed, sent, received>>
          /\ d \in exists /\ storing' = storing \cup {[dev |-> d, val |-> val]}
          BY DEF StoreCheck, module, config, traffic
    <1>2. Life' /\ Flags' /\ ListIsUp' /\ Counted'
          BY <1>1 DEF Inv, Life, Flags, ListIsUp, Counted, Users
    <1>3. Config'
          BY <1>1 DEF Inv, Config, Settings
    <1>4. Walking'
          BY <1>1, WalkingSame DEF Inv, Walking
    <1>5. Frames'
          BY <1>1, FramesKept DEF Inv
    <1>6. QED
          BY <1>2, <1>3, <1>4, <1>5 DEF Inv

\* It writes, though the device may have come up since.
LEMMA InvStoreWrite ==
    ASSUME Inv, NEW s \in storing, StoreWrite(s)
    PROVE  Inv'
    <1>1. /\ UNCHANGED <<world, loaded, created, exists, up, ethDev, list, refs, alive,
                         wire, crashed, missed, sent, received>>
          /\ storing' = storing \ {s} /\ cfg' = [cfg EXCEPT ![s.dev] = s.val] /\ Leave({s.dev})
          BY DEF StoreWrite, module, traffic
    <1>2. Life' /\ Flags' /\ ListIsUp' /\ Counted'
          BY <1>1 DEF Inv, Life, Flags, ListIsUp, Counted, Users
    <1>3. s.dev \in Devs /\ s.val \in world.settings[s.dev] /\ s.val \in Settings
          BY DEF Inv, Config, Life, Settings
    <1>4. Config'
      <2>1. Settings' = Settings
            BY <1>1 DEF Settings
      <2>2. cfg \in [Devs -> Settings] /\ \A d \in Devs : cfg[d] \in world.settings[d]
            BY DEF Inv, Config
      <2>3. cfg' \in [Devs -> Settings] /\ \A d \in Devs : cfg'[d] \in world.settings[d]
            BY <1>1, <1>3, <2>2
      <2>4. QED
            BY <1>1, <2>1, <2>3 DEF Inv, Config
    <1>5. Walking'
      <2>1. walk.stable \subseteq up /\ NotBefore(list, walk.pos, walk.stable) /\ up \subseteq Devs
            BY DEF Inv, Walking, Life
      <2>2. \A d \in walk.stable \ {s.dev} : cfg'[d] = cfg[d]
            BY <1>1, <2>1 DEF Inv, Config
      <2>3. NotBefore(list', walk.pos, walk.stable \ {s.dev})
            BY <1>1, <2>1 DEF NotBefore
      <2>4. QED
            BY <1>1, <2>1, <2>2, <2>3, WalkingKept
    <1>6. Frames'
      <2>1. walk'.pos = walk.pos /\ walk'.pdu = walk.pdu
            BY <1>1, LeaveFacts DEF Inv
      <2>2. QED
            BY <1>1, <2>1, FramesKept DEF Inv
    <1>7. QED
          BY <1>2, <1>4, <1>5, <1>6 DEF Inv

\* An Ethernet device goes that nobody refers to.
LEMMA InvUnplug ==
    ASSUME Inv, NEW e \in Eths, Unplug(e)
    PROVE  Inv'
    <1>1. /\ UNCHANGED <<world, loaded, created, exists, up, cfg, ethDev, list, refs, storing, walk,
                         crashed, missed, sent, received>>
          /\ alive' = alive \ {e} /\ refs[e] = 0 /\ wire' = [wire EXCEPT ![e] = << >>]
          BY DEF Unplug, module, config
    <1>2. Life' /\ Flags' /\ ListIsUp'
          BY <1>1 DEF Inv, Life, Flags, ListIsUp
    <1>3. Config'
          BY <1>1 DEF Inv, Config, Settings
    <1>4. Counted'
      <2> SUFFICES ASSUME exists = created, NEW f \in Eths
                   PROVE  refs[f] = Cardinality(Users(up, f)) /\ (Users(up, f) # {} => f \in alive')
          BY <1>1 DEF Counted, Users
      <2>1. refs[f] = Cardinality(Users(up, f)) /\ (Users(up, f) # {} => f \in alive)
            BY DEF Inv, Counted
      <2>2. up \in SUBSET Devs
            BY DEF Inv, Life
      <2>3. f = e => Users(up, f) = {}
            BY <1>1, <2>1, <2>2, UsersFinite, FS_EmptySet
      <2>4. QED
            BY <1>1, <2>1, <2>3
    <1>5. Walking'
          BY <1>1, WalkingSame DEF Inv, Walking
    <1>6. Frames'
      <2>1. Shorter(e, 0)
            BY <1>1, WireGone DEF Inv, Frames
      <2>2. QED
            BY <1>1, <2>1, FramesShorter DEF Inv
    <1>7. QED
          BY <1>2, <1>3, <1>4, <1>5, <1>6 DEF Inv

\* All but the frames and the handler is as it was.
LEMMA ControlKept ==
    ASSUME Inv, UNCHANGED <<world, loaded, created, exists, up, cfg, ethDev, list, refs, alive,
                            storing, crashed, missed>>
    PROVE  Life' /\ Config' /\ Flags' /\ ListIsUp' /\ Counted'
    <1>1. Life' /\ Flags' /\ ListIsUp' /\ Counted'
          BY DEF Inv, Life, Flags, ListIsUp, Counted, Users
    <1>2. Config'
          BY DEF Inv, Config, Settings
    <1>3. QED
          BY <1>1, <1>2

\* A frame is lost.
LEMMA InvLose ==
    ASSUME Inv, NEW e \in Eths, Lose(e)
    PROVE  Inv'
    <1>1. /\ UNCHANGED <<world, loaded, created, exists, up, cfg, ethDev, list, refs, alive, storing,
                         walk, crashed, missed, sent, received>>
          /\ wire[e] # << >> /\ wire' = [wire EXCEPT ![e] = Tail(@)]
          BY DEF Lose, module, config
    <1>2. Walking'
          BY <1>1, WalkingSame DEF Inv, Walking
    <1>3. Frames'
      <2>1. Shorter(e, 1)
            BY <1>1, WireTail DEF Inv, Frames
      <2>2. QED
            BY <1>1, <2>1, FramesShorter DEF Inv
    <1>4. QED
          BY <1>1, <1>2, <1>3, ControlKept DEF Inv

\* The handler takes a frame off the wire and stands at the head of the list.
LEMMA InvHandlerStart ==
    ASSUME Inv, NEW e \in Eths, HandlerStart(e)
    PROVE  Inv'
    <1> DEFINE p == Head(wire[e])
               pos == IF list = << >> THEN End ELSE Head(list)
               S == {d \in Range(list) : Matches(d, p, e)}
    <1>1. /\ UNCHANGED <<world, loaded, created, exists, up, cfg, ethDev, list, refs, alive, storing,
                         crashed, missed, sent, received>>
          /\ walk = Idle /\ wire[e] # << >> /\ wire' = [wire EXCEPT ![e] = Tail(@)]
          /\ walk' = [pos |-> pos, pdu |-> p, eth |-> e, found |-> Null, stable |-> S]
          BY DEF HandlerStart, module, config
    <1>2. wire \in [Eths -> Seq(Pdus)] /\ list \in Seq(Devs) /\ Range(list) = up /\ up \subseteq Devs
          BY DEF Inv, Frames, Histories, Life, ListIsUp
    <1>3. p \in Pdus /\ p = wire[e][1] /\ 1 \in 1 .. Len(wire[e])
          BY <1>1, <1>2, TailFacts
    <1>4. Null \notin Devs /\ Null # End
          BY DeviceConstants DEF Null, End
    <1>5. /\ pos \in Devs \cup {End} /\ pos # Null
          /\ NotBefore(list, pos, S) /\ (pos = End => S = {})
      <2>1. CASE list = << >>
            BY <1>4, <2>1 DEF NotBefore, Range
      <2>2. CASE list # << >>
        <3>1. pos = list[1] /\ pos \in Devs /\ 1 \in 1 .. Len(list)
              BY <1>2, <2>2, TailFacts
        <3>2. pos # End
              BY <3>1, DeviceConstants
        <3>3. DOMAIN list = 1 .. Len(list) /\ Len(list) \in Nat
              BY <1>2
        <3>4. \A i, j \in 1 .. Len(list) : list[i] = list[1] => i <= j
          <4>1. \A i \in 1 .. Len(list) : list[i] = list[1] => i = 1
                BY <3>1, <3>3 DEF Inv, ListIsUp, IsInjective
          <4>2. QED
                BY <3>3, <4>1
        <3>5. NotBefore(list, pos, S)
              BY <3>1, <3>4 DEF NotBefore
        <3>6. QED
              BY <1>4, <3>1, <3>2, <3>5
      <2>3. QED
            BY <2>1, <2>2
    <1>6. \A d \in S : Matches(d, p, e) /\ d \in up
          BY <1>2
    <1> HIDE DEF p, pos, S
    <1>7. S \subseteq up /\ S \subseteq Devs
          BY <1>2, <1>6
    <1>8. walk'.pos = pos /\ walk'.pdu = p /\ walk'.eth = e /\ walk'.found = Null /\ walk'.stable = S
          BY <1>1
    <1>9. Walking'
      <2>1. Pdus' = Pdus
            BY <1>1 DEF Pdus, Coded, Settings
      <2>2. walk' \in Walks
            BY <1>1, <1>3, <1>5, <1>7 DEF Walks
      <2>3. walk' \in Walks'
            BY <2>1, <2>2 DEF Walks
      <2>4. \A d \in walk'.stable : Matches(d, walk.pdu, walk.eth)'
            BY <1>1, <1>6, <1>8 DEF Matches
      <2>5. QED
            BY <1>1, <1>3, <1>5, <1>7, <1>8, <2>1, <2>3, <2>4 DEF Walking
    <1>10. Frames'
      <2>1. Shorter(e, 1)
            BY <1>1, WireTail DEF Inv, Frames
      <2>2. Genuine(p, Decode(p.frame))
            BY <1>3 DEF Inv, Frames, Origin
      <2>3. Genuine(walk.pdu, Decode(walk.pdu.frame))'
            BY <1>1, <1>8, <2>2 DEF Genuine, Decode
      <2>4. Histories' /\ Origin'
            BY <1>1, <2>1, <2>3, FramesShorter DEF Inv, Origin
      <2>5. \A f \in Eths : \A i \in 1 .. Len(wire'[f]) : ~Same(p, wire'[f][i])
        <3> SUFFICES ASSUME NEW f \in Eths, NEW i \in 1 .. Len(wire'[f]), Same(p, wire'[f][i])
                     PROVE  FALSE
            OBVIOUS
        <3>1. PICK k \in 1 .. Len(wire[f]) : wire'[f][i] = wire[f][k] /\ (f = e => k = i + 1)
              BY <2>1 DEF Shorter
        <3>2. e = f /\ 1 = k
              BY <1>3, <3>1 DEF Inv, Frames, Distinct
        <3>3. QED
              BY <3>1, <3>2
      <2>6. \A j \in 1 .. Len(received) : ~Same(received[j], p)
            BY <1>3 DEF Inv, Frames, Distinct
      <2>7. \A i, j \in 1 .. Len(received) : Same(received[i], received[j]) => i = j
            BY DEF Inv, Frames, Distinct
      <2>8. /\ \A f, g \in Eths : \A i \in 1 .. Len(wire'[f]), j \in 1 .. Len(wire'[g]) :
                  Same(wire'[f][i], wire'[g][j]) => f = g /\ i = j
            /\ \A f \in Eths : \A i \in 1 .. Len(wire'[f]) :
                  \A j \in 1 .. Len(received) : ~Same(received[j], wire'[f][i])
            BY <1>1, <2>1, FramesShorter DEF Inv
      <2>9. Distinct'
            BY <1>1, <1>8, <2>5, <2>6, <2>7, <2>8 DEF Distinct
      <2>10. QED
            BY <2>4, <2>9 DEF Frames
    <1>11. QED
           BY <1>1, <1>9, <1>10, ControlKept DEF Inv

\* The handler looks at one entry: a match, or on to the next, which those that
\* are owed the frame do not stand before.
LEMMA InvHandlerWalk ==
    ASSUME Inv, HandlerWalk
    PROVE  Inv'
    <1>1. /\ UNCHANGED <<world, loaded, created, exists, up, cfg, ethDev, list, refs, alive, storing,
                         wire, missed, sent, received>>
          /\ walk.pos \in Devs /\ walk.found = Null
          BY DEF HandlerWalk, module, config
    <1>2. \/ walk' = [walk EXCEPT !.found = walk.pos] /\ crashed' = crashed
          \/ /\ ~Matches(walk.pos, walk.pdu, walk.eth) /\ walk.pos \in Range(list)
             /\ walk' = [walk EXCEPT !.pos = Successor(walk.pos)] /\ crashed' = crashed
          \/ walk' = walk /\ crashed' = TRUE
          BY DEF HandlerWalk
    <1>3. Life' /\ Config' /\ ListIsUp' /\ Counted'
      <2>1. Life' /\ ListIsUp' /\ Counted'
            BY <1>1 DEF Inv, Life, ListIsUp, Counted, Users
      <2>2. Config'
            BY <1>1 DEF Inv, Config, Settings
      <2>3. QED
            BY <2>1, <2>2
    <1>4. Flags'
          BY <1>1, <1>2 DEF Inv, Flags
    <1>5. Null \notin Devs /\ End \notin Devs /\ Null # End
          BY DeviceConstants DEF Null, End
    <1>6. Walking /\ walk \in Walks /\ walk.pdu \in Pdus
          BY <1>1, <1>5 DEF Inv, Walking
    <1>7. Pdus' = Pdus
          BY <1>1 DEF Pdus, Coded, Settings
    <1>8. Walks' = Walks
          BY <1>7 DEF Walks
    <1>9. CASE walk' = walk
      <2>1. Walking'
            BY <1>1, <1>9, WalkingSame DEF Inv, Walking
      <2>2. Frames'
            BY <1>1, <1>9, FramesKept DEF Inv
      <2>3. QED
            BY <1>3, <1>4, <2>1, <2>2 DEF Inv
    <1>10. CASE walk' = [walk EXCEPT !.found = walk.pos]
      <2>1. /\ walk'.pos = walk.pos /\ walk'.pdu = walk.pdu /\ walk'.eth = walk.eth
            /\ walk'.stable = walk.stable /\ walk' \in Walks
            BY <1>1, <1>6, <1>10 DEF Walks
      <2>2. \A d \in walk'.stable : Matches(d, walk.pdu, walk.eth)'
            BY <1>1, <1>6, <2>1 DEF Walking, Matches
      <2>3. Walking'
            BY <1>1, <1>5, <1>6, <1>7, <1>8, <2>1, <2>2 DEF Walking
      <2>4. Frames'
            BY <1>1, <2>1, FramesKept DEF Inv
      <2>5. QED
            BY <1>3, <1>4, <2>3, <2>4 DEF Inv
    <1>11. CASE /\ ~Matches(walk.pos, walk.pdu, walk.eth) /\ walk.pos \in Range(list)
                /\ walk' = [walk EXCEPT !.pos = Successor(walk.pos)]
      <2> DEFINE i == Entry(walk.pos)
                 next == Successor(walk.pos)
      <2>1. list \in Seq(Devs) /\ IsInjective(list) /\ Range(list) = up
            BY DEF Inv, Life, ListIsUp
      <2>2. i \in 1 .. Len(list) /\ list[i] = walk.pos /\ Len(list) \in Nat
            /\ DOMAIN list = 1 .. Len(list)
            BY <1>11, <2>1, EntryFacts
      <2>3. next = IF i = Len(list) THEN End ELSE list[i + 1]
            BY DEF Successor
      <2> HIDE DEF i, next
      <2>4. \A j \in 1 .. Len(list) : list[j] \in walk.stable => i < j
        <3> SUFFICES ASSUME NEW j \in 1 .. Len(list), list[j] \in walk.stable
                     PROVE  i < j
            OBVIOUS
        <3>1. i <= j
              BY <1>6, <2>2 DEF Walking, NotBefore
        <3>2. i # j
              BY <1>6, <1>11, <2>2 DEF Walking
        <3>3. QED
              BY <2>2, <3>1, <3>2
      <2>5. i # Len(list) => i + 1 \in 1 .. Len(list) /\ list[i + 1] \in Devs
        <3>1. i # Len(list) => i + 1 \in 1 .. Len(list)
              BY <2>2, NextIndex
        <3>2. QED
              BY <2>1, <3>1
      <2>6. next \in Devs \cup {End} /\ next # Null
            BY <1>5, <2>3, <2>5
      <2>7. NotBefore(list, next, walk.stable)
        <3> SUFFICES ASSUME NEW k \in 1 .. Len(list), NEW j \in 1 .. Len(list),
                            list[k] = next, list[j] \in walk.stable
                     PROVE  k <= j
            BY DEF NotBefore
        <3>1. list[k] \in Devs
              BY <2>1
        <3>2. i # Len(list)
              BY <1>5, <2>3, <3>1
        <3>3. k = i + 1
              BY <2>1, <2>2, <2>3, <2>5, <3>2 DEF IsInjective
        <3>4. QED
              BY <2>2, <2>4, <3>3
      <2>8. next = End => walk.stable = {}
        <3> SUFFICES ASSUME next = End, NEW d \in walk.stable
                     PROVE  FALSE
            OBVIOUS
        <3>1. i = Len(list)
              BY <1>5, <2>3, <2>5
        <3>2. d \in Range(list)
              BY <1>6, <2>1 DEF Walking
        <3>3. PICK j \in 1 .. Len(list) : list[j] = d
              BY <2>2, <3>2 DEF Range
        <3>4. QED
              BY <2>2, <2>4, <3>1, <3>3
      <2>9. /\ walk'.pos = next /\ walk'.pdu = walk.pdu /\ walk'.eth = walk.eth
            /\ walk'.stable = walk.stable /\ walk'.found = Null /\ walk' \in Walks
        <3>1. walk' = [walk EXCEPT !.pos = next]
              BY <1>11 DEF next
        <3>2. QED
              BY <1>1, <1>6, <2>6, <3>1 DEF Walks
      <2>10. \A d \in walk'.stable : Matches(d, walk.pdu, walk.eth)'
            BY <1>1, <1>6, <2>9 DEF Walking, Matches
      <2>11. Walking'
            BY <1>1, <1>6, <1>7, <1>8, <2>6, <2>7, <2>8, <2>9, <2>10 DEF Walking
      <2>12. Frames'
            BY <1>1, <1>5, <2>9, FramesKept DEF Inv
      <2>13. QED
            BY <1>3, <1>4, <2>11, <2>12 DEF Inv
    <1>12. QED
           BY <1>2, <1>9, <1>10, <1>11

\* The handler is done with its frame.
LEMMA WalkingIdle ==
    ASSUME walk' = Idle
    PROVE  Walking' /\ walk'.pos = Null
    <1>1. /\ Idle.pos = Null /\ Idle.stable = {} /\ Idle.found = Null
          /\ Idle \in [pos : Devs \cup {Null, End}, pdu : Pdus' \cup {NoPdu}, eth : Eths \cup {Null},
                       found : Devs \cup {Null}, stable : SUBSET Devs]
          BY DEF Idle
    <1>2. Null # End
          BY DEF Null, End
    <1>3. QED
          BY <1>1, <1>2 DEF Walking, Walks, NotBefore

\* No match: nobody was owed the frame.
LEMMA InvHandlerDrop ==
    ASSUME Inv, HandlerDrop
    PROVE  Inv'
    <1>1. /\ UNCHANGED <<world, loaded, created, exists, up, cfg, ethDev, list, refs, alive, storing,
                         wire, crashed, sent, received>>
          /\ walk.pos = End /\ walk' = Idle /\ missed' = (missed \/ walk.stable # {})
          BY DEF HandlerDrop, module, config
    <1>2. walk.stable = {} /\ missed = FALSE
          BY <1>1 DEF Inv, Walking, Flags
    <1>3. missed' = missed
          BY <1>1, <1>2
    <1>4. Frames'
          BY <1>1, WalkingIdle, FramesKept DEF Inv
    <1>5. QED
          BY <1>1, <1>3, <1>4, WalkingIdle, ControlKept DEF Inv

\* The match gets the frame that was sent.
LEMMA InvHandlerDeliver ==
    ASSUME Inv, HandlerDeliver
    PROVE  Inv'
    <1> DEFINE p == walk.pdu
               x == [dev |-> walk.found, from |-> p.from, no |-> p.no, frame |-> Decode(p.frame)]
    <1>1. /\ UNCHANGED <<world, loaded, created, exists, up, cfg, ethDev, list, refs, alive, storing,
                         wire, crashed, missed, sent>>
          /\ walk.found # Null /\ walk' = Idle /\ received' = Append(received, x)
          BY DEF HandlerDeliver, module, config
    <1>2. walk.pos # Null /\ walk.found \in Devs /\ p \in Pdus
      <2>1. walk.pos # Null
            BY <1>1 DEF Inv, Walking, Idle
      <2>2. QED
            BY <1>1, <2>1 DEF Inv, Walking, Walks
    <1>3. x \in Receipts
      <2>1. p.from \in Devs /\ p.no \in Nat /\ p.frame \in Coded
            BY <1>2 DEF Pdus
      <2>2. Decode(p.frame) \in world.traffic
            BY <2>1, CodecRoundTrip DEF Coded, Inv, Life
      <2>3. QED
            BY <1>2, <2>1, <2>2 DEF Receipts
    <1>4. x.from = p.from /\ x.no = p.no /\ x.frame = Decode(p.frame)
          OBVIOUS
    <1> HIDE DEF x, p
    <1>5. received \in Seq(Receipts)
          BY DEF Inv, Frames, Histories
    <1>6. /\ received' \in Seq(Receipts) /\ Len(received') = Len(received) + 1 /\ Len(received) \in Nat
          /\ received'[Len(received) + 1] = x
          /\ \A j \in 1 .. Len(received) : received'[j] = received[j]
          BY <1>1, <1>3, <1>5, AppendFacts
    <1>7. \A j \in 1 .. Len(received') :
             \/ j \in 1 .. Len(received) /\ received'[j] = received[j]
             \/ j = Len(received) + 1 /\ received'[j] = x
          BY <1>6
    <1>8. Walking' /\ walk'.pos = Null
          BY <1>1, WalkingIdle
    <1>9. Histories'
          BY ZenonT(60), <1>1, <1>6 DEF Inv, Frames, Histories, Pdus, Sends, Receipts, Coded, Settings
    <1>10. Origin'
      <2>1. Genuine(p, Decode(p.frame))
            BY <1>2 DEF Inv, Frames, Origin, p
      <2>2. ASSUME NEW j \in 1 .. Len(received')
            PROVE  Genuine(received[j], received[j].frame)'
        <3>1. CASE j \in 1 .. Len(received) /\ received'[j] = received[j]
              BY <1>1, <3>1 DEF Inv, Frames, Origin, Genuine
        <3>2. CASE received'[j] = x
              BY <1>1, <1>4, <2>1, <3>2 DEF Genuine
        <3>3. QED
              BY <1>7, <3>1, <3>2
      <2>3. QED
            BY <1>1, <1>8, <2>2 DEF Inv, Frames, Origin, Genuine, SentBy
    <1>11. Distinct'
      <2>1. /\ \A j \in 1 .. Len(received) : ~Same(received[j], x) /\ ~Same(x, received[j])
            /\ \A e \in Eths : \A i \in 1 .. Len(wire[e]) : ~Same(x, wire[e][i])
            BY <1>2, <1>4 DEF Inv, Frames, Distinct, Same, p
      <2>2. \A i, j \in 1 .. Len(received') : Same(received'[i], received'[j]) => i = j
            BY <1>7, <2>1 DEF Inv, Frames, Distinct
      <2>3. \A e \in Eths : \A i \in 1 .. Len(wire[e]) :
               \A j \in 1 .. Len(received') : ~Same(received'[j], wire[e][i])
            BY <1>7, <2>1 DEF Inv, Frames, Distinct
      <2>4. QED
            BY <1>1, <1>8, <2>2, <2>3 DEF Inv, Frames, Distinct
    <1>12. QED
           BY <1>1, <1>8, <1>9, <1>10, <1>11, ControlKept DEF Inv, Frames

By(t, x) == {i \in DOMAIN t : t[i].from = x}

\* What has been sent bears a number that has been given.
LEMMA GenuineNumber ==
    ASSUME Frames, NEW x, NEW f, Genuine(x, f)
    PROVE  x.no <= Cardinality(SentBy(x.from))
    BY DEF Frames, Origin, Genuine

\* The frames of a device can be counted.
LEMMA SentByFinite ==
    ASSUME Frames, NEW d
    PROVE  /\ IsFiniteSet(SentBy(d)) /\ Cardinality(SentBy(d)) \in Nat
           /\ Len(sent) + 1 \notin SentBy(d)
    <1>1. Len(sent) \in Nat /\ DOMAIN sent = 1 .. Len(sent)
          BY DEF Frames, Histories
    <1>2. IsFiniteSet(1 .. Len(sent)) /\ SentBy(d) \in SUBSET (1 .. Len(sent))
          BY <1>1, FS_Interval DEF SentBy
    <1>3. QED
          BY <1>1, <1>2, FS_Subset, FS_CardinalityType

\* A wire with one more frame, unless the Ethernet device at its end is gone.
LEMMA WireAppend ==
    ASSUME wire \in [Eths -> Seq(Pdus)], NEW far \in Eths, NEW p \in Pdus,
           wire' = IF far \in alive THEN [wire EXCEPT ![far] = Append(@, p)] ELSE wire
    PROVE  /\ wire' \in [Eths -> Seq(Pdus)]
           /\ \A e \in Eths : \A i \in 1 .. Len(wire'[e]) :
                 \/ i \in 1 .. Len(wire[e]) /\ wire'[e][i] = wire[e][i]
                 \/ e = far /\ i = Len(wire[far]) + 1 /\ wire'[e][i] = p
    <1>1. CASE far \in alive
      <2>1. /\ Append(wire[far], p) \in Seq(Pdus) /\ Len(Append(wire[far], p)) = Len(wire[far]) + 1
            /\ Append(wire[far], p)[Len(wire[far]) + 1] = p /\ Len(wire[far]) \in Nat
            /\ \A j \in 1 .. Len(wire[far]) : Append(wire[far], p)[j] = wire[far][j]
            BY AppendFacts
      <2>2. wire' \in [Eths -> Seq(Pdus)]
            BY <1>1, <2>1
      <2>3. \A e \in Eths : wire'[e] = IF e = far THEN Append(wire[far], p) ELSE wire[e]
            BY <1>1
      <2>4. ASSUME NEW i \in 1 .. Len(wire'[far])
            PROVE  \/ i \in 1 .. Len(wire[far]) /\ wire'[far][i] = wire[far][i]
                   \/ i = Len(wire[far]) + 1 /\ wire'[far][i] = p
        <3>1. wire'[far] = Append(wire[far], p)
              BY <2>3
        <3>2. i \in 1 .. Len(wire[far]) + 1
              BY <2>1, <3>1
        <3>3. i \in 1 .. Len(wire[far]) \/ i = Len(wire[far]) + 1
              BY <2>1, <3>2
        <3>4. QED
              BY <2>1, <3>1, <3>3
      <2>5. QED
            BY <2>2, <2>3, <2>4
    <1>2. CASE far \notin alive
          BY <1>2
    <1>3. QED
          BY <1>1, <1>2

\* The history with one more frame, which counts for its sender.
LEMMA SentAppend ==
    ASSUME Frames, NEW s \in Sends, sent' = Append(sent, s)
    PROVE  /\ sent' \in Seq(Sends) /\ Len(sent') = Len(sent) + 1 /\ Len(sent) \in Nat
           /\ sent'[Len(sent) + 1] = s /\ \A i \in 1 .. Len(sent) : sent'[i] = sent[i]
           /\ \A i \in 1 .. Len(sent) : i \in 1 .. Len(sent')
           /\ Cardinality(By(sent', s.from)) = Cardinality(SentBy(s.from)) + 1
           /\ \A x : x # s.from => Cardinality(By(sent', x)) = Cardinality(SentBy(x))
    <1>1. sent \in Seq(Sends)
          BY DEF Frames, Histories
    <1>2. /\ sent' \in Seq(Sends) /\ Len(sent') = Len(sent) + 1 /\ Len(sent) \in Nat
          /\ sent'[Len(sent) + 1] = s /\ \A i \in 1 .. Len(sent) : sent'[i] = sent[i]
          BY <1>1, AppendFacts
    <1>3. \A x : By(sent', x) = IF x = s.from THEN SentBy(x) \cup {Len(sent) + 1} ELSE SentBy(x)
      <2>1. DOMAIN sent = 1 .. Len(sent) /\ DOMAIN sent' = 1 .. Len(sent) + 1
            BY <1>1, <1>2
      <2>2. \A i \in 1 .. Len(sent) + 1 : i \in 1 .. Len(sent) \/ i = Len(sent) + 1
            BY <1>2
      <2>3. 1 .. Len(sent) + 1 = 1 .. Len(sent) \cup {Len(sent) + 1}
            BY <1>2
      <2>4. QED
            BY <1>2, <2>1, <2>2, <2>3 DEF SentBy, By
    <1>4. Cardinality(SentBy(s.from) \cup {Len(sent) + 1}) = Cardinality(SentBy(s.from)) + 1
          BY SentByFinite, FS_AddElement
    <1>5. \A i \in 1 .. Len(sent) : i \in 1 .. Len(sent')
          BY <1>2
    <1>6. QED
          BY <1>2, <1>3, <1>4, <1>5

\* A device sends a frame under a new number.
LEMMA InvTransmit ==
    ASSUME Inv, NEW d \in Devs, NEW f \in world.traffic, Transmit(d, f)
    PROVE  Inv'
    <1> DEFINE n == Cardinality(SentBy(d)) + 1
               s == [from |-> d, no |-> n, frame |-> f]
               p == [from |-> d, no |-> n, frame |-> Encode(f), stream |-> cfg[d].tx]
               far == Peer[ethDev[d]]
    <1>1. /\ UNCHANGED <<world, loaded, created, exists, up, cfg, ethDev, list, refs, alive, storing,
                         walk, crashed, missed, received>>
          /\ d \in up /\ Len(sent) < world.sent /\ sent' = Append(sent, s)
          /\ wire' = IF far \in alive THEN [wire EXCEPT ![far] = Append(@, p)] ELSE wire
          BY DEF Transmit, module, config
    <1>2. Frames /\ world \in Worlds /\ world.sent \in Nat
          BY DeviceConstants DEF Inv, Life
    <1>3. Cardinality(SentBy(d)) \in Nat
          BY <1>2, SentByFinite
    <1>4. s \in Sends /\ s.from = d /\ s.no = n /\ s.frame = f /\ n \in Nat
          BY <1>3 DEF Sends
    <1>5. p \in Pdus /\ p.from = d /\ p.no = n /\ Decode(p.frame) = f
      <2>1. cfg[d] \in Settings
            BY DEF Inv, Config
      <2>2. cfg[d].tx \in {v.tx : v \in Settings} /\ Encode(f) \in Coded
            BY <2>1 DEF Coded
      <2>3. Decode(p.frame) = f
            BY <1>2, CodecRoundTrip
      <2>4. QED
            BY <1>4, <2>2, <2>3 DEF Pdus
    <1>6. far \in Eths
          BY <1>1, DeviceConstants DEF Inv, Life
    <1>7. sent \in Seq(Sends) /\ wire \in [Eths -> Seq(Pdus)] /\ received \in Seq(Receipts)
          BY <1>2 DEF Frames, Histories
    <1> HIDE DEF s, p, n, far
    <1>8. /\ sent' \in Seq(Sends) /\ Len(sent') = Len(sent) + 1 /\ Len(sent) \in Nat
          /\ sent'[Len(sent) + 1] = s /\ \A i \in 1 .. Len(sent) : sent'[i] = sent[i]
          /\ \A i \in 1 .. Len(sent) : i \in 1 .. Len(sent')
          BY <1>1, <1>2, <1>4, SentAppend
    <1>9. /\ wire' \in [Eths -> Seq(Pdus)]
          /\ \A e \in Eths : \A i \in 1 .. Len(wire'[e]) :
                \/ i \in 1 .. Len(wire[e]) /\ wire'[e][i] = wire[e][i]
                \/ e = far /\ i = Len(wire[far]) + 1 /\ wire'[e][i] = p
          BY <1>1, <1>5, <1>6, <1>7, WireAppend
    <1>10. Histories'
      <2>1. Len(sent') <= world.sent
            BY <1>1, <1>2, <1>8
      <2>2. Pdus' = Pdus /\ Sends' = Sends /\ Receipts' = Receipts
            BY <1>1 DEF Pdus, Sends, Receipts, Coded, Settings
      <2>3. QED
            BY <1>1, <1>7, <1>8, <1>9, <2>1, <2>2 DEF Histories
    <1>11. /\ Cardinality(By(sent', d)) = n
           /\ \A x : x # d => Cardinality(By(sent', x)) = Cardinality(SentBy(x))
          BY <1>1, <1>2, <1>4, SentAppend DEF n
    <1>12. ASSUME NEW x, NEW g, Genuine(x, g)
           PROVE  (\E i \in 1 .. Len(sent') : /\ sent'[i].from = x.from /\ sent'[i].no = x.no
                                              /\ sent'[i].frame = g)
           BY <1>8, <1>12 DEF Genuine
    <1>13. \E i \in 1 .. Len(sent') : sent'[i].from = p.from /\ sent'[i].no = p.no
                                      /\ sent'[i].frame = Decode(p.frame)
      <2>1. Len(sent) + 1 \in 1 .. Len(sent')
            BY <1>8
      <2>2. QED
            BY <1>4, <1>5, <1>8, <2>1
    <1>14. Origin'
      <2>1. ASSUME NEW i \in 1 .. Len(sent')
            PROVE  sent'[i].no <= Cardinality(By(sent', sent'[i].from))
        <3>1. CASE i = Len(sent) + 1
              BY <1>4, <1>8, <1>11, <3>1
        <3>2. CASE i \in 1 .. Len(sent)
          <4>1. sent'[i] = sent[i] /\ sent[i].no <= Cardinality(SentBy(sent[i].from))
                BY <1>2, <1>8, <3>2 DEF Frames, Origin
          <4>2. CASE sent[i].from = d
            <5>1. sent[i] \in Sends
                  BY <1>7, <3>2
            <5>2. sent[i].no \in Nat
                  BY <5>1 DEF Sends
            <5>3. sent[i].no <= n
                  BY <1>3, <4>1, <4>2, <5>2 DEF n
            <5>4. QED
                  BY <1>11, <4>1, <4>2, <5>3
          <4>3. CASE sent[i].from # d
                BY <1>11, <4>1, <4>3
          <4>4. QED
                BY <4>2, <4>3
        <3>3. QED
              BY <1>8, <3>1, <3>2
      <2>2. ASSUME NEW e \in Eths, NEW i \in 1 .. Len(wire'[e])
            PROVE  Genuine(wire[e][i], Decode(wire[e][i].frame))'
        <3>1. CASE i \in 1 .. Len(wire[e]) /\ wire'[e][i] = wire[e][i]
          <4>1. Genuine(wire[e][i], Decode(wire[e][i].frame))
                BY <1>2, <3>1 DEF Frames, Origin
          <4>2. PICK k \in 1 .. Len(sent') :
                   /\ sent'[k].from = wire[e][i].from /\ sent'[k].no = wire[e][i].no
                   /\ sent'[k].frame = Decode(wire[e][i].frame)
                BY <1>12, <4>1
          <4>3. QED
                BY <3>1, <4>2 DEF Genuine
        <3>2. CASE wire'[e][i] = p
              BY <1>13, <3>2 DEF Genuine
        <3>3. QED
              BY <1>9, <3>1, <3>2
      <2>3. \A i \in 1 .. Len(received) : Genuine(received[i], received[i].frame)'
            BY <1>1, <1>2, <1>12 DEF Frames, Origin, Genuine
      <2>4. walk.pos # Null => Genuine(walk.pdu, Decode(walk.pdu.frame))'
            BY <1>1, <1>2, <1>12 DEF Frames, Origin, Genuine, Decode
      <2>5. QED
            BY <1>1, <2>1, <2>2, <2>3, <2>4 DEF Origin, SentBy, By
    <1>15. ASSUME NEW x, NEW g, Genuine(x, g)
           PROVE  ~Same(x, p) /\ ~Same(p, x)
      <2>1. x.no <= Cardinality(SentBy(x.from))
            BY <1>2, <1>15, GenuineNumber
      <2>2. QED
            BY <1>3, <1>5, <2>1 DEF Same, n
    <1>16. Distinct'
      <2>1. \A e \in Eths : \A i \in 1 .. Len(wire[e]) : ~Same(wire[e][i], p) /\ ~Same(p, wire[e][i])
            BY <1>2, <1>15 DEF Frames, Origin
      <2>2. \A i \in 1 .. Len(received) : ~Same(received[i], p)
            BY <1>2, <1>15 DEF Frames, Origin
      <2>3. walk.pos # Null => ~Same(walk.pdu, p)
            BY <1>2, <1>15 DEF Frames, Origin
      <2>4. ASSUME NEW e \in Eths, NEW g \in Eths, NEW i \in 1 .. Len(wire'[e]),
                   NEW j \in 1 .. Len(wire'[g]), Same(wire'[e][i], wire'[g][j])
            PROVE  e = g /\ i = j
        <3>1. CASE /\ i \in 1 .. Len(wire[e]) /\ wire'[e][i] = wire[e][i]
                   /\ j \in 1 .. Len(wire[g]) /\ wire'[g][j] = wire[g][j]
              BY <1>2, <2>4, <3>1 DEF Frames, Distinct
        <3>2. CASE wire'[e][i] = p /\ j \in 1 .. Len(wire[g]) /\ wire'[g][j] = wire[g][j]
              BY <2>1, <2>4, <3>2
        <3>3. CASE wire'[g][j] = p /\ i \in 1 .. Len(wire[e]) /\ wire'[e][i] = wire[e][i]
              BY <2>1, <2>4, <3>3
        <3>4. QED
              BY <1>9, <3>1, <3>2, <3>3
      <2>5. ASSUME NEW e \in Eths, NEW i \in 1 .. Len(wire'[e])
            PROVE  /\ \A j \in 1 .. Len(received) : ~Same(received[j], wire'[e][i])
                   /\ walk.pos # Null => ~Same(walk.pdu, wire'[e][i])
            BY <1>2, <1>9, <2>2, <2>3 DEF Frames, Distinct
      <2>6. QED
            BY <1>1, <1>2, <2>4, <2>5 DEF Frames, Distinct
    <1>17. Walking'
           BY <1>1, WalkingSame DEF Inv, Walking
    <1>18. QED
           BY <1>1, <1>10, <1>14, <1>16, <1>17, ControlKept DEF Inv, Frames

\* Every step keeps the invariant.
LEMMA InvStep == Inv /\ [Next]_vars => Inv'
    <1> SUFFICES ASSUME Inv, [Next]_vars
                 PROVE  Inv'
        OBVIOUS
    <1>1. ASSUME NEW d \in Devs, Newlink(d) \/ Up(d) \/ Down(d) \/ Dellink(d)
          PROVE  Inv'
          BY <1>1, InvNewlink, InvUp, InvDown, InvDellink
    <1>2. CASE Unload
          BY <1>2, InvUnload
    <1>3. ASSUME NEW d \in Devs, NEW val \in world.settings[d], StoreCheck(d, val)
          PROVE  Inv'
          BY <1>3, InvStoreCheck
    <1>4. ASSUME NEW s \in storing, StoreWrite(s)
          PROVE  Inv'
          BY <1>4, InvStoreWrite
    <1>5. ASSUME NEW e \in Eths, Unplug(e) \/ Lose(e) \/ HandlerStart(e)
          PROVE  Inv'
          BY <1>5, InvUnplug, InvLose, InvHandlerStart
    <1>6. ASSUME NEW d \in Devs, NEW f \in world.traffic, Transmit(d, f)
          PROVE  Inv'
          BY <1>6, InvTransmit
    <1>7. CASE HandlerWalk \/ HandlerDeliver \/ HandlerDrop
          BY <1>7, InvHandlerWalk, InvHandlerDeliver, InvHandlerDrop
    <1>8. CASE UNCHANGED vars
      <2>1. UNCHANGED <<world, loaded, created, exists, up, cfg, ethDev, list, refs, alive, storing,
                        walk, wire, crashed, missed, sent, received>>
            BY <1>8 DEF vars, module, config, traffic
      <2>2. Walking' /\ Frames'
            BY <2>1, WalkingSame, FramesKept DEF Inv, Walking
      <2>3. QED
            BY <2>1, <2>2, ControlKept DEF Inv
    <1>9. QED
          BY <1>1, <1>2, <1>3, <1>4, <1>5, <1>6, <1>7, <1>8 DEF Next

---------------------------------------------------------------------------
(* Theorems *)

\* The inductive invariant holds in every state the module reaches.
THEOREM DeviceInvariance == Spec => []Inv
    BY InvInit, InvStep, PTL DEF Spec

\* No more frames come out than went in: each one received is one that was sent,
\* and no two are the same.
LEMMA ReceivedAtMostSent ==
    ASSUME Frames
    PROVE  Len(received) <= Len(sent)
    <1> DEFINE S == 1 .. Len(received)
               T == 1 .. Len(sent)
               g == [i \in S |-> CHOOSE j \in T : Same(sent[j], received[i])]
    <1>1. Len(received) \in Nat /\ Len(sent) \in Nat
          BY DEF Frames, Histories
    <1>2. \A i \in S : \E j \in T : Same(sent[j], received[i])
          BY DEF Frames, Origin, Genuine, Same
    <1>3. \A i \in S : g[i] \in T /\ Same(sent[g[i]], received[i])
          BY <1>2
    <1>4. \A i, j \in S : g[i] = g[j] => i = j
      <2> SUFFICES ASSUME NEW i \in S, NEW j \in S, g[i] = g[j]
                   PROVE  i = j
          OBVIOUS
      <2>1. Same(received[i], received[j])
            BY <1>3 DEF Same
      <2>2. QED
            BY <2>1 DEF Frames, Distinct
    <1>5. g \in [S -> T] /\ DOMAIN g = S
          BY <1>3
    <1>6. g \in Injection(S, T)
      <2> HIDE DEF g, S, T
      <2>1. QED
            BY <1>4, <1>5 DEF Injection, IsInjective
    <1> HIDE DEF g
    <1>7. IsFiniteSet(T) /\ Cardinality(T) = Len(sent) /\ Cardinality(S) = Len(received)
      <2>1. \A k \in Nat : IsFiniteSet(1 .. k) /\ Cardinality(1 .. k) = k
            BY FS_Interval
      <2>2. QED
            BY <1>1, <2>1
    <1>8. Cardinality(S) <= Cardinality(T)
      <2> HIDE DEF S, T
      <2>1. QED
            BY <1>6, <1>7, FS_Injection
    <1>9. QED
          BY <1>7, <1>8

\* Whatever the order of newlink, up, down, store, dellink and unload, for any
\* number of devices: the list holds exactly the devices that are up; the
\* Ethernet device of one that is up is not freed, as long as none was deleted;
\* and a frame comes out as it went in.
THEOREM DevicesAreSafe == Spec => []DeviceInv
    <1>1. ASSUME Inv
          PROVE  DeviceInv
      <2>1. TypeOK
        <3>1. Len(received) <= world.sent
          <4>1. Len(received) <= Len(sent) /\ Len(sent) <= world.sent
                BY <1>1, ReceivedAtMostSent DEF Inv, Frames, Histories
          <4>2. Len(received) \in Nat /\ Len(sent) \in Nat /\ world.sent \in Nat
                BY <1>1, DeviceConstants DEF Inv, Life, Frames, Histories
          <4>3. QED
                BY <4>1, <4>2
        <3>2. walk.pos \in Devs \cup {Null, End} /\ walk.found \in Devs \cup {Null}
              BY <1>1 DEF Inv, Walking, Walks
        <3>3. loaded \in BOOLEAN /\ {crashed, missed} \subseteq BOOLEAN
              BY <1>1 DEF Inv, Flags
        <3>4. QED
              BY <1>1, <3>1, <3>2, <3>3 DEF Inv, Life, Config, Frames, Histories, TypeOK
      <2>2. EthDeviceHeld
        <3> SUFFICES ASSUME exists = created, NEW d \in up
                     PROVE  ethDev[d] \in alive
            BY DEF EthDeviceHeld
        <3>1. ethDev[d] \in Eths /\ d \in Users(up, ethDev[d])
              BY <1>1 DEF Inv, Life, Users
        <3>2. QED
              BY <1>1, <3>1 DEF Inv, Counted
      <2>3. SameFrames
        <3> SUFFICES ASSUME NEW r \in Range(received)
                     PROVE  \E s \in Range(sent) : s.from = r.from /\ s.no = r.no /\ s.frame = r.frame
            BY DEF SameFrames
        <3>1. DOMAIN received = 1 .. Len(received) /\ DOMAIN sent = 1 .. Len(sent)
              BY <1>1 DEF Inv, Frames, Histories
        <3>2. PICK i \in 1 .. Len(received) : r = received[i]
              BY <3>1 DEF Range
        <3>3. PICK j \in 1 .. Len(sent) :
                 sent[j].from = r.from /\ sent[j].no = r.no /\ sent[j].frame = r.frame
              BY <1>1, <3>2 DEF Inv, Frames, Origin, Genuine
        <3>4. sent[j] \in Range(sent)
              BY <3>1 DEF Range
        <3>5. QED
              BY <3>3, <3>4
      <2>4. QED
            BY <1>1, <2>1, <2>2, <2>3 DEF Inv, DeviceInv
    <1>2. QED
          BY <1>1, DeviceInvariance, PTL

\* A frame is not dropped if its receiver is on the list for the whole walk, in
\* whatever way other devices join and leave the list under the handler.
THEOREM ActiveDeviceIsFound == Spec => []ActiveIsFound
    <1>1. Inv => ActiveIsFound
          BY DEF Inv, Flags, ActiveIsFound
    <1>2. QED
          BY <1>1, DeviceInvariance, PTL

---------------------------------------------------------------------------
(* Frames from Ecu1 keep their order *)

Ours(x) == x.from = Ecu1

\* The Ethernet devices that Ecu1 may be given.
Ports == {v.eth : v \in world.settings[Ecu1]} \cap Eths

\* Every frame of Ecu1 on a wire comes after the one numbered no.
Older(no) ==
    \A e \in Eths : \A i \in 1 .. Len(wire[e]) : Ours(wire[e][i]) => no < wire[e][i].no

\* Ecu1 uses an Ethernet device of its configurations.
Attached == Ecu1 \in up => ethDev[Ecu1] \in Ports

\* The frames of Ecu1 on the wires.
OneWire ==
    \A e \in Eths : \A i \in 1 .. Len(wire[e]) :
        Ours(wire[e][i]) => \E p \in Ports : e = Peer[p]

WireInOrder ==
    \A e \in Eths : \A i, j \in 1 .. Len(wire[e]) :
        Ours(wire[e][i]) /\ Ours(wire[e][j]) /\ i < j => wire[e][i].no < wire[e][j].no

\* The frame of Ecu1 that the handler has.
Handling == walk.pos # Null /\ Ours(walk.pdu)

Line ==
    OnePort(Ecu1) =>
        /\ OneWire /\ WireInOrder
        /\ Handling => Older(walk.pdu.no)
        /\ \A k \in 1 .. Len(received) : Ours(received[k]) =>
              Older(received[k].no) /\ (Handling => received[k].no < walk.pdu.no)

LineInv == Attached /\ Line

\* With one port, the frames of Ecu1 are on one wire.
LEMMA OneFarEnd ==
    ASSUME OnePort(Ecu1), OneWire, NEW e \in Eths, NEW f \in Eths,
           NEW i \in 1 .. Len(wire[e]), NEW j \in 1 .. Len(wire[f]),
           Ours(wire[e][i]), Ours(wire[f][j])
    PROVE  e = f
    <1>1. PICK p \in Ports : e = Peer[p]
          BY DEF OneWire
    <1>2. PICK q \in Ports : f = Peer[q]
          BY DEF OneWire
    <1>3. p = q
          BY DEF Ports, OnePort
    <1>4. QED
          BY <1>1, <1>2, <1>3

\* A step that moves no frame, and leaves Ecu1 at its port.
LEMMA LineKept ==
    ASSUME LineInv, UNCHANGED <<world, wire, received>>, Attached',
           walk'.pos # Null => walk.pos # Null /\ walk'.pdu = walk.pdu
    PROVE  LineInv'
    <1>1. OnePort(Ecu1)' = OnePort(Ecu1) /\ Ports' = Ports
          BY DEF OnePort, Ports
    <1>2. OneWire' = OneWire /\ WireInOrder' = WireInOrder /\ \A no : Older(no)' = Older(no)
          BY <1>1 DEF OneWire, WireInOrder, Older, Ours
    <1>3. Handling' => Handling /\ walk'.pdu = walk.pdu
          BY DEF Handling, Ours
    <1>4. Line'
      <2> SUFFICES ASSUME OnePort(Ecu1)
                   PROVE  /\ OneWire' /\ WireInOrder'
                          /\ Handling' => Older(walk.pdu.no)'
                          /\ \A k \in 1 .. Len(received)' : Ours(received[k])' =>
                                Older(received[k].no)' /\ (Handling' => (received[k].no < walk.pdu.no)')
          BY <1>1 DEF Line
      <2>1. Handling' => Older(walk.pdu.no)'
            BY <1>3 DEF LineInv, Line, Older, Ours
      <2>2. \A k \in 1 .. Len(received) : Ours(received[k]) =>
                Older(received[k].no)' /\ (Handling' => (received[k].no < walk.pdu.no)')
            BY <1>3 DEF LineInv, Line, Older, Ours
      <2>3. QED
            BY <1>2, <2>1, <2>2 DEF LineInv, Line, Ours
    <1>5. QED
          BY <1>4 DEF LineInv

\* Frames that go leave the others in order.
LEMMA OrderShorter ==
    ASSUME LineInv, OnePort(Ecu1), NEW e \in Eths, NEW n \in Nat, Shorter(e, n), UNCHANGED world
    PROVE  /\ OneWire' /\ WireInOrder'
           /\ \A no : Older(no) => Older(no)'
    <1> DEFINE old(f, i) == IF f = e THEN i + n ELSE i
    <1>1. /\ \A f \in Eths : \A i \in 1 .. Len(wire'[f]) :
                old(f, i) \in 1 .. Len(wire[f]) /\ wire'[f][i] = wire[f][old(f, i)]
          BY DEF Shorter
    <1>2. \A f \in Eths : \A i, j \in 1 .. Len(wire'[f]) : i < j => old(f, i) < old(f, j)
          OBVIOUS
    <1> HIDE DEF old
    <1>3. Ports' = Ports
          BY DEF Ports
    <1>4. OneWire'
          BY <1>1, <1>3 DEF LineInv, Line, OneWire, Ours
    <1>5. WireInOrder'
      <2> SUFFICES ASSUME NEW f \in Eths, NEW i \in 1 .. Len(wire'[f]), NEW j \in 1 .. Len(wire'[f]),
                          Ours(wire'[f][i]), Ours(wire'[f][j]), i < j
                   PROVE  wire'[f][i].no < wire'[f][j].no
          BY DEF WireInOrder, Ours
      <2>1. old(f, i) < old(f, j)
            BY <1>2
      <2>2. QED
            BY <1>1, <2>1 DEF LineInv, Line, WireInOrder
    <1>6. ASSUME NEW no, Older(no)
          PROVE  Older(no)'
      <2> SUFFICES ASSUME NEW f \in Eths, NEW i \in 1 .. Len(wire'[f]), Ours(wire'[f][i])
                   PROVE  no < wire'[f][i].no
          BY DEF Older, Ours
      <2>1. PICK k \in 1 .. Len(wire[f]) : wire'[f][i] = wire[f][k]
            BY <1>1
      <2>2. QED
            BY <1>6, <2>1 DEF Older
    <1>7. QED
          BY <1>4, <1>5, <1>6

\* A step that moves no frame: the life of devices, their configuration, the
\* handler's way through the list and its end without a match.
LEMMA LineQuiet ==
    ASSUME Inv, LineInv,
           \/ \E d \in Devs : Newlink(d) \/ Up(d) \/ Down(d) \/ Dellink(d)
           \/ Unload
           \/ \E d \in Devs : \E val \in world.settings[d] : StoreCheck(d, val)
           \/ \E s \in storing : StoreWrite(s)
           \/ HandlerWalk \/ HandlerDrop \/ UNCHANGED vars
    PROVE  LineInv'
    <1>1. Ecu1 \in Devs /\ Null \notin Devs /\ Idle.pos = Null
          BY DeviceConstants DEF Idle
    <1>2. ethDev \in [Devs -> Eths \cup {Null}] /\ up \subseteq created /\ walk \in Walks
          BY DEF Inv, Life, Walking
    <1>3. ASSUME UNCHANGED <<world, wire, received>>, Ports' = Ports => Attached', NEW D, Leave(D)
          PROVE  LineInv'
      <2>1. walk'.pos = walk.pos /\ walk'.pdu = walk.pdu
            BY <1>3, LeaveFacts DEF Inv
      <2>2. Ports' = Ports
            BY <1>3 DEF Ports
      <2>3. QED
            BY <1>3, <2>1, <2>2, LineKept
    <1>4. ASSUME UNCHANGED <<world, wire, received, walk>>, Ports' = Ports => Attached'
          PROVE  LineInv'
      <2>1. Ports' = Ports
            BY <1>4 DEF Ports
      <2>2. QED
            BY <1>4, <2>1, LineKept
    <1>5. ASSUME UNCHANGED ethDev, up' \subseteq up, Ports' = Ports
          PROVE  Attached'
          BY <1>5 DEF LineInv, Attached
    <1>6. ASSUME NEW d \in Devs, Newlink(d)
          PROVE  LineInv'
      <2>1. UNCHANGED <<world, wire, received, walk, up>> /\ d \notin created
            /\ ethDev' = [ethDev EXCEPT ![d] = Null]
            BY <1>6 DEF Newlink, traffic
      <2>2. Ports' = Ports => Attached'
            BY <1>1, <1>2, <2>1 DEF LineInv, Attached
      <2>3. QED
            BY <1>4, <2>1, <2>2
    <1>7. ASSUME NEW d \in Devs, Up(d)
          PROVE  LineInv'
      <2>1. UNCHANGED <<world, wire, received, walk, cfg>> /\ up' = up \cup {d}
            /\ ethDev' = [ethDev EXCEPT ![d] = cfg[d].eth] /\ cfg[d].eth \in alive
            BY <1>7 DEF Up, module, traffic
      <2>2. cfg[d].eth \in Eths /\ cfg[d] \in world.settings[d]
            BY <2>1 DEF Inv, Life, Config
      <2>3. d = Ecu1 => cfg[d].eth \in Ports
            BY <2>2 DEF Ports
      <2>4. Ports' = Ports => Attached'
            BY <1>1, <1>2, <2>1, <2>3 DEF LineInv, Attached
      <2>5. QED
            BY <1>4, <2>1, <2>4
    <1>8. ASSUME NEW d \in Devs, Down(d)
          PROVE  LineInv'
      <2>1. UNCHANGED <<world, wire, received, ethDev>> /\ up' = up \ {d} /\ Leave({d})
            BY <1>8 DEF Down, module, traffic
      <2>2. QED
            BY <1>3, <1>5, <2>1
    <1>9. ASSUME NEW D, NEW rest, acfcan_remove(D, rest), UNCHANGED world
          PROVE  LineInv'
      <2>1. UNCHANGED <<world, wire, received, ethDev>> /\ up' = up \ D /\ Leave(D)
            BY <1>9 DEF acfcan_remove, traffic
      <2>2. QED
            BY <1>3, <1>5, <2>1
    <1>10. ASSUME NEW d \in Devs, Dellink(d)
           PROVE  LineInv'
           BY <1>9, <1>10 DEF Dellink, module
    <1>11. CASE Unload
           BY <1>9, <1>11 DEF Unload
    <1>12. ASSUME NEW d \in Devs, NEW val, StoreCheck(d, val)
           PROVE  LineInv'
      <2>1. UNCHANGED <<world, wire, received, walk, ethDev, up>>
            BY <1>12 DEF StoreCheck, module, config, traffic
      <2>2. QED
            BY <1>4, <1>5, <2>1
    <1>13. ASSUME NEW s \in storing, StoreWrite(s)
           PROVE  LineInv'
      <2>1. UNCHANGED <<world, wire, received, ethDev, up>> /\ Leave({s.dev})
            BY <1>13 DEF StoreWrite, module, traffic
      <2>2. QED
            BY <1>3, <1>5, <2>1
    <1>14. ASSUME UNCHANGED <<world, wire, received, ethDev, up>>,
                  walk'.pos # Null => walk.pos # Null /\ walk'.pdu = walk.pdu
           PROVE  LineInv'
      <2>1. Ports' = Ports
            BY <1>14 DEF Ports
      <2>2. QED
            BY <1>5, <1>14, <2>1, LineKept
    <1>15. CASE HandlerWalk
      <2>1. /\ UNCHANGED <<world, wire, received, ethDev, up>> /\ walk.pos \in Devs
            /\ \/ walk' = [walk EXCEPT !.found = walk.pos]
               \/ walk' = [walk EXCEPT !.pos = Successor(walk.pos)]
               \/ walk' = walk
            BY <1>15 DEF HandlerWalk, module, config
      <2>2. walk'.pdu = walk.pdu
            BY <1>2, <2>1 DEF Walks
      <2>3. QED
            BY <1>1, <1>14, <2>1, <2>2
    <1>16. CASE HandlerDrop
      <2>1. UNCHANGED <<world, wire, received, ethDev, up>> /\ walk' = Idle
            BY <1>16 DEF HandlerDrop, module, config
      <2>2. QED
            BY <1>1, <1>14, <2>1
    <1>17. CASE UNCHANGED vars
           BY <1>14, <1>17 DEF vars, module, config, traffic
    <1>18. QED
           BY <1>6, <1>7, <1>8, <1>10, <1>11, <1>12, <1>13, <1>15, <1>16, <1>17

\* A frame is lost, or its wire goes away.
LEMMA LineShorter ==
    ASSUME Inv, LineInv, NEW e \in Eths, Unplug(e) \/ Lose(e)
    PROVE  LineInv'
    <1>1. UNCHANGED <<world, up, ethDev, walk, received>>
          BY DEF Unplug, Lose, module, config
    <1>2. \E n \in Nat : Shorter(e, n)
          BY WireTail, WireGone DEF Unplug, Lose, Inv, Frames
    <1>3. PICK n \in Nat : Shorter(e, n)
          BY <1>2
    <1>4. Attached' /\ OnePort(Ecu1)' = OnePort(Ecu1) /\ Handling' = Handling
          BY <1>1 DEF LineInv, Attached, Ports, OnePort, Handling, Ours
    <1>5. Line'
      <2> SUFFICES ASSUME OnePort(Ecu1)
                   PROVE  /\ OneWire' /\ WireInOrder'
                          /\ Handling => Older(walk.pdu.no)'
                          /\ \A k \in 1 .. Len(received) : Ours(received[k]) =>
                                Older(received[k].no)' /\ (Handling => received[k].no < walk.pdu.no)
          BY <1>1, <1>4 DEF Line, Ours
      <2>1. /\ OneWire' /\ WireInOrder'
            /\ \A no : (Older(no) => Older(no)')
            BY <1>1, <1>3, OrderShorter
      <2>2. Handling => Older(walk.pdu.no)'
            BY <1>1, <2>1 DEF LineInv, Line, Older
      <2>3. \A k \in 1 .. Len(received) : Ours(received[k]) => Older(received[k].no)'
            BY <1>1, <2>1 DEF LineInv, Line, Older
      <2>4. QED
            BY <2>1, <2>2, <2>3 DEF LineInv, Line
    <1>6. QED
          BY <1>4, <1>5 DEF LineInv

\* The handler takes the first frame off a wire: of those from Ecu1, the oldest.
LEMMA LineStart ==
    ASSUME Inv, LineInv, NEW e \in Eths, HandlerStart(e)
    PROVE  LineInv'
    <1>0. PICK p : p = Head(wire[e])
          OBVIOUS
    <1>1. /\ UNCHANGED <<world, up, ethDev, received>>
          /\ walk = Idle /\ wire[e] # << >> /\ wire' = [wire EXCEPT ![e] = Tail(@)]
          /\ walk'.pdu = p
          BY <1>0 DEF HandlerStart, module, config
    <1>2. p = wire[e][1] /\ 1 \in 1 .. Len(wire[e])
      <2>1. wire \in [Eths -> Seq(Pdus)]
            BY DEF Inv, Frames, Histories
      <2>2. QED
            BY <1>0, <1>1, <2>1, TailFacts
    <1>3. Shorter(e, 1)
          BY <1>1, WireTail DEF Inv, Frames
    <1>4. Attached' /\ OnePort(Ecu1)' = OnePort(Ecu1)
          BY <1>1 DEF LineInv, Attached, Ports, OnePort
    <1>5. Line'
      <2> SUFFICES ASSUME OnePort(Ecu1)
                   PROVE  /\ OneWire' /\ WireInOrder'
                          /\ Ours(p) => Older(p.no)'
                          /\ \A k \in 1 .. Len(received) : Ours(received[k]) =>
                                Older(received[k].no)' /\ (Ours(p) => received[k].no < p.no)
          BY <1>1, <1>4 DEF Line, Ours, Handling, Older
      <2>1. /\ OneWire' /\ WireInOrder'
            /\ \A no : (Older(no) => Older(no)')
            BY <1>1, <1>3, OrderShorter
      <2>2. ASSUME Ours(p)
            PROVE  Older(p.no)'
        <3> SUFFICES ASSUME NEW f \in Eths, NEW i \in 1 .. Len(wire'[f]), Ours(wire'[f][i])
                     PROVE  p.no < wire'[f][i].no
            BY DEF Older, Ours
        <3>1. PICK k \in 1 .. Len(wire[f]) : wire'[f][i] = wire[f][k] /\ (f = e => k = i + 1)
              BY <1>3 DEF Shorter
        <3>2. f = e
              BY <1>2, <2>2, <3>1, OneFarEnd DEF LineInv, Line
        <3>3. 1 < k
              BY <3>1, <3>2
        <3>4. QED
              BY <1>2, <2>2, <3>1, <3>2, <3>3 DEF LineInv, Line, WireInOrder
      <2>3. \A k \in 1 .. Len(received) : Ours(received[k]) => Older(received[k].no)'
            BY <1>1, <2>1 DEF LineInv, Line, Older
      <2>4. \A k \in 1 .. Len(received) : Ours(received[k]) /\ Ours(p) => received[k].no < p.no
            BY <1>2 DEF LineInv, Line, Older
      <2>5. QED
            BY <2>1, <2>2, <2>3, <2>4
    <1>6. QED
          BY <1>4, <1>5 DEF LineInv

\* The frame that is delivered is older than those on the wires.
LEMMA LineDeliver ==
    ASSUME Inv, LineInv, HandlerDeliver
    PROVE  LineInv'
    <1> DEFINE x == [dev |-> walk.found, from |-> walk.pdu.from, no |-> walk.pdu.no,
                     frame |-> Decode(walk.pdu.frame)]
    <1>1. /\ UNCHANGED <<world, wire, up, ethDev>> /\ walk.found # Null
          /\ received' = Append(received, x) /\ walk' = Idle
          BY DEF HandlerDeliver, module, config
    <1>2. walk.pos # Null /\ ~Handling'
          BY <1>1 DEF Inv, Walking, Idle, Handling
    <1>3. x.no = walk.pdu.no /\ x.from = walk.pdu.from
          OBVIOUS
    <1> HIDE DEF x
    <1>4. received \in Seq(Receipts)
          BY DEF Inv, Frames, Histories
    <1>5. \A j \in 1 .. Len(received') :
             \/ j \in 1 .. Len(received) /\ received'[j] = received[j]
             \/ received'[j] = x
          BY <1>1, <1>4
    <1>6. /\ Attached' /\ OnePort(Ecu1)' = OnePort(Ecu1) /\ OneWire' = OneWire
          /\ WireInOrder' = WireInOrder /\ \A no : Older(no)' = Older(no)
          BY <1>1 DEF LineInv, Attached, Ports, OnePort, OneWire, WireInOrder, Older, Ours
    <1>7. Line'
      <2> SUFFICES ASSUME OnePort(Ecu1), NEW j \in 1 .. Len(received'), Ours(received'[j])
                   PROVE  Older(received'[j].no)
          BY <1>1, <1>2, <1>6 DEF LineInv, Line, Ours, Older
      <2>1. CASE j \in 1 .. Len(received) /\ received'[j] = received[j]
            BY <2>1 DEF LineInv, Line
      <2>2. CASE received'[j] = x
        <3>1. Handling
              BY <1>2, <1>3, <2>2 DEF Handling, Ours
        <3>2. QED
              BY <1>3, <2>2, <3>1 DEF LineInv, Line
      <2>3. QED
            BY <1>5, <2>1, <2>2
    <1>8. QED
          BY <1>6, <1>7 DEF LineInv

\* A frame that Ecu1 sends has a number above all those before it.
LEMMA LineTransmit ==
    ASSUME Inv, LineInv, NEW d \in Devs, NEW f \in world.traffic, Transmit(d, f)
    PROVE  LineInv'
    <1> DEFINE n == Cardinality(SentBy(d)) + 1
               p == [from |-> d, no |-> n, frame |-> Encode(f), stream |-> cfg[d].tx]
               far == Peer[ethDev[d]]
    <1>1. /\ UNCHANGED <<world, up, ethDev, walk, received>> /\ d \in up
          /\ wire' = IF far \in alive THEN [wire EXCEPT ![far] = Append(@, p)] ELSE wire
          BY DEF Transmit, module, config
    <1>2. Cardinality(SentBy(d)) \in Nat /\ n \in Nat
          BY SentByFinite DEF Inv
    <1>3. p \in Pdus /\ p.from = d /\ p.no = n
      <2>1. cfg[d] \in Settings
            BY DEF Inv, Config
      <2>2. cfg[d].tx \in {v.tx : v \in Settings} /\ Encode(f) \in Coded
            BY <2>1 DEF Coded
      <2>3. QED
            BY <1>2, <2>2 DEF Pdus
    <1>4. far \in Eths
          BY <1>1, DeviceConstants DEF Inv, Life
    <1>5. wire \in [Eths -> Seq(Pdus)] /\ received \in Seq(Receipts) /\ walk \in Walks
          BY DEF Inv, Frames, Histories, Walking
    <1>6. ASSUME NEW x, NEW g, Genuine(x, g), x.no \in Nat, Ours(x), d = Ecu1
          PROVE  x.no < n
      <2>1. x.no <= Cardinality(SentBy(d))
            BY <1>6, GenuineNumber DEF Inv, Ours
      <2>2. QED
            BY <1>2, <1>6, <2>1
    <1>7. ASSUME d = Ecu1
          PROVE  \A e \in Eths : \A i \in 1 .. Len(wire[e]) : Ours(wire[e][i]) => wire[e][i].no < n
      <2> SUFFICES ASSUME NEW e \in Eths, NEW i \in 1 .. Len(wire[e]), Ours(wire[e][i])
                   PROVE  wire[e][i].no < n
          OBVIOUS
      <2>1. wire[e][i] \in Pdus
            BY <1>5
      <2>2. wire[e][i].no \in Nat
            BY <2>1 DEF Pdus
      <2>3. Genuine(wire[e][i], Decode(wire[e][i].frame))
            BY DEF Inv, Frames, Origin
      <2>4. QED
            BY <1>6, <1>7, <2>2, <2>3
    <1>8. ASSUME d = Ecu1, Handling
          PROVE  walk.pdu.no < n
      <2>1. walk.pdu \in Pdus
            BY <1>8 DEF Inv, Walking, Handling
      <2>2. walk.pdu.no \in Nat
            BY <2>1 DEF Pdus
      <2>3. Genuine(walk.pdu, Decode(walk.pdu.frame))
            BY <1>8 DEF Inv, Frames, Origin, Handling
      <2>4. QED
            BY <1>6, <1>8, <2>2, <2>3 DEF Handling
    <1>9. ASSUME d = Ecu1
          PROVE  \A k \in 1 .. Len(received) : Ours(received[k]) => received[k].no < n
      <2> SUFFICES ASSUME NEW k \in 1 .. Len(received), Ours(received[k])
                   PROVE  received[k].no < n
          OBVIOUS
      <2>1. received[k] \in Receipts
            BY <1>5
      <2>2. received[k].no \in Nat
            BY <2>1 DEF Receipts
      <2>3. Genuine(received[k], received[k].frame)
            BY DEF Inv, Frames, Origin
      <2>4. QED
            BY <1>6, <1>9, <2>2, <2>3
    <1>10. far = Peer[ethDev[d]] /\ (d = Ecu1 => ethDev[d] \in Ports)
           BY <1>1 DEF LineInv, Attached
    <1> HIDE DEF n, p, far
    <1>11. \A e \in Eths : \A i \in 1 .. Len(wire'[e]) :
              \/ i \in 1 .. Len(wire[e]) /\ wire'[e][i] = wire[e][i]
              \/ e = far /\ i = Len(wire[far]) + 1 /\ wire'[e][i] = p
           BY <1>1, <1>3, <1>4, <1>5, WireAppend
    <1>12. Ports' = Ports /\ Attached' /\ OnePort(Ecu1)' = OnePort(Ecu1) /\ Handling' = Handling
           BY <1>1 DEF LineInv, Attached, Ports, OnePort, Handling, Ours
    <1>13. ASSUME NEW no, Older(no), d = Ecu1 => no < n
           PROVE  Older(no)'
      <2> SUFFICES ASSUME NEW e \in Eths, NEW i \in 1 .. Len(wire'[e]), Ours(wire'[e][i])
                   PROVE  no < wire'[e][i].no
          BY DEF Older, Ours
      <2>1. QED
            BY <1>3, <1>11, <1>13 DEF Older, Ours
    <1>14. Line'
      <2> SUFFICES ASSUME OnePort(Ecu1)
                   PROVE  /\ OneWire' /\ WireInOrder'
                          /\ Handling => Older(walk.pdu.no)'
                          /\ \A k \in 1 .. Len(received) : Ours(received[k]) =>
                                Older(received[k].no)' /\ (Handling => received[k].no < walk.pdu.no)
          BY <1>1, <1>12 DEF Line, Ours
      <2>1. OneWire'
        <3> SUFFICES ASSUME NEW e \in Eths, NEW i \in 1 .. Len(wire'[e]), Ours(wire'[e][i])
                     PROVE  \E q \in Ports : e = Peer[q]
            BY <1>12 DEF OneWire, Ours
        <3>1. CASE wire'[e][i] = wire[e][i] /\ i \in 1 .. Len(wire[e])
              BY <3>1 DEF LineInv, Line, OneWire
        <3>2. CASE e = far /\ wire'[e][i] = p
              BY <1>3, <1>10, <3>2 DEF Ours
        <3>3. QED
              BY <1>11, <3>1, <3>2
      <2>2. WireInOrder'
        <3> SUFFICES ASSUME NEW e \in Eths, NEW i \in 1 .. Len(wire'[e]), NEW j \in 1 .. Len(wire'[e]),
                            Ours(wire'[e][i]), Ours(wire'[e][j]), i < j
                     PROVE  wire'[e][i].no < wire'[e][j].no
            BY DEF WireInOrder, Ours
        <3>1. CASE j \in 1 .. Len(wire[e]) /\ wire'[e][j] = wire[e][j]
          <4>1. i \in 1 .. Len(wire[e]) /\ wire'[e][i] = wire[e][i]
            <5>1. Len(wire[e]) \in Nat
                  BY <1>5
            <5>2. i # Len(wire[e]) + 1
                  BY <3>1, <5>1
            <5>3. QED
                  BY <1>11, <5>2
          <4>2. QED
                BY <3>1, <4>1 DEF LineInv, Line, WireInOrder
        <3>2. CASE e = far /\ j = Len(wire[far]) + 1 /\ wire'[e][j] = p
          <4>1. i # Len(wire[far]) + 1
                BY <3>2
          <4>2. i \in 1 .. Len(wire[e]) /\ wire'[e][i] = wire[e][i]
                BY <1>11, <3>2, <4>1
          <4>3. d = Ecu1
                BY <1>3, <3>2 DEF Ours
          <4>4. QED
                BY <1>3, <1>7, <3>2, <4>2, <4>3
        <3>3. QED
              BY <1>11, <3>1, <3>2
      <2>3. Handling => Older(walk.pdu.no)'
        <3>1. ASSUME Handling
              PROVE  Older(walk.pdu.no)'
          <4> DEFINE no == walk.pdu.no
          <4>1. Older(no) /\ (d = Ecu1 => no < n)
                BY <1>8, <3>1 DEF LineInv, Line
          <4>2. PICK m : m = no
                OBVIOUS
          <4>3. Older(m)'
                BY <1>13, <4>1, <4>2
          <4>4. QED
                BY <1>1, <4>2, <4>3
        <3>2. QED
              BY <3>1
      <2>4. ASSUME NEW k \in 1 .. Len(received), Ours(received[k])
            PROVE  Older(received[k].no)' /\ (Handling => received[k].no < walk.pdu.no)
        <3>1. Older(received[k].no) /\ (d = Ecu1 => received[k].no < n)
              BY <1>9, <2>4 DEF LineInv, Line
        <3>2. PICK m : m = received[k].no
              OBVIOUS
        <3>3. Older(m)'
              BY <1>13, <3>1, <3>2
        <3>4. QED
              BY <1>1, <2>4, <3>2, <3>3 DEF LineInv, Line
      <2>5. QED
            BY <2>1, <2>2, <2>3, <2>4
    <1>15. QED
          BY <1>12, <1>14 DEF LineInv

\* The invariant with the order of Ecu1's frames.
LEMMA LineStep == Inv /\ LineInv /\ [Next]_vars => LineInv'
    <1> SUFFICES ASSUME Inv, LineInv, [Next]_vars
                 PROVE  LineInv'
        OBVIOUS
    <1>1. ASSUME NEW e \in Eths, Unplug(e) \/ Lose(e) \/ HandlerStart(e)
          PROVE  LineInv'
          BY <1>1, LineShorter, LineStart
    <1>2. ASSUME NEW d \in Devs, NEW f \in world.traffic, Transmit(d, f)
          PROVE  LineInv'
          BY <1>2, LineTransmit
    <1>3. CASE HandlerDeliver
          BY <1>3, LineDeliver
    <1>4. CASE \/ \E d \in Devs : Newlink(d) \/ Up(d) \/ Down(d) \/ Dellink(d)
               \/ Unload
               \/ \E d \in Devs : \E val \in world.settings[d] : StoreCheck(d, val)
               \/ \E s \in storing : StoreWrite(s)
               \/ HandlerWalk \/ HandlerDrop \/ UNCHANGED vars
          BY <1>4, LineQuiet
    <1>5. QED
          BY <1>1, <1>2, <1>3, <1>4 DEF Next

\* Nothing is under way in the beginning.
LEMMA LineInit == Init => LineInv
    BY DEF Init, LineInv, Attached, Line, OneWire, WireInOrder, Handling, Idle

---------------------------------------------------------------------------
(* What arrives, as a sequence *)

\* Of any numbers one is the least.
LEMMA LeastNat ==
    ASSUME NEW T \in SUBSET Nat, T # {}
    PROVE  \E x \in T : \A y \in T : x <= y
    <1> DEFINE R == OpToRel(<, Nat)
    <1>1. IsWellFoundedOn(R, Nat)
          BY NatLessThanWellFounded
    <1>2. \A x, y \in Nat : x < y => <<x, y>> \in R
          BY DEF OpToRel
    <1> HIDE DEF R
    <1>3. PICK x \in T : \A y \in T : <<y, x>> \notin R
          BY <1>1, WFMin
    <1>4. ASSUME NEW y \in T
          PROVE  x <= y
      <2>1. x \in Nat /\ y \in Nat
            OBVIOUS
      <2>2. ~(y < x)
            BY <1>2, <1>3, <2>1
      <2>3. QED
            BY <2>1, <2>2
    <1>5. QED
          BY <1>4

\* A set that has 0 and with a number below n the next has all up to n.
LEMMA CountUp ==
    ASSUME NEW n \in Nat, NEW T, 0 \in T, \A k \in 0 .. n - 1 : k \in T => k + 1 \in T
    PROVE  \A k \in 0 .. n : k \in T
    <1> DEFINE U == {k \in 0 .. n : k \notin T}
    <1>1. SUFFICES ASSUME U # {}
                   PROVE  FALSE
          OBVIOUS
    <1>2. U \in SUBSET Nat
          OBVIOUS
    <1>3. PICK k \in U : \A j \in U : k <= j
          BY <1>1, <1>2, LeastNat
    <1>4. k \in 0 .. n /\ k \notin T /\ k # 0
          OBVIOUS
    <1>5. k - 1 \in 0 .. n - 1 /\ k - 1 \notin U
          BY <1>3, <1>4
    <1>6. k - 1 \in T
          BY <1>5
    <1>7. QED
          BY <1>4, <1>5, <1>6

\* r is a frame from Ecu1 that came to Ecu2.
Arrives(r) == r.dev = Ecu2 /\ r.from = Ecu1

\* What Arrivals has of the first i frames, for each i up to k.
Upto(f, h, k) ==
    \A i \in 0 .. k :
        f[i] = IF i = 0 THEN << >>
               ELSE IF Arrives(h[i]) THEN Append(f[i - 1], h[i].no) ELSE f[i - 1]

\* The definition of the recursive function in Arrivals.
Loop(f, h) ==
    f = [i \in 0 .. Len(h) |->
            IF i = 0 THEN << >>
            ELSE IF h[i].dev = Ecu2 /\ h[i].from = Ecu1
                 THEN Append(f[i - 1], h[i].no)
                 ELSE f[i - 1]]

\* That function exists, and Arrivals is its last value.
LEMMA ArrivalsRun ==
    ASSUME NEW h, Len(h) \in Nat
    PROVE  \E f : Upto(f, h, Len(h)) /\ Arrivals(h) = f[Len(h)]
    <1> DEFINE n == Len(h)
               T == {k \in 0 .. n : \E f : Upto(f, h, k)}
    <1>1. 0 \in T
      <2>1. Upto([i \in 0 .. 0 |-> << >>], h, 0)
            BY DEF Upto
      <2>2. 0 \in 0 .. n
            OBVIOUS
      <2>3. QED
            BY <2>1, <2>2
    <1>2. ASSUME NEW k \in 0 .. n - 1, k \in T
          PROVE  k + 1 \in T
      <2>1. PICK f : Upto(f, h, k)
            BY <1>2
      <2> DEFINE g == [i \in 0 .. k + 1 |->
                          IF i <= k THEN f[i]
                          ELSE IF Arrives(h[i]) THEN Append(f[i - 1], h[i].no) ELSE f[i - 1]]
      <2>2. Upto(g, h, k + 1)
        <3> SUFFICES ASSUME NEW i \in 0 .. k + 1
                     PROVE  g[i] = IF i = 0 THEN << >>
                                   ELSE IF Arrives(h[i]) THEN Append(g[i - 1], h[i].no) ELSE g[i - 1]
            BY DEF Upto
        <3>1. CASE i = 0
              BY <2>1, <3>1 DEF Upto
        <3>2. CASE i # 0
          <4>1. i - 1 \in 0 .. k /\ g[i - 1] = f[i - 1]
                BY <3>2
          <4>2. CASE i <= k
                BY <2>1, <3>2, <4>1, <4>2 DEF Upto
          <4>3. CASE i = k + 1
                BY <3>2, <4>1, <4>3
          <4>4. QED
                BY <4>2, <4>3
        <3>3. QED
              BY <3>1, <3>2
      <2>3. k + 1 \in 0 .. n
            OBVIOUS
      <2> HIDE DEF g
      <2>4. QED
            BY <2>2, <2>3
    <1>3. n \in T
      <2> HIDE DEF T
      <2>1. n \in Nat /\ n \in 0 .. n
            OBVIOUS
      <2> HIDE DEF n
      <2>2. QED
            BY <1>1, <1>2, <2>1, CountUp
    <1>4. PICK f : Upto(f, h, n)
          BY <1>3
    <1> DEFINE g == [i \in 0 .. n |-> f[i]]
    <1>5. \A i \in 0 .. n : i # 0 => i - 1 \in 0 .. n
          OBVIOUS
    <1>6. Loop(g, h)
          BY <1>4, <1>5 DEF Upto, Arrives, Loop
    <1> HIDE DEF g
    <1>7. PICK c : Loop(c, h) /\ Arrivals(h) = c[n]
          BY <1>6 DEF Arrivals, Loop
    <1>8. Upto(c, h, n)
          BY <1>5, <1>7 DEF Upto, Arrives, Loop
    <1>9. QED
          BY <1>7, <1>8

\* One frame more is one number more if it arrives at Ecu2 from Ecu1.
LEMMA ArrivalsAppend ==
    ASSUME NEW S, NEW h \in Seq(S), NEW x \in S
    PROVE  Arrivals(Append(h, x)) =
              IF Arrives(x) THEN Append(Arrivals(h), x.no) ELSE Arrivals(h)
    <1> DEFINE n == Len(h)
               g == Append(h, x)
    <1>1. /\ n \in Nat /\ Len(g) = n + 1 /\ g[n + 1] = x
          /\ \A i \in 1 .. n : g[i] = h[i]
          BY AppendFacts
    <1> HIDE DEF n, g
    <1>2. PICK a : Upto(a, h, n) /\ Arrivals(h) = a[n]
          BY <1>1, ArrivalsRun DEF n
    <1>3. PICK b : Upto(b, g, n + 1) /\ Arrivals(g) = b[n + 1]
          BY <1>1, ArrivalsRun
    <1> DEFINE T == {k \in 0 .. n : b[k] = a[k]}
    <1>4. 0 \in T
          BY <1>1, <1>2, <1>3 DEF Upto
    <1>5. ASSUME NEW k \in 0 .. n - 1, k \in T
          PROVE  k + 1 \in T
      <2>1. k + 1 \in 0 .. n /\ k + 1 \in 0 .. n + 1 /\ k + 1 # 0 /\ (k + 1) - 1 = k
            BY <1>1
      <2>2. g[k + 1] = h[k + 1]
            BY <1>1, <2>1
      <2>3. b[k + 1] = a[k + 1]
            BY <1>2, <1>3, <1>5, <2>1, <2>2 DEF Upto
      <2>4. QED
            BY <2>1, <2>3
    <1>6. n \in T
      <2>1. n \in Nat /\ n \in 0 .. n
            BY <1>1
      <2> HIDE DEF T
      <2>2. QED
            BY <1>4, <1>5, <2>1, CountUp
    <1>7. n + 1 \in 0 .. n + 1 /\ n + 1 # 0 /\ (n + 1) - 1 = n
          BY <1>1
    <1>8. b[n + 1] = IF Arrives(g[n + 1]) THEN Append(b[n], g[n + 1].no) ELSE b[n]
          BY <1>3, <1>7 DEF Upto
    <1>9. QED
          BY <1>1, <1>2, <1>3, <1>6, <1>8 DEF g

\* Arrivals has only numbers of frames from Ecu1 in it.
LEMMA ArrivalsAre ==
    ASSUME NEW h \in Seq(Receipts)
    PROVE  /\ Arrivals(h) \in Seq(Nat)
           /\ \A i \in 1 .. Len(Arrivals(h)) :
                 \E j \in 1 .. Len(h) : Ours(h[j]) /\ Arrivals(h)[i] = h[j].no
    <1> DEFINE n == Len(h)
               Good(s) == /\ s \in Seq(Nat)
                          /\ \A i \in 1 .. Len(s) :
                                \E j \in 1 .. n : Ours(h[j]) /\ s[i] = h[j].no
    <1>1. n \in Nat
          OBVIOUS
    <1>2. PICK f : Upto(f, h, n) /\ Arrivals(h) = f[n]
          BY <1>1, ArrivalsRun
    <1> DEFINE T == {k \in 0 .. n : Good(f[k])}
    <1>3. 0 \in T
      <2>1. f[0] = << >> /\ 0 \in 0 .. n
            BY <1>1, <1>2 DEF Upto
      <2>2. << >> \in Seq(Nat) /\ 1 .. Len(<< >>) = {}
            OBVIOUS
      <2>3. QED
            BY <2>1, <2>2
    <1>4. ASSUME NEW k \in 0 .. n - 1, k \in T
          PROVE  k + 1 \in T
      <2>1. k + 1 \in 1 .. n /\ k + 1 \in 0 .. n /\ k + 1 # 0 /\ (k + 1) - 1 = k
            BY <1>1
      <2>2. f[k + 1] = IF Arrives(h[k + 1]) THEN Append(f[k], h[k + 1].no) ELSE f[k]
            BY <1>2, <2>1 DEF Upto
      <2>3. h[k + 1] \in Receipts
            BY <2>1
      <2>4. h[k + 1].no \in Nat
            BY <2>3 DEF Receipts
      <2>5. CASE ~Arrives(h[k + 1])
            BY <1>4, <2>1, <2>2, <2>5
      <2>6. CASE Arrives(h[k + 1])
        <3>1. PICK s : s = f[k]
              OBVIOUS
        <3>2. PICK t : t = Append(s, h[k + 1].no)
              OBVIOUS
        <3>3. Good(s)
              BY <1>4, <3>1
        <3>4. /\ t \in Seq(Nat) /\ Len(t) = Len(s) + 1 /\ t[Len(s) + 1] = h[k + 1].no
              /\ \A i \in 1 .. Len(s) : t[i] = s[i]
              BY <2>4, <3>2, <3>3, AppendFacts
        <3>5. Len(s) \in Nat
              BY <3>3
        <3>6. \A i \in 1 .. Len(t) : i \in 1 .. Len(s) \/ i = Len(s) + 1
              BY <3>4, <3>5
        <3>7. Ours(h[k + 1])
              BY <2>6 DEF Arrives, Ours
        <3>8. Good(t)
              BY <2>1, <3>3, <3>4, <3>6, <3>7
        <3> HIDE DEF Good
        <3>9. QED
              BY <2>1, <2>2, <2>6, <3>1, <3>2, <3>8
      <2>7. QED
            BY <2>5, <2>6
    <1>5. n \in T
      <2> HIDE DEF T, n
      <2>1. n \in 0 .. n
            BY <1>1
      <2>2. QED
            BY <1>1, <1>3, <1>4, <2>1, CountUp
    <1>6. QED
          BY <1>2, <1>5

---------------------------------------------------------------------------
(* The tunnel from Ecu1 to Ecu2 *)

taken == Cardinality(SentBy(Ecu1))
arrived == IF OnePort(Ecu1) THEN Arrivals(received) ELSE << >>

\* A frame that Ecu1 sends is one more offered.
LEMMA TunnelOffers ==
    ASSUME Inv, NEW d \in Devs, NEW f \in world.traffic, Transmit(d, f)
    PROVE  Tunnel!Next \/ UNCHANGED <<taken, arrived>>
    <1> DEFINE n == Cardinality(SentBy(d)) + 1
               s == [from |-> d, no |-> n, frame |-> f]
    <1>1. UNCHANGED <<world, received>> /\ sent' = Append(sent, s)
          BY DEF Transmit, module
    <1>2. Cardinality(SentBy(d)) \in Nat /\ Frames
          BY SentByFinite DEF Inv
    <1>3. s \in Sends /\ s.from = d
          BY <1>2 DEF Sends
    <1> HIDE DEF s
    <1>4. /\ Cardinality(By(sent', d)) = Cardinality(SentBy(d)) + 1
          /\ \A x : x # d => Cardinality(By(sent', x)) = Cardinality(SentBy(x))
          BY <1>1, <1>2, <1>3, SentAppend
    <1>5. taken' = Cardinality(By(sent', Ecu1))
          BY DEF taken, SentBy, By
    <1>6. arrived' = arrived
          BY <1>1 DEF arrived, OnePort
    <1>7. CASE d = Ecu1
      <2>1. taken' = taken + 1
            BY <1>4, <1>5, <1>7 DEF taken
      <2>2. QED
            BY <1>6, <2>1 DEF Tunnel!Next, Tunnel!Offer, taken, arrived
    <1>8. CASE d # Ecu1
      <2>1. taken' = taken
            BY <1>4, <1>5, <1>8 DEF taken
      <2>2. QED
            BY <1>6, <2>1
    <1>9. QED
          BY <1>7, <1>8

\* A frame that comes to Ecu2 is younger than those before it, and was sent.
LEMMA TunnelDelivers ==
    ASSUME Inv, LineInv, HandlerDeliver
    PROVE  Tunnel!Next \/ UNCHANGED <<taken, arrived>>
    <1> DEFINE x == [dev |-> walk.found, from |-> walk.pdu.from, no |-> walk.pdu.no,
                     frame |-> Decode(walk.pdu.frame)]
    <1>1. /\ UNCHANGED <<world, sent>> /\ walk.found # Null
          /\ received' = Append(received, x)
          BY DEF HandlerDeliver, module, config
    <1>2. walk.pos # Null /\ walk.found \in Devs /\ walk.pdu \in Pdus
      <2>1. walk.pos # Null
            BY <1>1 DEF Inv, Walking, Idle
      <2>2. QED
            BY <1>1, <2>1 DEF Inv, Walking, Walks
    <1>3. x \in Receipts /\ x.no = walk.pdu.no /\ x.from = walk.pdu.from
      <2>1. walk.pdu.from \in Devs /\ walk.pdu.no \in Nat /\ walk.pdu.frame \in Coded
            BY <1>2 DEF Pdus
      <2>2. Decode(walk.pdu.frame) \in world.traffic
            BY <2>1, CodecRoundTrip DEF Coded, Inv, Life
      <2>3. QED
            BY <1>2, <2>1, <2>2 DEF Receipts
    <1> HIDE DEF x
    <1>4. received \in Seq(Receipts)
          BY DEF Inv, Frames, Histories
    <1>5. Arrivals(received') = IF Arrives(x) THEN Append(Arrivals(received), x.no)
                                ELSE Arrivals(received)
          BY <1>1, <1>3, <1>4, ArrivalsAppend
    <1>6. taken' = taken /\ OnePort(Ecu1)' = OnePort(Ecu1)
          BY <1>1 DEF taken, SentBy, OnePort
    <1>7. arrived' = IF OnePort(Ecu1) THEN Arrivals(received') ELSE << >>
          BY <1>6 DEF arrived
    <1>8. CASE ~(OnePort(Ecu1) /\ Arrives(x))
          BY <1>5, <1>6, <1>7, <1>8 DEF arrived
    <1>9. CASE OnePort(Ecu1) /\ Arrives(x)
      <2>1. arrived = Arrivals(received) /\ arrived' = Append(arrived, x.no)
            BY <1>5, <1>7, <1>9 DEF arrived
      <2>2. Handling /\ x.no \in Nat
            BY <1>2, <1>3, <1>9 DEF Arrives, Handling, Ours, Pdus
      <2>3. x.no <= taken
            BY <1>2, <1>3, <1>9, GenuineNumber DEF Inv, Frames, Origin, Arrives, taken
      <2>4. taken \in Nat
            BY SentByFinite DEF Inv, taken
      <2>5. Tunnel!Newest \in Nat /\ Tunnel!Newest < x.no
        <3>1. arrived \in Seq(Nat)
              BY <1>4, <2>1, ArrivalsAre
        <3>2. CASE arrived = << >>
          <4>1. Tunnel!Newest = 0
                BY <3>2 DEF Tunnel!Newest, arrived
          <4>2. x.no # 0
            <5>1. Genuine(walk.pdu, Decode(walk.pdu.frame))
                  BY <1>2 DEF Inv, Frames, Origin
            <5>2. PICK i \in 1 .. Len(sent) : sent[i].no = x.no
                  BY <1>3, <5>1 DEF Genuine
            <5>3. sent[i] \in Sends
                  BY DEF Inv, Frames, Histories
            <5>4. QED
                  BY <5>2, <5>3 DEF Sends
          <4>3. QED
                BY <2>2, <4>1, <4>2
        <3>3. CASE arrived # << >>
          <4>1. Tunnel!Newest = arrived[Len(arrived)]
                BY <3>3 DEF Tunnel!Newest, arrived
          <4>2. Len(arrived) \in 1 .. Len(arrived)
                BY <3>1, <3>3
          <4>3. PICK j \in 1 .. Len(received) :
                   Ours(received[j]) /\ arrived[Len(arrived)] = received[j].no
                BY <1>4, <2>1, <4>2, ArrivalsAre
          <4>4. received[j].no < walk.pdu.no
                BY <1>9, <2>2, <4>3 DEF LineInv, Line
          <4>5. arrived[Len(arrived)] \in Nat
                BY <3>1, <4>2
          <4>6. QED
                BY <1>3, <4>1, <4>3, <4>4, <4>5
        <3>4. QED
              BY <3>2, <3>3
      <2>6. x.no \in Tunnel!Newest + 1 .. taken
            BY <2>2, <2>3, <2>4, <2>5
      <2>7. QED
            BY <1>6, <2>1, <2>6 DEF Tunnel!Next, Tunnel!Deliver, taken, arrived
    <1>10. QED
           BY <1>8, <1>9

\* The other steps neither send nor deliver.
LEMMA TunnelQuiet ==
    ASSUME UNCHANGED <<world, sent, received>>
    PROVE  UNCHANGED <<taken, arrived>>
    BY DEF taken, SentBy, arrived, OnePort

LEMMA TunnelStep ==
    ASSUME Inv, LineInv, [Next]_vars
    PROVE  Tunnel!Next \/ UNCHANGED <<taken, arrived>>
    <1>1. ASSUME NEW d \in Devs, NEW f \in world.traffic, Transmit(d, f)
          PROVE  Tunnel!Next \/ UNCHANGED <<taken, arrived>>
          BY <1>1, TunnelOffers
    <1>2. CASE HandlerDeliver
          BY <1>2, TunnelDelivers
    <1>3. CASE \/ \E d \in Devs : Newlink(d) \/ Up(d) \/ Down(d) \/ Dellink(d)
               \/ Unload
               \/ \E d \in Devs : \E val \in world.settings[d] : StoreCheck(d, val)
               \/ \E s \in storing : StoreWrite(s)
               \/ \E e \in Eths : Unplug(e) \/ Lose(e) \/ HandlerStart(e)
               \/ HandlerWalk \/ HandlerDrop \/ UNCHANGED vars
      <2>1. UNCHANGED <<world, sent, received>>
            BY <1>3 DEF Newlink, Up, Down, Dellink, Unload, acfcan_remove, StoreCheck, StoreWrite,
                        Unplug, Lose, HandlerStart, HandlerWalk, HandlerDrop, vars, module, traffic
      <2>2. QED
            BY <2>1, TunnelQuiet
    <1>4. QED
          BY <1>1, <1>2, <1>3 DEF Next

\* The kernel module implements the tunnel: while devices come and go, are stored
\* to, set up and down and frames are lost, what Ecu2 gets from Ecu1 is in the
\* order in which it was sent and none of it comes twice, for any number of devices
\* and cables, as long as Ecu1 is only ever given one Ethernet device.
THEOREM DeviceIsTunnel == Spec => ImplementsTunnel
    <1>1. Init => Tunnel!Init
      <2> SUFFICES ASSUME Init PROVE Tunnel!Init
          OBVIOUS
      <2>1. sent = << >> /\ received = << >>
            BY DEF Init
      <2>2. SentBy(Ecu1) = {}
            BY <2>1 DEF SentBy
      <2>3. taken = 0
            BY <2>2, FS_EmptySet DEF taken
      <2>4. arrived = << >>
        <3>1. << >> \in Seq(Receipts) /\ Len(<< >>) = 0
              OBVIOUS
        <3>2. PICK f : Upto(f, << >>, 0) /\ Arrivals(<< >>) = f[0]
              BY <3>1, ArrivalsRun
        <3>3. QED
              BY <2>1, <3>2 DEF arrived, Upto
      <2>5. QED
            BY <2>3, <2>4 DEF Tunnel!Init, taken, arrived
    <1>2. Inv /\ LineInv /\ [Next]_vars => (Inv /\ LineInv)'
          BY InvStep, LineStep
    <1>3. Inv /\ LineInv /\ [Next]_vars => [Tunnel!Next]_<<taken, arrived>>
          BY TunnelStep
    <1>4. Init => Inv /\ LineInv
          BY InvInit, LineInit
    <1>5. QED
          BY <1>1, <1>2, <1>3, <1>4, PTL DEF Spec, ImplementsTunnel, Tunnel!Spec, taken, arrived
=============================================================================
