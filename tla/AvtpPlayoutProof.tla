-------------------------- MODULE AvtpPlayoutProof --------------------------
(***************************************************************************)
(* Proofs about AvtpPlayout for every width of the time and of the         *)
(* sequence number, every listener, any number of PDUs and any faults.     *)
(*                                                                         *)
(* The inductive invariant adds to PlayoutInv what poll() has promised     *)
(* (Polled), what a PDU on its way says of the time it was made (Honest),  *)
(* the order of the stream through network, socket and queue (Lined), and  *)
(* which sequence numbers are still to come while none is missing (Chain). *)
(***************************************************************************)
EXTENDS AvtpPlayout, SequenceTheorems, TLAPS

PduSet == [kind : {"data", "foreign", "badFormat", "short"}, seq : 0 .. SeqWrap - 1,
           stamp : 0 .. Wrap - 1, due : Nat, id : Nat, born : Nat]

\* A PDU is not older than Latency; one of the talker carries the number and the
\* time it was sent with.
Honest(p) ==
    /\ p.kind \in {"data"} \cup app.strays
    /\ p.born <= now /\ now <= p.born + Latency
    /\ p.kind = "data" =>
          /\ p.id \in 1 .. sent /\ p.seq = (p.id - 1) % SeqWrap
          /\ p.due = p.born + MaxTransit /\ p.stamp = p.due % Wrap

Flight ==
    /\ net \in Seq(PduSet) /\ sock \in Seq(PduSet)
    /\ \A i \in 1 .. Len(net) : Honest(net[i])
    /\ \A i \in 1 .. Len(sock) : Honest(sock[i])
    /\ seqNum = sent % SeqWrap

\* What poll() reported is still so when it is served.
Polled ==
    /\ "socket" \in revents => sock # << >>
    /\ status = "run" /\ "timer" \in revents => Expired

\* Samples come from PDUs that were sent.
Taken ==
    \A i \in 1 .. Len(queue) : queue[i].id \in 1 .. sent /\ queue[i].due <= now + MaxTransit

\* y was sent after x.
Prec(x, y) == x.id < y.id /\ x.due <= y.due
Follows(x, y) == y.kind = "data" => Prec(x, y)
Lines(x, y) == x.kind = "data" => Follows(x, y)

\* The PDUs of s (and t behind it) are in order; x was sent before, or after, all
\* of s; the samples of q were sent before the PDUs of s.
InLine(s) == \A i, j \in 1 .. Len(s) : i < j => Lines(s[i], s[j])
Leads(x, s) == \A i \in 1 .. Len(s) : Lines(x, s[i])
Trails(s, x) == \A i \in 1 .. Len(s) : Lines(s[i], x)
Ahead(s, t) == \A i \in 1 .. Len(s) : Leads(s[i], t)
Sorted(q) == \A i, j \in 1 .. Len(q) : i < j => Prec(q[i], q[j])
Precedes(q, s) == \A i \in 1 .. Len(q), j \in 1 .. Len(s) : Follows(q[i], s[j])

\* As long as the network has kept the order, the stream is in it everywhere.
Lined ==
    "reorder" \notin happened =>
        /\ Sorted(queue) /\ Precedes(queue, sock) /\ Precedes(queue, net)
        /\ InLine(sock) /\ InLine(net) /\ Ahead(sock, net)

Quiet == happened \cap {"lose", "reorder"} = {} /\ "badFormat" \notin app.strays

InFlight(n) ==
    \/ \E i \in 1 .. Len(sock) : sock[i].kind = "data" /\ sock[i].id = n
    \/ \E i \in 1 .. Len(net) : net[i].kind = "data" /\ net[i].id = n

\* The listener has seen the first r PDUs, and all others are on their way.
Chain(r) ==
    /\ expected = r % SeqWrap
    /\ \A n \in Nat : n \in r + 1 .. sent <=> InFlight(n)

Numbered == Quiet => ~mismatch /\ \E r \in 0 .. sent : Chain(r)

\* TypeOK without the PDUs, which Flight has.
Base ==
    /\ app \in Apps
    /\ now \in Nat /\ seqNum \in 0 .. SeqWrap - 1 /\ expected \in 0 .. SeqWrap - 1
    /\ sent \in 0 .. MaxSent /\ strays \in 0 .. MaxStrays
    /\ revents \subseteq {"socket", "timer"}
    /\ status \in {"run", "exit", "abort", "stuck"}
    /\ queue \in Seq(Sample) /\ played \in Seq(Sample)
    /\ timer \in Nat \cup {Off} /\ happened \subseteq app.faults

Flag == mismatch \in BOOLEAN

\* TimeRecovered, by position.
Recovered ==
    /\ \A i \in 1 .. Len(queue) : queue[i].at = queue[i].due
    /\ \A i \in 1 .. Len(played) : played[i].at = played[i].due

Inv ==
    /\ Base /\ Flag /\ TimerServesHead /\ NeverAborts /\ Recovered
    /\ Flight /\ Polled /\ Taken /\ Lined /\ Numbered

---------------------------------------------------------------------------
(* Arithmetic *)

\* What is left over below the modulus is the remainder.
LEMMA ModUnique ==
    ASSUME NEW m \in Nat \ {0}, NEW q \in Int, NEW r \in 0 .. m - 1
    PROVE  (m * q + r) % m = r
    OBVIOUS

\* Counting on before or after the remainder is taken is the same.
LEMMA ModNext ==
    ASSUME NEW m \in Nat \ {0}, NEW x \in Nat
    PROVE  ((x % m) + 1) % m = (x + 1) % m
    <1> DEFINE r == x % m
               q == x \div m
    <1>1. x = m * q + r /\ r \in 0 .. m - 1 /\ q \in Int
          OBVIOUS
    <1> HIDE DEF r, q
    <1>2. CASE r + 1 < m
      <2>1. x + 1 = m * q + (r + 1) /\ r + 1 \in 0 .. m - 1
            BY <1>1, <1>2
      <2>2. (x + 1) % m = r + 1
            BY <1>1, <2>1, ModUnique
      <2>3. (r + 1) % m = r + 1
            BY <2>1
      <2>4. QED
            BY <2>2, <2>3 DEF r
    <1>3. CASE r + 1 = m
      <2>1. x + 1 = m * (q + 1) + 0 /\ q + 1 \in Int /\ 0 \in 0 .. m - 1
            BY <1>1, <1>3
      <2>2. (m * (q + 1) + 0) % m = 0
            BY <2>1, ModUnique
      <2>3. (r + 1) % m = 0
            BY <1>3
      <2>4. QED
            BY <2>1, <2>2, <2>3 DEF r
    <1>4. QED
          BY <1>1, <1>2, <1>3

\* The full time is rebuilt from its low part if it is not yet past and less than
\* one wrap away.
LEMMA PresentationTime ==
    ASSUME NEW clock \in Nat, NEW due \in Nat, clock <= due, due < clock + Wrap
    PROVE  get_presentation_time(due % Wrap, clock) = due
    <1> DEFINE a == clock \div Wrap
               b == due \div Wrap
               x == clock % Wrap
               y == due % Wrap
    <1>1. Wrap \in Nat /\ Wrap > 0
          BY PlayoutConstants
    <1>2. /\ clock = Wrap * a + x /\ x \in 0 .. Wrap - 1 /\ a \in Int
          /\ due = Wrap * b + y /\ y \in 0 .. Wrap - 1 /\ b \in Int
          BY <1>1
    <1>3. get_presentation_time(y, clock) =
             IF (clock - x) + y < clock THEN (clock - x) + y + Wrap ELSE (clock - x) + y
          BY DEF get_presentation_time
    <1> HIDE DEF a, b, x, y
    <1>4. Wrap * (b - a) = (due - clock) + (x - y)
          BY <1>1, <1>2
    <1>5. b - a \in {0, 1}
      <2>1. CASE b - a <= -1
        <3>1. Wrap * (b - a) <= -Wrap
              BY <1>1, <1>2, <2>1
        <3>2. QED
              BY <1>1, <1>2, <1>4, <3>1
      <2>2. CASE b - a >= 2
        <3>1. Wrap * (b - a) >= 2 * Wrap
              BY <1>1, <1>2, <2>2
        <3>2. QED
              BY <1>1, <1>2, <1>4, <3>1
      <2>3. QED
            BY <1>2, <2>1, <2>2
    <1>6. CASE b - a = 0
      <2>1. due - clock = y - x
            BY <1>1, <1>2, <1>4, <1>6
      <2>2. QED
            BY <1>1, <1>2, <1>3, <2>1 DEF y
    <1>7. CASE b - a = 1
      <2>1. due - clock = Wrap + (y - x)
            BY <1>1, <1>2, <1>4, <1>7
      <2>2. QED
            BY <1>1, <1>2, <1>3, <2>1 DEF y
    <1>8. QED
          BY <1>5, <1>6, <1>7

\* A time that lies MaxTransit after one of at most Latency ago is not past, and
\* its low part tells it.
LEMMA DueInTime ==
    ASSUME NEW clock \in Nat, NEW born \in Nat, born <= clock, clock <= born + Latency
    PROVE  /\ clock <= born + MaxTransit /\ born + MaxTransit <= clock + MaxTransit
           /\ born + MaxTransit < clock + Wrap
    <1>1. Latency \in Nat /\ MaxTransit \in Nat /\ Wrap \in Nat
          BY PlayoutConstants
    <1>2. Latency <= MaxTransit /\ MaxTransit < Wrap
          BY TransitAssumption
    <1>3. QED
          BY <1>1, <1>2

---------------------------------------------------------------------------
(* Sequences *)

\* What RemoveAt leaves: one element less, the others in their order.
LEMMA RemoveAtFacts ==
    ASSUME NEW S, NEW s \in Seq(S), NEW i \in 1 .. Len(s)
    PROVE  /\ RemoveAt(s, i) \in Seq(S)
           /\ Len(RemoveAt(s, i)) = Len(s) - 1
           /\ \A j \in 1 .. Len(s) - 1 : RemoveAt(s, i)[j] = s[IF j < i THEN j ELSE j + 1]
    <1> DEFINE a == SubSeq(s, 1, i - 1)
               b == SubSeq(s, i + 1, Len(s))
    <1>1. a \in Seq(S) /\ Len(a) = i - 1 /\ \A j \in 1 .. i - 1 : a[j] = s[j]
          OBVIOUS
    <1>2. b \in Seq(S) /\ Len(b) = Len(s) - i /\ \A j \in 1 .. Len(s) - i : b[j] = s[i + j]
          OBVIOUS
    <1>3. RemoveAt(s, i) = a \o b
          BY DEF RemoveAt
    <1> HIDE DEF a, b
    <1>4. a \o b \in Seq(S) /\ Len(a \o b) = Len(s) - 1
      <2>1. a \o b \in Seq(S) /\ Len(a \o b) = Len(a) + Len(b)
            BY <1>1, <1>2, ConcatProperties
      <2>2. i \in Int /\ Len(s) \in Int
            OBVIOUS
      <2>3. QED
            BY <1>1, <1>2, <2>1, <2>2
    <1>5. ASSUME NEW j \in 1 .. Len(s) - 1
          PROVE  (a \o b)[j] = s[IF j < i THEN j ELSE j + 1]
      <2>1. (a \o b)[j] = IF j <= Len(a) THEN a[j] ELSE b[j - Len(a)]
            BY <1>1, <1>2
      <2>2. CASE j < i
            BY <1>1, <2>1, <2>2
      <2>3. CASE j >= i
        <3>1. j - (i - 1) \in 1 .. Len(s) - i
              BY <2>3
        <3>2. b[j - (i - 1)] = s[i + (j - (i - 1))] /\ i + (j - (i - 1)) = j + 1
              BY <1>2, <3>1
        <3>3. QED
              BY <1>1, <2>1, <2>3, <3>2
      <2>4. j < i \/ j >= i
            OBVIOUS
      <2>5. QED
            BY <2>2, <2>3, <2>4
    <1>6. QED
          BY <1>3, <1>4, <1>5

\* Taking the head off a sequence moves the others down by one.
LEMMA TailFacts ==
    ASSUME NEW S, NEW s \in Seq(S), s # << >>
    PROVE  /\ Tail(s) \in Seq(S) /\ Len(Tail(s)) = Len(s) - 1 /\ Len(s) >= 1
           /\ Head(s) \in S /\ Head(s) = s[1]
           /\ \A j \in 1 .. Len(s) - 1 : Tail(s)[j] = s[j + 1]
    OBVIOUS

\* Appending adds one element at the end.
LEMMA AppendFacts ==
    ASSUME NEW S, NEW s \in Seq(S), NEW x \in S
    PROVE  /\ Append(s, x) \in Seq(S) /\ Len(Append(s, x)) = Len(s) + 1
           /\ Append(s, x)[Len(s) + 1] = x
           /\ \A j \in 1 .. Len(s) : Append(s, x)[j] = s[j]
    OBVIOUS

\* An element of an extended sequence is an old one or the new one.
LEMMA AppendElements ==
    ASSUME NEW S, NEW s \in Seq(S), NEW x \in S, NEW i \in 1 .. Len(Append(s, x))
    PROVE  \/ i \in 1 .. Len(s) /\ Append(s, x)[i] = s[i]
           \/ i = Len(s) + 1 /\ Append(s, x)[i] = x
    BY AppendFacts

\* Each element that RemoveAt leaves stood where it is, or one further.
LEMMA RemoveAtElements ==
    ASSUME NEW S, NEW s \in Seq(S), NEW n \in 1 .. Len(s), NEW i \in 1 .. Len(RemoveAt(s, n))
    PROVE  /\ (IF i < n THEN i ELSE i + 1) \in 1 .. Len(s)
           /\ RemoveAt(s, n)[i] = s[IF i < n THEN i ELSE i + 1]
    <1>1. Len(RemoveAt(s, n)) = Len(s) - 1 /\ Len(s) \in Nat
          BY RemoveAtFacts
    <1>2. i \in 1 .. Len(s) - 1
          BY <1>1
    <1>3. RemoveAt(s, n)[i] = s[IF i < n THEN i ELSE i + 1]
          BY <1>2, RemoveAtFacts
    <1>4. QED
          BY <1>1, <1>2, <1>3

\* The PDUs stay in order when one goes.
LEMMA LineRemove ==
    ASSUME NEW S, NEW s \in Seq(S), NEW n \in 1 .. Len(s)
    PROVE  /\ InLine(s) => InLine(RemoveAt(s, n))
           /\ \A x : Leads(x, s) => Leads(x, RemoveAt(s, n))
           /\ \A t : Ahead(t, s) => Ahead(t, RemoveAt(s, n))
           /\ \A q : Precedes(q, s) => Precedes(q, RemoveAt(s, n))
    <1> DEFINE r == RemoveAt(s, n)
               old(i) == IF i < n THEN i ELSE i + 1
    <1>1. \A i \in 1 .. Len(r) : old(i) \in 1 .. Len(s) /\ r[i] = s[old(i)]
          BY RemoveAtElements
    <1>2. \A i, j \in 1 .. Len(r) : i < j => old(i) < old(j)
          OBVIOUS
    <1> HIDE DEF r, old
    <1>3. InLine(s) => InLine(r)
          BY <1>1, <1>2 DEF InLine
    <1>4. \A x : Leads(x, s) => Leads(x, r)
          BY <1>1 DEF Leads
    <1>5. \A t : Ahead(t, s) => Ahead(t, r)
          BY <1>4 DEF Ahead
    <1>6. \A q : Precedes(q, s) => Precedes(q, r)
          BY <1>1 DEF Precedes
    <1>7. QED
          BY <1>3, <1>4, <1>5, <1>6 DEF r

\* The first PDU leads the others.
LEMMA LineFirst ==
    ASSUME NEW S, NEW s \in Seq(S), s # << >>, InLine(s)
    PROVE  Leads(s[1], RemoveAt(s, 1)) /\ Leads(s[1], Tail(s)) /\ InLine(Tail(s))
    <1>1. 1 \in 1 .. Len(s)
          BY TailFacts
    <1>2. \A i \in 1 .. Len(RemoveAt(s, 1)) :
             i + 1 \in 1 .. Len(s) /\ RemoveAt(s, 1)[i] = s[i + 1] /\ 1 < i + 1
          BY <1>1, RemoveAtElements
    <1>3. \A i \in 1 .. Len(Tail(s)) :
             i + 1 \in 1 .. Len(s) /\ Tail(s)[i] = s[i + 1] /\ 1 < i + 1
          BY TailFacts
    <1>4. Leads(s[1], RemoveAt(s, 1)) /\ Leads(s[1], Tail(s))
          BY <1>1, <1>2, <1>3 DEF InLine, Leads
    <1>5. \A i, j \in 1 .. Len(Tail(s)) : i < j => i + 1 < j + 1
          OBVIOUS
    <1>6. InLine(Tail(s))
          BY <1>3, <1>5 DEF InLine
    <1>7. QED
          BY <1>4, <1>6

\* The head of the socket goes.
LEMMA LineTail ==
    ASSUME NEW S, NEW s \in Seq(S), s # << >>
    PROVE  /\ \A t : Ahead(s, t) => Ahead(Tail(s), t) /\ Leads(s[1], t)
           /\ \A q : Precedes(q, s) => Precedes(q, Tail(s))
    <1>1. \A i \in 1 .. Len(Tail(s)) : i + 1 \in 1 .. Len(s) /\ Tail(s)[i] = s[i + 1]
          BY TailFacts
    <1>2. 1 \in 1 .. Len(s)
          BY TailFacts
    <1>3. QED
          BY <1>1, <1>2 DEF Ahead, Precedes

\* A PDU that was sent after the others may be appended.
LEMMA LineAppend ==
    ASSUME NEW S, NEW s \in Seq(S), NEW x \in S
    PROVE  /\ InLine(s) /\ Trails(s, x) => InLine(Append(s, x))
           /\ \A y : Leads(y, s) /\ Lines(y, x) => Leads(y, Append(s, x))
           /\ \A t : Ahead(t, s) /\ Trails(t, x) => Ahead(t, Append(s, x))
           /\ \A t : Ahead(s, t) /\ Leads(x, t) => Ahead(Append(s, x), t)
           /\ \A q : Precedes(q, s) /\ (\A i \in 1 .. Len(q) : Follows(q[i], x))
                        => Precedes(q, Append(s, x))
    <1> DEFINE r == Append(s, x)
    <1>1. /\ \A i \in 1 .. Len(r) : \/ i \in 1 .. Len(s) /\ r[i] = s[i]
                                    \/ i = Len(s) + 1 /\ r[i] = x
          /\ Len(s) \in Nat /\ Len(r) = Len(s) + 1
          BY AppendElements, AppendFacts
    <1> HIDE DEF r
    <1>2. InLine(s) /\ Trails(s, x) => InLine(r)
          BY <1>1 DEF InLine, Trails
    <1>3. \A y : Leads(y, s) /\ Lines(y, x) => Leads(y, r)
          BY <1>1 DEF Leads
    <1>4. \A t : Ahead(t, s) /\ Trails(t, x) => Ahead(t, r)
          BY <1>3 DEF Ahead, Trails
    <1>5. \A t : Ahead(s, t) /\ Leads(x, t) => Ahead(r, t)
          BY <1>1 DEF Ahead
    <1>6. \A q : Precedes(q, s) /\ (\A i \in 1 .. Len(q) : Follows(q[i], x)) => Precedes(q, r)
          BY <1>1 DEF Precedes
    <1>7. QED
          BY <1>2, <1>3, <1>4, <1>5, <1>6 DEF r

\* A sample may be appended to the queue that all others were sent before.
LEMMA QueueAppend ==
    ASSUME NEW S, NEW q \in Seq(S), NEW x \in S
    PROVE  /\ Sorted(q) /\ (\A i \in 1 .. Len(q) : Prec(q[i], x)) => Sorted(Append(q, x))
           /\ \A s : Precedes(q, s) /\ (\A j \in 1 .. Len(s) : Follows(x, s[j]))
                        => Precedes(Append(q, x), s)
    <1> DEFINE r == Append(q, x)
    <1>1. /\ \A i \in 1 .. Len(r) : \/ i \in 1 .. Len(q) /\ r[i] = q[i]
                                    \/ i = Len(q) + 1 /\ r[i] = x
          /\ Len(q) \in Nat /\ Len(r) = Len(q) + 1
          BY AppendElements, AppendFacts
    <1> HIDE DEF r
    <1>2. Sorted(q) /\ (\A i \in 1 .. Len(q) : Prec(q[i], x)) => Sorted(r)
          BY <1>1 DEF Sorted
    <1>3. \A s : Precedes(q, s) /\ (\A j \in 1 .. Len(s) : Follows(x, s[j])) => Precedes(r, s)
          BY <1>1 DEF Precedes
    <1>4. QED
          BY <1>2, <1>3 DEF r

\* The head of the queue goes.
LEMMA QueueTail ==
    ASSUME NEW S, NEW q \in Seq(S), q # << >>
    PROVE  /\ Sorted(q) => Sorted(Tail(q))
           /\ \A s : Precedes(q, s) => Precedes(Tail(q), s)
    <1>1. \A i \in 1 .. Len(Tail(q)) : i + 1 \in 1 .. Len(q) /\ Tail(q)[i] = q[i + 1]
          BY TailFacts
    <1>2. \A i, j \in 1 .. Len(Tail(q)) : i < j => i + 1 < j + 1
          OBVIOUS
    <1>3. QED
          BY <1>1, <1>2 DEF Sorted, Precedes

---------------------------------------------------------------------------
(* The invariant *)

\* The listener and the network start empty.
LEMMA InvInit == Init => Inv
    <1> SUFFICES ASSUME Init PROVE Inv
        OBVIOUS
    <1> USE DEF Init
    <1>1. Base
      <2>1. app \in Apps /\ now \in Nat
            BY PlayoutConstants
      <2>2. 0 \in 0 .. SeqWrap - 1 /\ 0 \in 0 .. MaxSent /\ 0 \in 0 .. MaxStrays
            BY PlayoutConstants
      <2>3. QED
            BY <2>1, <2>2 DEF Base
    <1>2. Flag
          BY DEF Flag
    <1>3. TimerServesHead /\ NeverAborts /\ Recovered /\ Polled /\ Taken
          BY DEF TimerServesHead, NeverAborts, Recovered, Polled, Taken
    <1>4. 0 % SeqWrap = 0
          BY PlayoutConstants
    <1>5. Flight
          BY <1>4 DEF Flight
    <1>6. Lined
          BY DEF Lined, Sorted, Precedes, InLine, Ahead
    <1>7. Numbered
      <2>1. Chain(0)
            BY <1>4 DEF Chain, InFlight
      <2>2. QED
            BY <2>1 DEF Numbered
    <1>8. QED
          BY <1>1, <1>2, <1>3, <1>5, <1>6, <1>7 DEF Inv

\* What the steps need of the types.
LEMMA Types ==
    ASSUME Inv
    PROVE  /\ now \in Nat /\ sent \in Nat /\ Latency \in Nat /\ MaxTransit \in Nat
           /\ Wrap \in Nat \ {0} /\ SeqWrap \in Nat \ {0} /\ Latency <= MaxTransit
           /\ net \in Seq(PduSet) /\ sock \in Seq(PduSet) /\ queue \in Seq(Sample)
           /\ \A i \in 1 .. Len(net) : net[i] \in PduSet
           /\ \A i \in 1 .. Len(sock) : sock[i] \in PduSet
           /\ \A i \in 1 .. Len(queue) : queue[i] \in Sample
           /\ app.faults \subseteq {"lose", "reorder", "schedule", "present", "rearm"}
           /\ app.strays \subseteq {"foreign", "badFormat", "short"}
    <1>1. net \in Seq(PduSet) /\ sock \in Seq(PduSet) /\ queue \in Seq(Sample)
          BY DEF Inv, Base, Flight
    <1>2. now \in Nat /\ sent \in Nat
          BY PlayoutConstants DEF Inv, Base
    <1>3. app.faults \subseteq {"lose", "reorder", "schedule", "present", "rearm"}
          /\ app.strays \subseteq {"foreign", "badFormat", "short"}
          BY PlayoutConstants DEF Inv, Base
    <1>4. QED
          BY <1>1, <1>2, <1>3, PlayoutConstants, TransitAssumption

\* The talker's PDU is the newest.
LEMMA InvTalkerSend ==
    ASSUME Inv, TalkerSend
    PROVE  Inv'
    <1> USE Types
    <1> DEFINE p == [kind |-> "data", seq |-> seqNum, stamp |-> calculate_avtp_time,
                     due |-> now + MaxTransit, id |-> sent + 1, born |-> now]
    <1>1. net' = Append(net, p)
          BY DEF TalkerSend
    <1> DEFINE same == UNCHANGED <<app, now, strays, sock, revents, status, queue, timer, expected,
                                   mismatch, played, happened>>
    <1>0. same /\ sent' = sent + 1 /\ sent < MaxSent /\ seqNum' = (seqNum + 1) % SeqWrap
          BY DEF TalkerSend, listener
    <1>2. /\ p.kind = "data" /\ p.id = sent + 1 /\ p.due = now + MaxTransit /\ p.born = now
          /\ p.seq = sent % SeqWrap /\ p.stamp = p.due % Wrap /\ p \in PduSet
      <2>1. (now + MaxTransit) % Wrap \in 0 .. Wrap - 1 /\ now + MaxTransit \in Nat
            OBVIOUS
      <2>2. QED
            BY <2>1 DEF calculate_avtp_time, Inv, Flight, PduSet, Base
    <1> HIDE DEF p
    <1>3. Base'
          BY <1>0, PlayoutConstants DEF Inv, Base
    <1>4. Flag' /\ TimerServesHead' /\ NeverAborts'
          BY <1>0 DEF Inv, Flag, TimerServesHead, NeverAborts
    <1>5. Recovered' /\ Polled'
          BY <1>0 DEF Inv, Recovered, Polled, Expired
    <1>6. Taken'
          BY <1>0 DEF Inv, Taken
    <1>7. Flight'
      <2>1. net' \in Seq(PduSet)
            BY <1>1, <1>2, AppendFacts
      <2>2. seqNum' = sent' % SeqWrap
            BY <1>0, ModNext DEF Inv, Flight
      <2>3. \A i \in 1 .. Len(sock) : Honest(sock[i])'
            BY <1>0 DEF Inv, Flight, Honest
      <2>4. ASSUME NEW i \in 1 .. Len(net')
            PROVE  Honest(net[i])'
        <3>1. CASE i \in 1 .. Len(net) /\ net'[i] = net[i]
              BY SMTT(30), <1>0, <3>1 DEF Inv, Flight, Honest
        <3>2. CASE net'[i] = p
          <4>1. p.id - 1 = sent /\ p.id \in 1 .. sent'
                BY SMTT(30), <1>0, <1>2
          <4>2. QED
                BY SMTT(30), <1>0, <1>2, <3>2, <4>1 DEF Honest
        <3>3. QED
              BY <1>1, <1>2, <3>1, <3>2, AppendElements
      <2>5. QED
            BY <1>0, <2>1, <2>2, <2>3, <2>4 DEF Flight, Inv
    <1>8. Trails(sock, p) /\ Trails(net, p)
      <2>1. ASSUME NEW x \in PduSet, Honest(x)
            PROVE  Lines(x, p)
        <3>1. x.id \in Nat /\ x.due \in Nat /\ x.born \in Nat
              BY <2>1 DEF PduSet
        <3>2. CASE x.kind = "data"
              BY SMTT(30), <1>2, <2>1, <3>1, <3>2 DEF Honest, Lines, Follows, Prec
        <3>3. CASE x.kind # "data"
              BY <3>3 DEF Lines
        <3>4. QED
              BY <3>2, <3>3
      <2>2. QED
            BY <2>1 DEF Inv, Flight, Trails
    <1>9. \A i \in 1 .. Len(queue) : Follows(queue[i], p)
      <2> SUFFICES ASSUME NEW i \in 1 .. Len(queue)
                   PROVE  Follows(queue[i], p)
          OBVIOUS
      <2>1. queue[i].id \in 1 .. sent /\ queue[i].due <= now + MaxTransit
            BY DEF Inv, Taken
      <2>2. QED
            BY <1>2, <2>1 DEF Follows, Prec
    <1>10. Lined'
          BY <1>0, <1>1, <1>2, <1>8, <1>9, LineAppend DEF Inv, Lined
    <1>11. Numbered'
      <2> SUFFICES ASSUME Quiet
                   PROVE  ~mismatch /\ \E r \in 0 .. sent' : Chain(r)'
          BY <1>0 DEF Numbered, Quiet
      <2>1. PICK r \in 0 .. sent : Chain(r)
            BY DEF Inv, Numbered
      <2>2. \A n \in Nat : InFlight(n)' <=> InFlight(n) \/ n = sent + 1
        <3>1. /\ Len(net') = Len(net) + 1 /\ Len(net) \in Nat /\ net'[Len(net) + 1] = p
              /\ \A j \in 1 .. Len(net) : net'[j] = net[j]
              BY <1>1, <1>2, AppendFacts
        <3>2. SUFFICES ASSUME NEW n \in Nat
                       PROVE  InFlight(n)' <=> InFlight(n) \/ n = sent + 1
              OBVIOUS
        <3>3. ASSUME InFlight(n)'
              PROVE  InFlight(n) \/ n = sent + 1
          <4>1. CASE \E k \in 1 .. Len(sock) : sock[k].kind = "data" /\ sock[k].id = n
                BY <4>1 DEF InFlight
          <4>2. ASSUME NEW k \in 1 .. Len(net'), net'[k].kind = "data", net'[k].id = n
                PROVE  InFlight(n) \/ n = sent + 1
            <5>1. k \in 1 .. Len(net) \/ k = Len(net) + 1
                  BY <3>1
            <5>2. QED
                  BY <1>2, <3>1, <4>2, <5>1 DEF InFlight
          <4>3. QED
                BY <1>0, <3>3, <4>1, <4>2 DEF InFlight
        <3>4. ASSUME InFlight(n) \/ n = sent + 1
              PROVE  InFlight(n)'
          <4>1. Len(net) + 1 \in 1 .. Len(net') /\ \A j \in 1 .. Len(net) : j \in 1 .. Len(net')
                BY <3>1
          <4>2. QED
                BY <1>0, <1>2, <3>1, <3>4, <4>1 DEF InFlight
        <3>5. QED
              BY <3>3, <3>4
      <2>3. Chain(r)'
        <3>1. expected' = r % SeqWrap
              BY <1>0, <2>1 DEF Chain
        <3>2. ASSUME NEW n \in Nat
              PROVE  n \in r + 1 .. sent' <=> InFlight(n)'
          <4>1. n \in r + 1 .. sent' <=> n \in r + 1 .. sent \/ n = sent + 1
                BY <1>0
          <4>2. QED
                BY <2>1, <2>2, <4>1 DEF Chain
        <3>3. QED
              BY <3>1, <3>2 DEF Chain
      <2>4. r \in 0 .. sent'
            BY <1>0
      <2>5. QED
            BY <2>3, <2>4 DEF Inv, Numbered
    <1>12. QED
           BY <1>3, <1>4, <1>5, <1>6, <1>7, <1>10, <1>11 DEF Inv

\* A PDU of someone else is in nobody's way.
LEMMA InvStraySend ==
    ASSUME Inv, NEW kind \in app.strays, NEW seq \in SeqsOf(kind), StraySend(kind, seq)
    PROVE  Inv'
    <1> USE DEF StraySend, listener
    <1> USE Types
    <1> DEFINE p == [kind |-> kind, seq |-> seq, stamp |-> 0, due |-> 0, id |-> 0, born |-> now]
    <1>1. net' = Append(net, p)
          OBVIOUS
    <1>2. p.kind = kind /\ kind # "data" /\ p.born = now /\ p \in PduSet
      <2>1. seq \in 0 .. SeqWrap - 1 /\ 0 \in 0 .. Wrap - 1
            BY DEF SeqsOf
      <2>2. QED
            BY <2>1 DEF PduSet
    <1> HIDE DEF p
    <1>3. Base'
          BY PlayoutConstants DEF Inv, Base
    <1>4. Flag' /\ TimerServesHead' /\ NeverAborts'
          BY DEF Inv, Flag, TimerServesHead, NeverAborts
    <1>5. Recovered' /\ Polled'
          BY DEF Inv, Recovered, Polled, Expired
    <1>6. Taken'
          BY DEF Inv, Taken
    <1>7. Flight'
      <2>1. net' \in Seq(PduSet)
            BY <1>1, <1>2, AppendFacts
      <2>2. \A i \in 1 .. Len(sock) : Honest(sock[i])'
            BY DEF Inv, Flight, Honest
      <2>3. ASSUME NEW i \in 1 .. Len(net')
            PROVE  Honest(net[i])'
        <3>1. CASE i \in 1 .. Len(net) /\ net'[i] = net[i]
              BY <3>1 DEF Inv, Flight, Honest
        <3>2. CASE net'[i] = p
              BY SMTT(30), <1>2, <3>2 DEF Honest
        <3>3. QED
              BY <1>1, <1>2, <3>1, <3>2, AppendElements
      <2>4. QED
            BY <2>1, <2>2, <2>3 DEF Flight, Inv
    <1>8. Trails(sock, p) /\ Trails(net, p) /\ \A i \in 1 .. Len(queue) : Follows(queue[i], p)
          BY <1>2 DEF Trails, Lines, Follows
    <1>9. Lined'
          BY <1>1, <1>2, <1>8, LineAppend DEF Inv, Lined
    <1>10. Numbered'
      <2>1. \A n \in Nat : InFlight(n)' <=> InFlight(n)
        <3>1. /\ Len(net') = Len(net) + 1 /\ Len(net) \in Nat /\ net'[Len(net) + 1] = p
              /\ \A j \in 1 .. Len(net) : net'[j] = net[j]
              BY <1>1, <1>2, AppendFacts
        <3>2. /\ Len(net) + 1 \in 1 .. Len(net')
              /\ \A j \in 1 .. Len(net') : j \in 1 .. Len(net) \/ j = Len(net) + 1
              /\ \A j \in 1 .. Len(net) : j \in 1 .. Len(net')
              BY <3>1
        <3>3. SUFFICES ASSUME NEW n \in Nat
                       PROVE  InFlight(n)' <=> InFlight(n)
              OBVIOUS
        <3>4. (\E i \in 1 .. Len(net') : net'[i].kind = "data" /\ net'[i].id = n)
                 <=> \E i \in 1 .. Len(net) : net[i].kind = "data" /\ net[i].id = n
              BY <1>2, <3>1, <3>2
        <3>5. QED
              BY <3>4 DEF InFlight
      <2>2. QED
            BY <2>1 DEF Inv, Numbered, Quiet, Chain
    <1>11. QED
           BY <1>3, <1>4, <1>5, <1>6, <1>7, <1>9, <1>10 DEF Inv

\* Where the network keeps the order the first PDU under way goes to the socket.
LEMMA InvDeliver ==
    ASSUME Inv, NEW n \in DOMAIN net, Deliver(n)
    PROVE  Inv'
    <1>1. /\ net \in Seq(PduSet) /\ sock \in Seq(PduSet) /\ n \in 1 .. Len(net)
          /\ net[n] \in PduSet /\ Len(net) \in Nat /\ Len(sock) \in Nat
          BY Types
    <1>2. /\ UNCHANGED <<app, now, seqNum, sent, strays, revents, status, queue, timer, expected,
                         mismatch, played>>
          /\ sock' = Append(sock, net[n]) /\ net' = RemoveAt(net, n)
          /\ happened \subseteq happened'
          /\ n > 1 => "reorder" \in app.faults /\ "reorder" \in happened'
          /\ happened' = IF n > 1 THEN happened \cup {"reorder"} ELSE happened
          BY DEF Deliver, talker, listener
    <1>3. Base'
          BY <1>2 DEF Inv, Base
    <1>4. Flag' /\ TimerServesHead' /\ NeverAborts'
          BY <1>2 DEF Inv, Flag, TimerServesHead, NeverAborts
    <1>5. Recovered' /\ Taken'
          BY <1>2 DEF Inv, Recovered, Taken
    <1>6. /\ sock' \in Seq(PduSet) /\ Len(sock') = Len(sock) + 1 /\ sock'[Len(sock) + 1] = net[n]
          /\ \A i \in 1 .. Len(sock) : sock'[i] = sock[i]
          BY <1>1, <1>2, AppendFacts
    <1>7. /\ net' \in Seq(PduSet) /\ Len(net') = Len(net) - 1
          /\ \A i \in 1 .. Len(net') :
                /\ (IF i < n THEN i ELSE i + 1) \in 1 .. Len(net)
                /\ net'[i] = net[IF i < n THEN i ELSE i + 1]
          BY <1>1, <1>2, RemoveAtFacts, RemoveAtElements
    <1>8. Polled'
          BY <1>1, <1>2, <1>6 DEF Inv, Polled, Expired
    <1>9. Flight'
      <2>1. \A x : Honest(x) => Honest(x)'
            BY <1>2 DEF Honest
      <2>2. ASSUME NEW i \in 1 .. Len(net')
            PROVE  Honest(net[i])'
            BY ZenonT(60), <1>2, <1>7 DEF Inv, Flight, Honest
      <2>3. ASSUME NEW i \in 1 .. Len(sock')
            PROVE  Honest(sock[i])'
        <3>1. i \in 1 .. Len(sock) \/ i = Len(sock) + 1
              BY <1>1, <1>6
        <3>2. QED
              BY <1>1, <1>2, <1>6, <3>1 DEF Inv, Flight, Honest
      <2>4. QED
            BY <1>2, <1>6, <1>7, <2>2, <2>3 DEF Inv, Flight
    <1>10. Lined'
      <2> SUFFICES ASSUME "reorder" \notin happened'
                   PROVE  /\ Sorted(queue) /\ Precedes(queue, sock') /\ Precedes(queue, net')
                          /\ InLine(sock') /\ InLine(net') /\ Ahead(sock', net')
          BY <1>2 DEF Lined
      <2>1. n = 1 /\ net # << >>
            BY <1>1, <1>2
      <2>2. /\ Sorted(queue) /\ Precedes(queue, sock) /\ Precedes(queue, net)
            /\ InLine(sock) /\ InLine(net) /\ Ahead(sock, net)
            BY <1>2 DEF Inv, Lined
      <2>3. Precedes(queue, net') /\ InLine(net') /\ Ahead(sock, net')
            BY <1>1, <1>2, <2>2, LineRemove
      <2>4. Leads(net[1], net')
            BY <1>1, <1>2, <2>1, <2>2, LineFirst
      <2>5. Trails(sock, net[1]) /\ \A i \in 1 .. Len(queue) : Follows(queue[i], net[1])
            BY <1>1, <2>1, <2>2 DEF Ahead, Leads, Trails, Precedes
      <2>6. QED
            BY <1>1, <1>2, <2>1, <2>2, <2>3, <2>4, <2>5, LineAppend
    <1>11. Numbered'
      <2> SUFFICES ASSUME Quiet'
                   PROVE  ~mismatch /\ \E r \in 0 .. sent : Chain(r)'
          BY <1>2 DEF Numbered
      <2>1. Quiet /\ n = 1
            BY <1>1, <1>2 DEF Quiet
      <2>2. PICK r \in 0 .. sent : Chain(r)
            BY <2>1 DEF Inv, Numbered
      <2>3. ASSUME NEW m \in Nat
            PROVE  InFlight(m)' <=> InFlight(m)
        <3>1. \A i \in 1 .. Len(net') : i + 1 \in 1 .. Len(net) /\ net'[i] = net[i + 1]
              BY <1>7, <2>1
        <3>2. \A i \in 1 .. Len(net) : i = 1 \/ i - 1 \in 1 .. Len(net')
              BY <1>1, <1>7
        <3>3. \A i \in 1 .. Len(net) : i # 1 => net[i] = net'[i - 1]
              BY <1>1, <3>1, <3>2
        <3>4. \A i \in 1 .. Len(sock') : i \in 1 .. Len(sock) \/ i = Len(sock) + 1
              BY <1>1, <1>6
        <3>5. Len(sock) + 1 \in 1 .. Len(sock') /\ \A i \in 1 .. Len(sock) : i \in 1 .. Len(sock')
              BY <1>1, <1>6
        <3>6. InFlight(m)' => InFlight(m)
              BY <1>1, <1>6, <2>1, <3>1, <3>4 DEF InFlight
        <3>7. InFlight(m) => InFlight(m)'
          <4>1. ASSUME NEW i \in 1 .. Len(sock), sock[i].kind = "data", sock[i].id = m
                PROVE  InFlight(m)'
                BY <1>6, <3>5, <4>1 DEF InFlight
          <4>2. ASSUME NEW i \in 1 .. Len(net), net[i].kind = "data", net[i].id = m
                PROVE  InFlight(m)'
                BY <1>6, <2>1, <3>2, <3>3, <3>5, <4>2 DEF InFlight
          <4>3. QED
                BY <4>1, <4>2 DEF InFlight
        <3>8. QED
              BY <3>6, <3>7
      <2>4. Chain(r)'
            BY <1>2, <2>2, <2>3 DEF Chain
      <2>5. QED
            BY <2>1, <2>4 DEF Inv, Numbered
    <1>12. QED
           BY <1>3, <1>4, <1>5, <1>8, <1>9, <1>10, <1>11 DEF Inv

\* What is left when a PDU is lost is in order.
LEMMA InvLose ==
    ASSUME Inv, NEW n \in DOMAIN net, Lose(n)
    PROVE  Inv'
    <1>1. net \in Seq(PduSet) /\ n \in 1 .. Len(net)
          BY Types
    <1>2. /\ UNCHANGED <<app, now, seqNum, sent, strays, sock, revents, status, queue, timer,
                         expected, mismatch, played>>
          /\ net' = RemoveAt(net, n) /\ "lose" \in app.faults
          /\ happened' = happened \cup {"lose"}
          BY DEF Lose, talker, listener
    <1>3. Base'
          BY <1>2 DEF Inv, Base
    <1>4. Flag' /\ TimerServesHead' /\ NeverAborts'
          BY <1>2 DEF Inv, Flag, TimerServesHead, NeverAborts
    <1>5. Recovered' /\ Taken' /\ Polled'
          BY <1>2 DEF Inv, Recovered, Taken, Polled, Expired
    <1>6. Flight'
      <2>1. /\ net' \in Seq(PduSet)
            /\ \A i \in 1 .. Len(net') :
                  /\ (IF i < n THEN i ELSE i + 1) \in 1 .. Len(net)
                  /\ net'[i] = net[IF i < n THEN i ELSE i + 1]
            BY <1>1, <1>2, RemoveAtFacts, RemoveAtElements
      <2>2. ASSUME NEW i \in 1 .. Len(net')
            PROVE  Honest(net[i])'
            BY <1>2, <2>1 DEF Inv, Flight, Honest
      <2>3. \A i \in 1 .. Len(sock) : Honest(sock[i])'
            BY <1>2 DEF Inv, Flight, Honest
      <2>4. QED
            BY <1>2, <2>1, <2>2, <2>3 DEF Inv, Flight
    <1>7. Lined'
          BY <1>1, <1>2, LineRemove DEF Inv, Lined
    <1>8. Numbered'
          BY <1>2 DEF Numbered, Quiet
    <1>9. QED
          BY <1>3, <1>4, <1>5, <1>6, <1>7, <1>8 DEF Inv

\* Time passes only as far as every PDU on its way allows.
LEMMA InvTick ==
    ASSUME Inv, Tick
    PROVE  Inv'
    <1>1. /\ UNCHANGED <<app, seqNum, sent, strays, net, sock, revents, status, queue, timer,
                         expected, mismatch, played, happened>>
          /\ now' = now + 1 /\ now \in Nat
          /\ \A x \in Range(net) \cup Range(sock) : now < x.born + Latency
          BY Types DEF Tick, talker, listener
    <1>2. Base'
          BY <1>1 DEF Inv, Base
    <1>3. Flag' /\ TimerServesHead' /\ NeverAborts'
          BY <1>1 DEF Inv, Flag, TimerServesHead, NeverAborts
    <1>4. Recovered' /\ Lined'
          BY <1>1 DEF Inv, Recovered, Lined
    <1>5. Polled'
          BY <1>1 DEF Inv, Polled, Expired, Base, Off
    <1>6. Taken'
      <2> SUFFICES ASSUME NEW i \in 1 .. Len(queue)
                   PROVE  queue[i].id \in 1 .. sent /\ queue[i].due <= now + 1 + MaxTransit
          BY <1>1 DEF Taken
      <2>1. queue[i].id \in 1 .. sent /\ queue[i].due <= now + MaxTransit
            BY DEF Inv, Taken
      <2>2. queue[i].due \in Nat /\ MaxTransit \in Nat
            BY Types DEF Sample
      <2>3. QED
            BY <1>1, <2>1, <2>2
    <1>7. Flight'
      <2>1. ASSUME NEW x \in PduSet, Honest(x), now < x.born + Latency
            PROVE  Honest(x)'
        <3>1. x.born \in Nat /\ Latency \in Nat
              BY Types DEF PduSet
        <3>2. x.born <= now + 1 /\ now + 1 <= x.born + Latency
              BY <1>1, <2>1, <3>1 DEF Honest
        <3>3. QED
              BY <1>1, <2>1, <3>2 DEF Honest
      <2>2. \A i \in 1 .. Len(net) : net[i] \in PduSet /\ net[i] \in Range(net)
            BY Types DEF Range
      <2>3. \A i \in 1 .. Len(sock) : sock[i] \in PduSet /\ sock[i] \in Range(sock)
            BY Types DEF Range
      <2>4. \A i \in 1 .. Len(net) : Honest(net[i])'
            BY <1>1, <2>1, <2>2 DEF Inv, Flight, Honest
      <2>5. \A i \in 1 .. Len(sock) : Honest(sock[i])'
            BY <1>1, <2>1, <2>3 DEF Inv, Flight, Honest
      <2>6. QED
            BY <1>1, <2>4, <2>5 DEF Inv, Flight
    <1>8. Numbered'
          BY <1>1 DEF Inv, Numbered, Quiet, Chain, InFlight
    <1>9. QED
          BY <1>2, <1>3, <1>4, <1>5, <1>6, <1>7, <1>8 DEF Inv

\* poll() reports what is so.
LEMMA InvPoll ==
    ASSUME Inv, Poll
    PROVE  Inv'
    <1>1. /\ UNCHANGED <<app, now, seqNum, sent, strays, net, sock, status, queue, timer,
                         expected, mismatch, played, happened>>
          /\ revents' = (IF sock # <<>> THEN {"socket"} ELSE {})
                           \cup (IF Expired THEN {"timer"} ELSE {})
          BY DEF Poll, talker, listener
    <1>2. Base' /\ Flag' /\ TimerServesHead' /\ NeverAborts'
          BY <1>1 DEF Inv, Base, Flag, TimerServesHead, NeverAborts
    <1>3. Recovered' /\ Lined' /\ Taken'
          BY <1>1 DEF Inv, Recovered, Lined, Taken
    <1>4. Polled'
          BY <1>1 DEF Polled, Expired
    <1>5. Flight' /\ Numbered'
          BY <1>1 DEF Inv, Flight, Honest, Numbered, Quiet, Chain, InFlight
    <1>6. QED
          BY <1>2, <1>3, <1>4, <1>5 DEF Inv

\* What new_packet does to the sequence number.
LEMMA NewPacketNumbers ==
    ASSUME Inv, "socket" \in revents, SequenceCheck(Head(sock)), sock' = Tail(sock),
           UNCHANGED <<app, sent, net>>, happened \subseteq happened'
    PROVE  Flag' /\ Numbered' /\ expected' \in 0 .. SeqWrap - 1
    <1> DEFINE p == Head(sock)
    <1>1. /\ sock \in Seq(PduSet) /\ sock # << >> /\ sent \in Nat /\ SeqWrap \in Nat \ {0}
          /\ net \in Seq(PduSet)
          BY Types DEF Inv, Polled
    <1>2. /\ p = sock[1] /\ p \in PduSet /\ Len(sock) \in Nat /\ 1 \in 1 .. Len(sock)
          /\ sock' \in Seq(PduSet) /\ Len(sock') = Len(sock) - 1
          /\ \A i \in 1 .. Len(sock') : sock'[i] = sock[i + 1] /\ i + 1 \in 1 .. Len(sock)
          /\ \A i \in 1 .. Len(sock) : i # 1 => i - 1 \in 1 .. Len(sock')
          BY <1>1, TailFacts
    <1>3. \A i \in 1 .. Len(sock) : i # 1 => sock'[i - 1] = sock[i]
          BY <1>1, <1>2
    <1>4. Honest(p) /\ p.seq \in Nat /\ p.id \in Nat
          BY <1>2 DEF Inv, Flight, PduSet
    <1> HIDE DEF p
    <1>5. /\ \/ p.kind \in {"data", "badFormat"} /\ mismatch' = (mismatch \/ p.seq # expected)
                /\ expected' = (p.seq + 1) % SeqWrap
             \/ p.kind \notin {"data", "badFormat"} /\ mismatch' = mismatch /\ expected' = expected
          BY DEF SequenceCheck, p
    <1>6. Flag'
          BY <1>5 DEF Inv, Flag
    <1>7. expected' \in 0 .. SeqWrap - 1
          BY SMTT(30), <1>1, <1>4, <1>5 DEF Inv, Base
    <1>8. Numbered'
      <2> SUFFICES ASSUME Quiet'
                   PROVE  ~mismatch' /\ \E r \in 0 .. sent : Chain(r)'
          BY DEF Numbered
      <2>1. Quiet /\ "reorder" \notin happened
            BY DEF Quiet
      <2>2. PICK r \in 0 .. sent : Chain(r)
            BY <2>1 DEF Inv, Numbered
      <2>3. ~mismatch
            BY <2>1 DEF Inv, Numbered
      <2>4. p.kind # "badFormat"
            BY <1>4, <2>1 DEF Honest, Quiet
      <2>5. CASE p.kind # "data"
        <3>1. mismatch' = mismatch /\ expected' = expected
              BY <1>5, <2>4, <2>5
        <3>2. ASSUME NEW m \in Nat
              PROVE  InFlight(m)' <=> InFlight(m)
              BY <1>2, <1>3, <2>5 DEF InFlight
        <3>3. Chain(r)'
              BY <2>2, <3>1, <3>2 DEF Chain
        <3>4. QED
              BY <2>3, <3>1, <3>3
      <2>6. CASE p.kind = "data"
        <3>1. p.id \in 1 .. sent /\ p.seq = (p.id - 1) % SeqWrap
              BY <1>4, <2>6 DEF Honest
        <3>2. Leads(p, sock') /\ Leads(p, net)
          <4>1. InLine(sock) /\ Ahead(sock, net)
                BY <2>1 DEF Inv, Lined
          <4>2. QED
                BY <1>1, <1>2, <4>1, LineFirst, LineTail
        <3>3. /\ \A i \in 1 .. Len(sock') : sock'[i].kind = "data" => p.id < sock'[i].id
              /\ \A i \in 1 .. Len(net) : net[i].kind = "data" => p.id < net[i].id
              BY <2>6, <3>2 DEF Leads, Lines, Follows, Prec
        <3>4. ASSUME NEW m \in Nat
              PROVE  InFlight(m)' <=> InFlight(m) /\ m # p.id
          <4>1. InFlight(m)' => InFlight(m)
                BY <1>2 DEF InFlight
          <4>2. InFlight(m)' => m # p.id
            <5>1. ASSUME NEW i \in 1 .. Len(sock'), sock'[i].kind = "data", sock'[i].id = m
                  PROVE  m # p.id
                  BY <1>4, <3>3, <5>1
            <5>2. ASSUME NEW i \in 1 .. Len(net), net[i].kind = "data", net[i].id = m
                  PROVE  m # p.id
                  BY <1>4, <3>3, <5>2
            <5>3. QED
                  BY <5>1, <5>2 DEF InFlight
          <4>3. InFlight(m) /\ m # p.id => InFlight(m)'
            <5>1. ASSUME NEW i \in 1 .. Len(sock), sock[i].kind = "data", sock[i].id = m, m # p.id
                  PROVE  InFlight(m)'
              <6>1. i # 1
                    BY <1>2, <5>1
              <6>2. i - 1 \in 1 .. Len(sock') /\ sock'[i - 1] = sock[i]
                    BY <1>2, <1>3, <6>1
              <6>3. QED
                    BY <5>1, <6>2 DEF InFlight
            <5>2. ASSUME NEW i \in 1 .. Len(net), net[i].kind = "data", net[i].id = m
                  PROVE  InFlight(m)'
                  BY <5>2 DEF InFlight
            <5>3. QED
                  BY <5>1, <5>2 DEF InFlight
          <4>4. QED
                BY <4>1, <4>2, <4>3
        <3>5. p.id = r + 1
          <4>1. InFlight(p.id)
                BY <1>2, <2>6 DEF InFlight
          <4>2. p.id \in r + 1 .. sent
                BY <1>4, <2>2, <4>1 DEF Chain
          <4>3. r + 1 \in Nat /\ r + 1 \in r + 1 .. sent
                BY <1>1, <4>2
          <4>4. InFlight(r + 1)
                BY <2>2, <4>3 DEF Chain
          <4>5. CASE r + 1 # p.id
            <5>1. InFlight(r + 1)'
                  BY <3>4, <4>3, <4>4, <4>5
            <5>2. p.id < r + 1
              <6>1. ASSUME NEW i \in 1 .. Len(sock'), sock'[i].kind = "data", sock'[i].id = r + 1
                    PROVE  p.id < r + 1
                    BY <3>3, <6>1
              <6>2. ASSUME NEW i \in 1 .. Len(net), net[i].kind = "data", net[i].id = r + 1
                    PROVE  p.id < r + 1
                    BY <3>3, <6>2
              <6>3. QED
                    BY <5>1, <6>1, <6>2 DEF InFlight
            <5>3. QED
                  BY <1>4, <4>2, <5>2
          <4>6. QED
                BY <4>5
        <3>6. p.seq = expected
          <4>1. p.id - 1 = r
                BY <3>5
          <4>2. QED
                BY <2>2, <3>1, <4>1 DEF Chain
        <3>7. ~mismatch'
              BY <1>5, <2>3, <2>6, <3>6
        <3>8. expected' = (r + 1) % SeqWrap
          <4>1. expected' = ((r % SeqWrap) + 1) % SeqWrap
                BY <1>5, <2>2, <2>6, <3>6 DEF Chain
          <4>2. r \in Nat
                BY <1>1
          <4>3. QED
                BY <1>1, <4>1, <4>2, ModNext
        <3>9. r + 1 \in 0 .. sent
              BY <3>1, <3>5
        <3>10. \A m \in Nat : m \in (r + 1) + 1 .. sent <=> InFlight(m)'
              BY <1>1, <2>2, <3>4, <3>5 DEF Chain
        <3>11. Chain(r + 1)'
              BY <3>8, <3>10 DEF Chain
        <3>12. QED
              BY <3>7, <3>9, <3>11
      <2>7. QED
            BY <2>5, <2>6
    <1>9. QED
          BY <1>6, <1>7, <1>8

\* A sample goes behind those that wait; its time is the one the talker meant.
LEMMA InvNewPacket ==
    ASSUME Inv, NewPacket
    PROVE  Inv'
    <1> DEFINE p == Head(sock)
               sample == [id |-> p.id, due |-> p.due, at |-> get_presentation_time(p.stamp, now)]
    <1>1. /\ sock \in Seq(PduSet) /\ sock # << >> /\ net \in Seq(PduSet) /\ queue \in Seq(Sample)
          /\ Len(queue) \in Nat /\ now \in Nat /\ MaxTransit \in Nat /\ sent \in Nat
          BY Types DEF Inv, Polled, NewPacket
    <1>2. /\ p = sock[1] /\ p \in PduSet /\ 1 \in 1 .. Len(sock)
          /\ Tail(sock) \in Seq(PduSet) /\ Len(Tail(sock)) = Len(sock) - 1
          /\ \A i \in 1 .. Len(Tail(sock)) : Tail(sock)[i] = sock[i + 1] /\ i + 1 \in 1 .. Len(sock)
          BY <1>1, TailFacts
    <1>3. /\ UNCHANGED <<app, now, seqNum, sent, strays, net, played>>
          /\ status = "run" /\ "socket" \in revents /\ revents' = revents \ {"socket"}
          /\ sock' = Tail(sock) /\ SequenceCheck(p)
          BY DEF NewPacket, talker
    <1>4. \/ p.kind = "data" /\ schedule(sample) /\ UNCHANGED <<status, happened>>
          \/ /\ "schedule" \in app.faults /\ status' = "exit"
             /\ happened' = happened \cup {"schedule"} /\ UNCHANGED <<queue, timer>>
          \/ status' = "exit" /\ UNCHANGED <<queue, timer, happened>>
          \/ UNCHANGED <<status, queue, timer, happened>>
          BY DEF NewPacket
    <1>5. /\ happened \subseteq happened' /\ happened' \subseteq app.faults
          /\ "reorder" \in happened' <=> "reorder" \in happened
          /\ status' \in {"run", "exit"}
          BY <1>3, <1>4 DEF Inv, Base
    <1>6. Flag' /\ Numbered' /\ expected' \in 0 .. SeqWrap - 1
          BY <1>3, <1>5, NewPacketNumbers
    <1>7. Flight'
      <2>1. ASSUME NEW i \in 1 .. Len(sock')
            PROVE  Honest(sock[i])'
            BY <1>2, <1>3 DEF Inv, Flight, Honest
      <2>2. \A i \in 1 .. Len(net) : Honest(net[i])'
            BY <1>3 DEF Inv, Flight, Honest
      <2>3. QED
            BY <1>1, <1>2, <1>3, <2>1, <2>2 DEF Inv, Flight
    <1>8. p.kind = "data" => /\ sample \in Sample /\ sample.at = sample.due /\ sample.id = p.id
                             /\ sample.due = p.due /\ sample.id \in 1 .. sent
                             /\ sample.due <= now + MaxTransit
      <2> SUFFICES ASSUME p.kind = "data"
                   PROVE  /\ sample \in Sample /\ sample.at = sample.due /\ sample.id = p.id
                          /\ sample.due = p.due /\ sample.id \in 1 .. sent
                          /\ sample.due <= now + MaxTransit
          OBVIOUS
      <2>1. /\ p.born <= now /\ now <= p.born + Latency /\ p.id \in 1 .. sent
            /\ p.due = p.born + MaxTransit /\ p.stamp = p.due % Wrap
            BY <1>2 DEF Inv, Flight, Honest
      <2>2. p.born \in Nat /\ p.due \in Nat /\ p.id \in Nat
            BY <1>2 DEF PduSet
      <2>3. now <= p.due /\ p.due < now + Wrap /\ p.due <= now + MaxTransit
            BY <1>1, <2>1, <2>2, DueInTime
      <2>4. get_presentation_time(p.stamp, now) = p.due
            BY <1>1, <2>1, <2>2, <2>3, PresentationTime
      <2>5. QED
            BY <2>1, <2>2, <2>3, <2>4 DEF Sample
    <1> HIDE DEF sample, p
    <1>9. \/ /\ p.kind = "data" /\ sample \in Sample /\ queue' = Append(queue, sample)
             /\ timer' = (IF queue = <<>> THEN sample.at ELSE timer) /\ status' = "run"
          \/ queue' = queue /\ timer' = timer
          BY <1>3, <1>4, <1>8 DEF schedule
    <1>10. queue' \in Seq(Sample) /\ timer' \in Nat \cup {Off}
      <2>1. CASE queue' = queue /\ timer' = timer
            BY <2>1 DEF Inv, Base
      <2>2. CASE sample \in Sample /\ queue' = Append(queue, sample)
                   /\ timer' = (IF queue = <<>> THEN sample.at ELSE timer)
        <3>1. sample.at \in Nat
              BY <2>2 DEF Sample
        <3>2. QED
              BY <1>1, <2>2, <3>1, AppendProperties DEF Inv, Base
      <2>3. QED
            BY <1>9, <2>1, <2>2
    <1>11. Base'
           BY <1>3, <1>5, <1>6, <1>10 DEF Inv, Base
    <1>12. NeverAborts'
           BY <1>5 DEF NeverAborts
    <1>13. TimerServesHead'
      <2>1. CASE queue' = queue /\ timer' = timer
            BY <1>3, <2>1 DEF Inv, TimerServesHead
      <2>2. CASE sample \in Sample /\ queue' = Append(queue, sample)
                   /\ timer' = (IF queue = <<>> THEN sample.at ELSE timer)
        <3>1. CASE queue = << >>
          <4>1. queue' # << >> /\ Head(queue') = sample
                BY <2>2, <3>1
          <4>2. QED
                BY <2>2, <3>1, <4>1 DEF TimerServesHead
        <3>2. CASE queue # << >>
          <4>1. queue' # << >> /\ Head(queue') = Head(queue)
                BY <1>1, <2>2, <3>2
          <4>2. timer = Head(queue).at
                BY <1>3, <3>2 DEF Inv, TimerServesHead
          <4>3. QED
                BY <2>2, <3>2, <4>1, <4>2 DEF TimerServesHead
        <3>3. QED
              BY <3>1, <3>2
      <2>3. QED
            BY <1>9, <2>1, <2>2
    <1>14. Polled'
      <2>1. ASSUME "timer" \in revents'
            PROVE  Expired'
        <3>1. Expired
              BY <1>3, <2>1 DEF Inv, Polled
        <3>2. queue # << >>
              BY <1>3, <3>1 DEF Inv, TimerServesHead, Expired
        <3>3. timer' = timer
              BY <1>9, <3>2
        <3>4. QED
              BY <1>3, <3>1, <3>3 DEF Expired
      <2>2. QED
            BY <1>3, <2>1 DEF Polled
    <1>15. \A i \in 1 .. Len(queue') :
              \/ i \in 1 .. Len(queue) /\ queue'[i] = queue[i]
              \/ p.kind = "data" /\ queue'[i] = sample
           BY <1>1, <1>9, AppendElements
    <1>16. Taken'
           BY <1>3, <1>8, <1>15 DEF Inv, Taken
    <1>17. Recovered'
           BY <1>3, <1>8, <1>15 DEF Inv, Recovered
    <1>18. Lined'
      <2> SUFFICES ASSUME "reorder" \notin happened
                   PROVE  /\ Sorted(queue') /\ Precedes(queue', sock') /\ Precedes(queue', net)
                          /\ InLine(sock') /\ InLine(net) /\ Ahead(sock', net)
          BY <1>3, <1>5 DEF Lined
      <2>1. /\ Sorted(queue) /\ Precedes(queue, sock) /\ Precedes(queue, net)
            /\ InLine(sock) /\ InLine(net) /\ Ahead(sock, net)
            BY DEF Inv, Lined
      <2>2. /\ Precedes(queue, sock') /\ InLine(sock') /\ Ahead(sock', net)
            /\ Leads(p, sock') /\ Leads(p, net)
            BY <1>1, <1>2, <1>3, <2>1, LineFirst, LineTail
      <2>3. CASE queue' = queue
            BY <2>1, <2>2, <2>3
      <2>4. CASE p.kind = "data" /\ sample \in Sample /\ queue' = Append(queue, sample)
        <3>1. \A i \in 1 .. Len(queue) : Prec(queue[i], sample)
              BY <1>2, <1>8, <2>1, <2>4 DEF Precedes, Follows, Prec
        <3>2. /\ \A j \in 1 .. Len(sock') : Follows(sample, sock'[j])
              /\ \A j \in 1 .. Len(net) : Follows(sample, net[j])
              BY <1>8, <2>2, <2>4 DEF Leads, Lines, Follows, Prec
        <3>3. QED
              BY <1>1, <2>1, <2>2, <2>4, <3>1, <3>2, QueueAppend
      <2>5. QED
            BY <1>9, <2>3, <2>4
    <1>19. QED
           BY <1>6, <1>7, <1>11, <1>12, <1>13, <1>14, <1>16, <1>17, <1>18 DEF Inv

\* timeout() finds the timer expired and a sample at the head of the queue, and
\* leaves the timer armed for the next one unless it ends the program.
LEMMA InvTimeout ==
    ASSUME Inv, Timeout
    PROVE  Inv'
    <1>1. /\ UNCHANGED <<app, now, seqNum, sent, strays, net, sock, expected, mismatch>>
          /\ status = "run" /\ "timer" \in revents /\ revents' = {}
          BY DEF Timeout, talker
    <1>2. Expired /\ queue # << >>
      <2>1. Expired
            BY <1>1 DEF Inv, Polled
      <2>2. QED
            BY <1>1, <2>1 DEF Inv, TimerServesHead, Expired
    <1>3. NextHead \/ ( /\ "present" \in app.faults /\ status' = "exit" /\ timer' = Off
                       /\ happened' = happened \cup {"present"} /\ UNCHANGED <<queue, played>> )
          BY <1>2 DEF Timeout
    <1>4. /\ queue \in Seq(Sample) /\ played \in Seq(Sample) /\ timer \in Nat \cup {Off}
          /\ happened \subseteq app.faults
          BY DEF Inv, Base
    <1>5. /\ Tail(queue) \in Seq(Sample) /\ Len(Tail(queue)) = Len(queue) - 1 /\ Len(queue) >= 1
          /\ Head(queue) \in Sample /\ Head(queue) = queue[1] /\ 1 \in 1 .. Len(queue)
          /\ \A j \in 1 .. Len(Tail(queue)) : Tail(queue)[j] = queue[j + 1] /\ j + 1 \in 1 .. Len(queue)
          BY <1>2, <1>4, TailFacts
    <1>6. Tail(queue) # << >> => Head(Tail(queue)).at \in Nat
      <2>1. Tail(queue) # << >> => Head(Tail(queue)) \in Sample
            BY <1>5, TailFacts
      <2>2. QED
            BY <2>1 DEF Sample
    <1>7. \/ queue' = Tail(queue) /\ played' = Append(played, Head(queue))
          \/ queue' = queue /\ played' = played
          BY <1>3 DEF NextHead
    <1>8. /\ happened' \subseteq app.faults /\ happened \subseteq happened'
          /\ "reorder" \in happened' <=> "reorder" \in happened
          BY <1>3, <1>4 DEF NextHead
    <1>9. /\ status' \in {"run", "exit"} /\ timer' \in Nat \cup {Off}
          /\ status' = "run" => /\ queue' = Tail(queue)
                               /\ timer' = IF queue' = << >> THEN Off ELSE Head(queue').at
          BY <1>1, <1>3, <1>6 DEF NextHead
    <1>10. queue' \in Seq(Sample) /\ played' \in Seq(Sample)
      <2>1. Append(played, Head(queue)) \in Seq(Sample)
            BY <1>4, <1>5, AppendProperties
      <2>2. QED
            BY <1>4, <1>5, <1>7, <2>1
    <1>11. Base'
           BY <1>1, <1>8, <1>9, <1>10 DEF Inv, Base
    <1>12. Flag' /\ Polled'
           BY <1>1 DEF Inv, Flag, Polled
    <1>13. TimerServesHead' /\ NeverAborts'
           BY <1>9 DEF TimerServesHead, NeverAborts
    <1>14. Recovered'
      <2>1. \A i \in 1 .. Len(queue') : queue'[i].at = queue'[i].due
            BY <1>5, <1>7 DEF Inv, Recovered
      <2>2. ASSUME NEW i \in 1 .. Len(played')
            PROVE  played'[i].at = played'[i].due
        <3>1. CASE played' = played
              BY <3>1 DEF Inv, Recovered
        <3>2. CASE played' = Append(played, Head(queue))
          <4>1. \/ i \in 1 .. Len(played) /\ played'[i] = played[i]
                \/ played'[i] = queue[1]
                BY <1>4, <1>5, <3>2, AppendElements
          <4>2. QED
                BY <1>5, <4>1 DEF Inv, Recovered
        <3>3. QED
              BY <1>7, <3>1, <3>2
      <2>3. QED
            BY <2>1, <2>2 DEF Recovered
    <1>15. Taken'
           BY <1>1, <1>5, <1>7 DEF Inv, Taken
    <1>16. Flight'
           BY <1>1 DEF Inv, Flight, Honest
    <1>17. Lined'
      <2> SUFFICES ASSUME "reorder" \notin happened
                   PROVE  /\ Sorted(queue') /\ Precedes(queue', sock) /\ Precedes(queue', net)
                          /\ InLine(sock) /\ InLine(net) /\ Ahead(sock, net)
          BY <1>1, <1>8 DEF Lined
      <2>1. /\ Sorted(queue) /\ Precedes(queue, sock) /\ Precedes(queue, net)
            /\ InLine(sock) /\ InLine(net) /\ Ahead(sock, net)
            BY DEF Inv, Lined
      <2>2. QED
            BY <1>2, <1>4, <1>7, <2>1, QueueTail
    <1>18. Numbered'
      <2>1. Quiet' => Quiet
            BY <1>1, <1>8 DEF Quiet
      <2>2. \A r : Chain(r) => Chain(r)'
            BY <1>1 DEF Chain, InFlight
      <2>3. QED
            BY <1>1, <2>1, <2>2 DEF Inv, Numbered
    <1>19. QED
           BY <1>11, <1>12, <1>13, <1>14, <1>15, <1>16, <1>17, <1>18 DEF Inv

\* Every step keeps the invariant.
LEMMA InvStep == Inv /\ [Next]_vars => Inv'
    <1> SUFFICES ASSUME Inv, [Next]_vars
                 PROVE  Inv'
        OBVIOUS
    <1>1. CASE TalkerSend
          BY <1>1, InvTalkerSend
    <1>2. ASSUME NEW kind \in app.strays, NEW seq \in SeqsOf(kind), StraySend(kind, seq)
          PROVE  Inv'
          BY <1>2, InvStraySend
    <1>3. ASSUME NEW i \in DOMAIN net, Deliver(i) \/ Lose(i)
          PROVE  Inv'
          BY <1>3, InvDeliver, InvLose
    <1>4. CASE Tick
          BY <1>4, InvTick
    <1>5. CASE Poll
          BY <1>5, InvPoll
    <1>6. CASE NewPacket
          BY <1>6, InvNewPacket
    <1>7. CASE Timeout
          BY <1>7, InvTimeout
    <1>8. CASE UNCHANGED vars
      <2>1. UNCHANGED <<app, now, seqNum, sent, strays, net, sock, revents, status, queue, timer,
                        expected, mismatch, played, happened>>
            BY <1>8 DEF vars, talker, listener
      <2>2. Base' /\ Flag' /\ TimerServesHead' /\ NeverAborts' /\ Recovered'
            BY <2>1 DEF Inv, Base, Flag, TimerServesHead, NeverAborts, Recovered
      <2>3. Flight' /\ Polled' /\ Taken'
            BY <2>1 DEF Inv, Flight, Honest, Polled, Expired, Taken
      <2>4. Lined' /\ Numbered'
            BY <2>1 DEF Inv, Lined, Numbered, Quiet, Chain, InFlight
      <2>5. QED
            BY <2>2, <2>3, <2>4 DEF Inv
    <1>9. QED
          BY <1>1, <1>2, <1>3, <1>4, <1>5, <1>6, <1>7, <1>8 DEF Next

\* The inductive invariant holds in every state the two programs reach.
THEOREM PlayoutInvariance == Spec => []Inv
    <1>1. Init => Inv
          BY InvInit
    <1>2. Inv /\ [Next]_vars => Inv'
          BY InvStep
    <1>3. QED
          BY <1>1, <1>2, PTL DEF Spec

\* The listener's loop is safe for every width of the time and the number: the
\* timer serves the head of the queue, timeout() neither blocks nor fails its
\* assert after new_packet() ran on the same poll() result, the presentation
\* times are the talker's, and no mismatch is logged without a cause.
THEOREM PlayoutIsSafe == Spec => []PlayoutInv
    <1>1. ASSUME Inv
          PROVE  PlayoutInv
      <2>1. \A p \in Range(net) \cup Range(sock) : p \in PduSet /\ Honest(p)
        <3>1. /\ DOMAIN net = 1 .. Len(net) /\ DOMAIN sock = 1 .. Len(sock)
              /\ \A i \in 1 .. Len(net) : net[i] \in PduSet /\ Honest(net[i])
              /\ \A i \in 1 .. Len(sock) : sock[i] \in PduSet /\ Honest(sock[i])
              BY <1>1, Types DEF Inv, Flight
        <3>2. QED
              BY <3>1 DEF Range
      <2>2. \A p \in Range(net) \cup Range(sock) :
               /\ p.kind \in {"data"} \cup app.strays
               /\ p.seq \in 0 .. SeqWrap - 1 /\ p.stamp \in 0 .. Wrap - 1
            BY <2>1 DEF PduSet, Honest
      <2>3. TypeOK
        <3>1. Base /\ Flag
              BY <1>1 DEF Inv
        <3>2. QED
              BY <2>2, <3>1 DEF Base, Flag, TypeOK
      <2>4. TimeRecovered
        <3>1. queue \in Seq(Sample) /\ played \in Seq(Sample)
              BY <1>1 DEF Inv, Base
        <3>2. QED
              BY <1>1, <3>1 DEF Inv, Recovered, TimeRecovered, Range
      <2>5. SilentWithoutLoss
            BY <1>1 DEF Inv, Numbered, Quiet, SilentWithoutLoss
      <2>6. QED
            BY <1>1, <2>3, <2>4, <2>5 DEF Inv, PlayoutInv
    <1>2. QED
          BY <1>1, PlayoutInvariance, PTL

---------------------------------------------------------------------------
(* The refinement *)

\* The samples of an extended queue.
LEMMA RangeAppend ==
    ASSUME NEW S, NEW s \in Seq(S), NEW x \in S
    PROVE  Range(Append(s, x)) = Range(s) \cup {x}
    <1> DEFINE r == Append(s, x)
    <1>1. /\ r \in Seq(S) /\ Len(r) = Len(s) + 1 /\ r[Len(s) + 1] = x /\ Len(s) \in Nat
          /\ \A j \in 1 .. Len(s) : r[j] = s[j]
          BY AppendFacts
    <1> HIDE DEF r
    <1>2. DOMAIN r = 1 .. Len(s) + 1 /\ DOMAIN s = 1 .. Len(s)
          BY <1>1
    <1>3. ASSUME NEW y \in Range(r)
          PROVE  y \in Range(s) \cup {x}
      <2>1. PICK j \in 1 .. Len(s) + 1 : y = r[j]
            BY <1>2 DEF Range
      <2>2. j \in 1 .. Len(s) \/ j = Len(s) + 1
            BY <1>1
      <2>3. QED
            BY <1>1, <1>2, <2>1, <2>2 DEF Range
    <1>4. ASSUME NEW y \in Range(s) \cup {x}
          PROVE  y \in Range(r)
      <2>1. CASE y = x
        <3>1. Len(s) + 1 \in DOMAIN r
              BY <1>1, <1>2
        <3>2. QED
              BY <1>1, <2>1, <3>1 DEF Range
      <2>2. CASE y \in Range(s)
        <3>1. PICK j \in 1 .. Len(s) : y = s[j]
              BY <1>2, <2>2 DEF Range
        <3>2. j \in DOMAIN r /\ r[j] = y
              BY <1>1, <1>2, <3>1
        <3>3. QED
              BY <3>2 DEF Range
      <2>3. QED
            BY <2>1, <2>2
    <1>5. QED
          BY <1>3, <1>4 DEF r

\* Without its head a queue in order has all its other samples.
LEMMA RangeTail ==
    ASSUME NEW q \in Seq(Sample), q # << >>, Sorted(q)
    PROVE  Range(Tail(q)) = Range(q) \ {Head(q)}
    <1> DEFINE r == Tail(q)
               h == Head(q)
    <1>1. /\ r \in Seq(Sample) /\ Len(r) = Len(q) - 1 /\ Len(q) >= 1 /\ Len(q) \in Nat
          /\ h = q[1] /\ \A j \in 1 .. Len(q) - 1 : r[j] = q[j + 1]
          BY TailFacts
    <1> HIDE DEF r, h
    <1>2. DOMAIN r = 1 .. Len(q) - 1 /\ DOMAIN q = 1 .. Len(q)
          BY <1>1
    <1>3. \A j \in 1 .. Len(q) : j # 1 => q[j] # q[1]
      <2> SUFFICES ASSUME NEW j \in 1 .. Len(q), j # 1, q[j] = q[1]
                   PROVE  FALSE
          OBVIOUS
      <2>1. 1 \in 1 .. Len(q) /\ 1 < j
            BY <1>1
      <2>2. q[1].id < q[j].id
            BY <2>1 DEF Sorted, Prec
      <2>3. q[1] \in Sample
            BY <2>1
      <2>4. QED
            BY <2>2, <2>3 DEF Sample
    <1>4. ASSUME NEW y \in Range(r)
          PROVE  y \in Range(q) \ {h}
      <2>1. PICK j \in 1 .. Len(q) - 1 : y = r[j]
            BY <1>2 DEF Range
      <2>2. j + 1 \in 1 .. Len(q) /\ j + 1 # 1 /\ y = q[j + 1]
            BY <1>1, <2>1
      <2>3. QED
            BY <1>1, <1>2, <1>3, <2>2 DEF Range
    <1>5. ASSUME NEW y \in Range(q) \ {h}
          PROVE  y \in Range(r)
      <2>1. PICK j \in 1 .. Len(q) : y = q[j]
            BY <1>2 DEF Range
      <2>2. j # 1
            BY <1>1, <2>1
      <2>3. j - 1 \in 1 .. Len(q) - 1 /\ (j - 1) + 1 = j
            BY <1>1, <2>2
      <2>4. r[j - 1] = y
            BY <1>1, <2>1, <2>3
      <2>5. QED
            BY <1>2, <2>3, <2>4 DEF Range
    <1>6. QED
          BY <1>4, <1>5 DEF r, h

\* A step of the listener is a step of the timed playout, or leaves it alone.
LEMMA PlayoutStep ==
    Inv /\ [Next]_vars =>
        [Playout!Next]_<<now, IF Ordered THEN Range(queue) ELSE {}, IF Ordered THEN played ELSE <<>>>>
    <1> DEFINE pend == IF Ordered THEN Range(queue) ELSE {}
               seen == IF Ordered THEN played ELSE << >>
    <1> SUFFICES ASSUME Inv, [Next]_vars
                 PROVE  Playout!Next \/ UNCHANGED <<now, pend, seen>>
        OBVIOUS
    <1> USE DEF talker, listener
    <1>1. UNCHANGED app
          BY DEF Next, TalkerSend, StraySend, Deliver, Lose, Tick, Poll, NewPacket, Timeout, vars
    <1>2. CASE Tick
      <2>1. now' = now + 1 /\ UNCHANGED <<queue, played>>
            BY <1>2 DEF Tick
      <2>2. UNCHANGED <<pend, seen>>
            BY <1>1, <2>1 DEF Ordered
      <2>3. QED
            BY <2>1, <2>2 DEF Playout!Next, Playout!Tick
    <1>3. CASE UNCHANGED <<now, queue, played>>
          BY <1>1, <1>3 DEF Ordered
    <1>4. CASE ~Ordered /\ UNCHANGED now
          BY <1>1, <1>4 DEF Ordered
    <1>5. CASE NewPacket /\ Ordered
      <2>1. UNCHANGED <<now, played>> /\ "socket" \in revents
            BY <1>5 DEF NewPacket
      <2>2. PICK x : queue' = Append(queue, x) \/ queue' = queue
            BY <1>5 DEF NewPacket, schedule
      <2>3. CASE queue' = queue
            BY <1>3, <2>1, <2>3
      <2>4. CASE queue' = Append(queue, x)
        <3>1. queue \in Seq(Sample) /\ queue' \in Seq(Sample)
              BY <1>5, InvNewPacket DEF Inv, Base
        <3>2. queue \in Seq(Sample \cup {x})
              BY <3>1
        <3>3. Range(queue') = Range(queue) \cup {x}
              BY <2>4, <3>2, RangeAppend
        <3>4. pend' = pend \cup {x} /\ x \in pend' /\ UNCHANGED <<now, seen>>
              BY <1>1, <1>5, <2>1, <3>3 DEF Ordered
        <3>5. QED
              BY <3>4 DEF Playout!Next, Playout!Take
      <2>5. QED
            BY <2>2, <2>3, <2>4
    <1>6. CASE Timeout /\ Ordered
      <2>1. UNCHANGED now /\ status = "run" /\ "timer" \in revents
            BY <1>6 DEF Timeout
      <2>2. CASE UNCHANGED <<queue, played>>
            BY <1>3, <2>1, <2>2
      <2>3. CASE NextHead /\ queue # << >>
        <3> DEFINE h == Head(queue)
        <3>1. queue' = Tail(queue) /\ played' = Append(played, h)
              BY <2>3 DEF NextHead
        <3>2. queue \in Seq(Sample) /\ "reorder" \notin happened
              BY <1>6 DEF Inv, Base, Ordered
        <3>3. Sorted(queue)
              BY <3>2 DEF Inv, Lined
        <3>4. h = queue[1] /\ 1 \in 1 .. Len(queue) /\ DOMAIN queue = 1 .. Len(queue)
              BY <2>3, <3>2, TailFacts
        <3>5. h.at <= now
              BY <2>1, <2>3 DEF Inv, Polled, TimerServesHead, Expired
        <3>6. ASSUME NEW y \in Range(queue)
              PROVE  h.at <= y.at
          <4>1. PICK j \in 1 .. Len(queue) : y = queue[j]
                BY <3>4 DEF Range
          <4>2. y.at = y.due /\ h.at = h.due /\ h.due \in Nat
            <5>1. h \in Sample
                  BY <3>2, <3>4
            <5>2. QED
                  BY <3>4, <4>1, <5>1 DEF Inv, Recovered, Sample
          <4>3. j = 1 \/ 1 < j
                BY <3>4
          <4>4. 1 < j => h.due <= y.due
                BY <3>3, <3>4, <4>1 DEF Sorted, Prec
          <4>5. QED
                BY <3>4, <4>1, <4>2, <4>3, <4>4
        <3>7. Range(queue') = Range(queue) \ {h} /\ h \in Range(queue)
          <4>1. h \in Range(queue)
                BY <3>4 DEF Range
          <4>2. QED
                BY <2>3, <3>1, <3>2, <3>3, <4>1, RangeTail
        <3> HIDE DEF h
        <3>8. /\ pend = Range(queue) /\ pend' = pend \ {h} /\ h \in pend
              /\ seen' = Append(seen, h) /\ UNCHANGED now
              BY <1>1, <1>6, <2>1, <3>1, <3>7 DEF Ordered
        <3>9. QED
              BY <3>5, <3>6, <3>8 DEF Playout!Next, Playout!Present
      <2>4. QED
            BY <1>6, <2>2, <2>3 DEF Timeout
    <1>7. CASE TalkerSend \/ Poll \/ UNCHANGED vars
          BY <1>3, <1>7 DEF TalkerSend, Poll, vars
    <1>8. ASSUME NEW kind, NEW seq, StraySend(kind, seq)
          PROVE  Playout!Next \/ UNCHANGED <<now, pend, seen>>
          BY <1>3, <1>8 DEF StraySend
    <1>9. ASSUME NEW i, Deliver(i) \/ Lose(i)
          PROVE  Playout!Next \/ UNCHANGED <<now, pend, seen>>
          BY <1>3, <1>9 DEF Deliver, Lose
    <1>10. NewPacket \/ Timeout => UNCHANGED now
           BY DEF NewPacket, Timeout
    <1> HIDE DEF pend, seen, talker, listener
    <1>11. QED
           BY <1>2, <1>4, <1>5, <1>6, <1>7, <1>8, <1>9, <1>10 DEF Next

\* The listener is a timed playout: in whatever way sending, losing, receiving
\* and timing out interleave, a sample is presented at most once, not before its
\* time and not after one that was due later.
THEOREM ListenerIsPlayout == Spec => ImplementsPlayout
    <1>1. Init => Playout!Init
      <2> SUFFICES ASSUME Init
                   PROVE  Playout!Init
          OBVIOUS
      <2>1. now \in Nat
            BY PlayoutConstants DEF Init
      <2>2. Range(queue) = {}
            BY DEF Init, Range
      <2>3. QED
            BY <2>1, <2>2 DEF Init, Playout!Init
    <1>2. QED
          BY <1>1, PlayoutStep, PlayoutInvariance, PTL DEF Spec, ImplementsPlayout, Playout!Spec
=============================================================================
