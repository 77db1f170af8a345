-------------------------- MODULE MediaClockProof --------------------------
(***************************************************************************)
(* Proofs about MediaClock.  Both programs put the marks of one grid into  *)
(* their queues: the n-th is n periods after the start, for the talker a   *)
(* maximum transit time later.  The inductive invariant follows the index  *)
(* of the mark each program takes next, and the numbers of the PDUs that   *)
(* are still on their way; while no CRF PDU is lost the queue holds        *)
(* exactly the marks from that index to the next CRF PDU.                  *)
(***************************************************************************)
EXTENDS MediaClock, SequenceTheorems, WellFoundedInduction, TLAPS

---------------------------------------------------------------------------
(* The inductive invariant *)

\* The j-th timestamp of program m's media clock.
Mark(m, j) == Start + j * Period + Delay(m)

\* The first mark of CRF PDU k.
FirstOf(k) == k * PerCrf

\* The marks from lo to before hi.
Run(m, lo, hi) == [i \in 1 .. (IF lo < hi THEN hi - lo ELSE 0) |-> Mark(m, lo + i - 1)]

\* The mark whose time the listener's clock has when the talker's has mark j is
\* the one Shift later.
Shift == Mtt \div Period

\* The timer runs from the first frame on, and has the PDUs of the world to send.
Timer ==
    /\ Len(aaf) + burst + expired <= world.aaf
    /\ first => expired = 0 /\ burst = 0 /\ aaf = <<>> /\ queue["talker"] = <<>>
    /\ ~first => crfSent > 0

\* A frame on its way to m says what its sender said, of c CRF PDUs, the stamps a
\* and n strays sent.
Honest(m, p, c, a, n) ==
    /\ p.kind = "crf" => p.no \in 0 .. c - 1 /\ p.ts = CrfTime(p.no)
    /\ p.kind = "aaf" => m = "listener" /\ p.no \in 1 .. Len(a) /\ p.ts = a[p.no] % Low
    /\ p.kind = "other" => n > 0

AllHonest(m, s, c, a, n) == \A i \in 1 .. Len(s) : Honest(m, s[i], c, a, n)

\* The frames of each stream arrive in the order they were sent in.
InOrder(s) ==
    \A i, j \in 1 .. Len(s) :
        i < j /\ s[i].kind = s[j].kind /\ s[i].kind # "other" => s[i].no < s[j].no

Flight ==
    \A m \in Programs : InOrder(net[m]) /\ AllHonest(m, net[m], crfSent, aaf, strays)

\* Of the kind of frames numbered up to n, those from r on are in s.
Awaits(s, kind, r, n) ==
    \A k \in Nat : k \in r .. n <=> \E i \in 1 .. Len(s) : s[i].kind = kind /\ s[i].no = k

\* No CRF PDU in s is older than r.
NoOlder(s, r) == \A i \in 1 .. Len(s) : s[i].kind = "crf" => s[i].no >= r

\* No AAF PDU comes before the first CRF PDU.
CrfFirst(s) ==
    \A i \in 1 .. Len(s) : s[i].kind = "aaf" => \E k \in 1 .. i - 1 : s[k].kind = "crf"

\* q is an increasing sequence of marks from lo to before hi.
Marks(m, q, lo, hi) ==
    /\ \A i \in 1 .. Len(q) : \E x \in lo .. hi - 1 : q[i] = Mark(m, x)
    /\ \A i, k \in 1 .. Len(q) : i < k => q[i] < q[k]

\* The talker has seen CRF PDUs before r and takes no mark before j.
TalkerAt(r, j) ==
    /\ NoOlder(net["talker"], r)
    /\ j <= FirstOf(r) + Len(aaf) /\ Marks("talker", queue["talker"], j, FirstOf(r))
    /\ IF aaf = <<>> THEN prev["talker"] = 0 /\ (~first => queue["talker"] # <<>>)
       ELSE /\ prev["talker"] = aaf[Len(aaf)]
            /\ j > 0 /\ prev["talker"] = Mark("talker", j - 1)
    /\ first => j = 0
    /\ "crf" \notin lost =>
          /\ Awaits(net["talker"], "crf", r, crfSent - 1)
          /\ ~first => j = Len(aaf) + 1
          /\ queue["talker"] = Run("talker", j, FirstOf(r))

TalkerClock == \E r \in 0 .. crfSent : \E j \in 0 .. FirstOf(r) + Len(aaf) : TalkerAt(r, j)

\* The listener has received the CRF PDUs before r and the AAF PDUs up to a, and
\* takes mark j next.
ListenerAt(r, j, a) ==
    /\ Awaits(net["listener"], "crf", r, crfSent - 1)
    /\ Awaits(net["listener"], "aaf", a + 1, Len(aaf))
    /\ queue["listener"] = Run("listener", j, FirstOf(r))
    /\ prev["listener"] = IF j = 0 THEN 0 ELSE Mark("listener", j - 1)
    /\ a = 0 => j = 0 /\ need["listener"] /\ looking = None
    /\ a > 0 => r > 0
    /\ a > 0 /\ looking = None =>
          j > 0 /\ j - 1 <= a + Shift /\ prev["listener"] % Low = aaf[a] % Low
    /\ looking # None => j <= a + Shift /\ looking = aaf[a] % Low
    /\ r = 0 => CrfFirst(net["listener"])

ListenerClock ==
    lost = {} =>
        /\ FALSE \notin verdicts
        /\ \E r \in 0 .. crfSent, j \in 0 .. Len(aaf) + Shift + 1, a \in 0 .. Len(aaf) :
              ListenerAt(r, j, a)

Base == TypeOK /\ Timer /\ Flight

TalkerInv == TalkerClock /\ StampsIncrease /\ ClockContinues /\ NeverDequeuesEmpty

Inv == Base /\ TalkerInv /\ ListenerClock

---------------------------------------------------------------------------
(* Induction *)

\* Of any numbers one is the least.
LEMMA LeastNat ==
    ASSUME NEW T \in SUBSET Nat, T # {}
    PROVE  \E x \in T : \A y \in T : x <= y
    <1> DEFINE R == OpToRel(<, Nat)
    <1>1. IsWellFoundedOn(R, Nat)
          BY NatLessThanWellFounded
    <1>2. \A x, y \in Nat : x < y => <<x, y>> \in R
          BY DEF OpToRel
    <1> HIDE DEF R
    <1>3. PICK x \in T : \A y \in T : <<y, x>> \notin R
          BY <1>1, WFMin
    <1>4. ASSUME NEW y \in T
          PROVE  x <= y
      <2>1. x \in Nat /\ y \in Nat
            OBVIOUS
      <2>2. ~(y < x)
            BY <1>2, <1>3, <2>1
      <2>3. QED
            BY <2>1, <2>2
    <1>5. QED
          BY <1>4

\* A set that has 0 and with a number below n the next has all up to n.
LEMMA CountUp ==
    ASSUME NEW n \in Nat, NEW T, 0 \in T, \A k \in 0 .. n - 1 : k \in T => k + 1 \in T
    PROVE  \A k \in 0 .. n : k \in T
    <1> DEFINE U == {k \in 0 .. n : k \notin T}
    <1>1. SUFFICES ASSUME U # {}
                   PROVE  FALSE
          OBVIOUS
    <1>2. U \in SUBSET Nat
          OBVIOUS
    <1>3. PICK k \in U : \A j \in U : k <= j
          BY <1>1, <1>2, LeastNat
    <1>4. k \in 0 .. n /\ k \notin T /\ k # 0
          OBVIOUS
    <1>5. k - 1 \in 0 .. n - 1 /\ k - 1 \notin U
          BY <1>3, <1>4
    <1>6. k - 1 \in T
          BY <1>5
    <1>7. QED
          BY <1>4, <1>5, <1>6

---------------------------------------------------------------------------
(* The loop of recover_mclk *)

\* What the queue holds after each turn of the loop.
Loop(f, q, e, p) ==
    f = [i \in 0 .. Len(e) |->
            IF i = 0 THEN q ELSE IF e[i] <= p THEN f[i - 1] ELSE Append(f[i - 1], e[i])]

\* The loop has an end, and Enqueue is what it leaves.
LEMMA LoopRuns ==
    ASSUME NEW q, NEW e, NEW p, Len(e) \in Nat
    PROVE  \E f : Loop(f, q, e, p) /\ Enqueue(q, e, p) = f[Len(e)]
    <1> DEFINE n == Len(e)
               Upto(f, k) == \A i \in 0 .. k :
                   f[i] = IF i = 0 THEN q ELSE IF e[i] <= p THEN f[i - 1] ELSE Append(f[i - 1], e[i])
               T == {k \in 0 .. n : \E f : Upto(f, k)}
    <1>1. 0 \in T
      <2>1. Upto([i \in 0 .. 0 |-> q], 0)
            OBVIOUS
      <2>2. 0 \in 0 .. n
            OBVIOUS
      <2> HIDE DEF Upto
      <2>3. QED
            BY <2>1, <2>2
    <1>2. ASSUME NEW k \in 0 .. n - 1, k \in T
          PROVE  k + 1 \in T
      <2>1. PICK f : Upto(f, k)
            BY <1>2
      <2> DEFINE g == [i \in 0 .. k + 1 |->
                          IF i <= k THEN f[i]
                          ELSE IF e[i] <= p THEN f[i - 1] ELSE Append(f[i - 1], e[i])]
      <2>2. Upto(g, k + 1)
        <3>1. SUFFICES ASSUME NEW i \in 0 .. k + 1
                       PROVE  g[i] = IF i = 0 THEN q ELSE
                                     IF e[i] <= p THEN g[i - 1] ELSE Append(g[i - 1], e[i])
              OBVIOUS
        <3>2. CASE i = 0
              BY <2>1, <3>2
        <3>3. CASE i # 0
          <4>1. i - 1 \in 0 .. k /\ g[i - 1] = f[i - 1]
                BY <3>3
          <4>2. CASE i <= k
                BY <2>1, <3>3, <4>1, <4>2
          <4>3. CASE i = k + 1
                BY <3>3, <4>1, <4>3
          <4>4. QED
                BY <4>2, <4>3
        <3>4. QED
              BY <3>2, <3>3
      <2>3. k + 1 \in 0 .. n
            OBVIOUS
      <2> HIDE DEF g, Upto
      <2>4. QED
            BY <2>2, <2>3
    <1>3. n \in T
      <2> HIDE DEF T
      <2>1. n \in Nat /\ n \in 0 .. n
            OBVIOUS
      <2> HIDE DEF n
      <2>2. QED
            BY <1>1, <1>2, <2>1, CountUp
    <1>4. PICK f : Upto(f, n)
          BY <1>3
    <1> DEFINE h == [i \in 0 .. n |-> f[i]]
    <1>5. Loop(h, q, e, p)
      <2>1. \A i \in 0 .. n : i # 0 => i - 1 \in 0 .. n
            OBVIOUS
      <2>2. QED
            BY <1>4, <2>1 DEF Loop
    <1> HIDE DEF h
    <1>6. QED
          BY <1>5 DEF Enqueue, Loop

\* What is queued has the type of what was and of the entries.
LEMMA EnqueueType ==
    ASSUME NEW S, NEW q \in Seq(S), NEW e \in Seq(S), NEW p
    PROVE  Enqueue(q, e, p) \in Seq(S)
    <1> DEFINE n == Len(e)
    <1>1. n \in Nat /\ \A i \in 1 .. n : e[i] \in S
          OBVIOUS
    <1>2. PICK f : Loop(f, q, e, p) /\ Enqueue(q, e, p) = f[n]
          BY <1>1, LoopRuns
    <1>3. /\ f[0] = q
          /\ \A k \in 0 .. n - 1 : f[k + 1] = IF e[k + 1] <= p THEN f[k] ELSE Append(f[k], e[k + 1])
      <2>1. \A i \in 0 .. n : f[i] =
                IF i = 0 THEN q ELSE IF e[i] <= p THEN f[i - 1] ELSE Append(f[i - 1], e[i])
            BY <1>2 DEF Loop
      <2>2. \A k \in 0 .. n - 1 : k + 1 \in 0 .. n /\ k + 1 # 0 /\ (k + 1) - 1 = k
            BY <1>1
      <2>3. QED
            BY <1>1, <2>1, <2>2
    <1> HIDE DEF n
    <1> DEFINE T == {k \in 0 .. n : f[k] \in Seq(S)}
    <1>4. 0 \in T
          BY <1>1, <1>3
    <1>5. ASSUME NEW k \in 0 .. n - 1, k \in T
          PROVE  k + 1 \in T
      <2>1. k + 1 \in 1 .. n /\ k + 1 \in 0 .. n /\ e[k + 1] \in S /\ f[k] \in Seq(S)
            BY <1>1, <1>5
      <2>2. Append(f[k], e[k + 1]) \in Seq(S)
            BY <2>1, AppendProperties
      <2>3. QED
            BY <1>3, <2>1, <2>2
    <1> HIDE DEF T
    <1>6. n \in T
      <2>1. n \in 0 .. n
            BY <1>1
      <2>2. QED
            BY <1>1, <1>4, <1>5, <2>1, CountUp
    <1>7. QED
          BY <1>2, <1>6 DEF T

\* The clock p has passed the first s entries, and no other.
Passed(e, p, s) == s \in 0 .. Len(e) /\ \A i \in 1 .. Len(e) : e[i] <= p <=> i <= s

\* x is q and behind it what follows the first s of e.
Behind(x, q, e, s) ==
    /\ Len(x) = Len(q) + (Len(e) - s)
    /\ \A i \in 1 .. Len(q) : x[i] = q[i]
    /\ \A i \in 1 .. Len(e) - s : x[Len(q) + i] = e[s + i]

\* Where the clock has passed the first s entries the others go behind the queue.
LEMMA EnqueueRest ==
    ASSUME NEW S, NEW q \in Seq(S), NEW e \in Seq(S), NEW p, NEW s, Passed(e, p, s)
    PROVE  Enqueue(q, e, p) \in Seq(S) /\ Behind(Enqueue(q, e, p), q, e, s)
    <1> DEFINE n == Len(e)
               l == Len(q)
    <1>1. n \in Nat /\ l \in Nat /\ s \in 0 .. n /\ \A i \in 1 .. n : e[i] \in S
          BY DEF Passed
    <1>0. \A i \in 1 .. n : e[i] <= p <=> i <= s
          BY DEF Passed
    <1>2. PICK f : Loop(f, q, e, p) /\ Enqueue(q, e, p) = f[n]
          BY <1>1, LoopRuns
    <1>3. f[0] = q /\ \A k \in 0 .. n - 1 :
              f[k + 1] = IF k < s THEN f[k] ELSE Append(f[k], e[k + 1])
      <2>1. \A i \in 0 .. n : f[i] =
                IF i = 0 THEN q ELSE IF e[i] <= p THEN f[i - 1] ELSE Append(f[i - 1], e[i])
            BY <1>2 DEF Loop
      <2>2. \A k \in 0 .. n - 1 : k + 1 \in 0 .. n /\ k + 1 \in 1 .. n /\ k + 1 # 0 /\ (k + 1) - 1 = k
                                  /\ (k + 1 <= s <=> k < s)
            BY <1>1
      <2>3. QED
            BY <1>0, <1>1, <2>1, <2>2
    <1> DEFINE Holds(x, k) ==
                   /\ x \in Seq(S) /\ Len(x) = l + (IF k <= s THEN 0 ELSE k - s)
                   /\ \A i \in 1 .. l : x[i] = q[i]
                   /\ \A i \in 1 .. k - s : x[l + i] = e[s + i]
               T == {k \in 0 .. n : Holds(f[k], k)}
    <1>4. 0 \in T
      <2>1. 0 \in 0 .. n
            BY <1>1
      <2>2. Holds(q, 0)
            BY <1>1
      <2>3. QED
            BY <1>3, <2>1, <2>2
    <1>5. ASSUME NEW k \in 0 .. n - 1, k \in T
          PROVE  k + 1 \in T
      <2>1. k + 1 \in 1 .. n /\ k + 1 \in 0 .. n /\ e[k + 1] \in S
            BY <1>1
      <2>2. Holds(f[k], k)
            BY <1>5
      <2> HIDE DEF n, l
      <2>3. CASE k < s
        <3>1. Holds(f[k], k + 1)
              BY <1>1, <2>2, <2>3
        <3>2. QED
              BY <1>3, <2>1, <2>3, <3>1
      <2>4. CASE ~(k < s)
        <3> DEFINE x == f[k]
                   y == Append(x, e[k + 1])
        <3>1. x \in Seq(S) /\ Len(x) = l + (k - s)
              BY <1>1, <2>2, <2>4
        <3>2. /\ y \in Seq(S) /\ Len(y) = Len(x) + 1 /\ y[Len(x) + 1] = e[k + 1]
              /\ \A i \in 1 .. Len(x) : y[i] = x[i]
              BY <2>1, <3>1, AppendProperties
        <3>3. \A i \in 1 .. l : x[i] = q[i]
              BY <2>2
        <3>4. \A i \in 1 .. k - s : x[l + i] = e[s + i]
              BY <2>2
        <3>5. f[k + 1] = y
              BY <1>3, <2>4
        <3> HIDE DEF x, y
        <3>6. \A i \in 1 .. l : y[i] = q[i]
              BY <1>1, <2>4, <3>1, <3>2, <3>3
        <3>7. ASSUME NEW i \in 1 .. (k + 1) - s
              PROVE  y[l + i] = e[s + i]
          <4>1. CASE i \in 1 .. k - s
                BY <1>1, <2>4, <3>1, <3>2, <3>4, <4>1
          <4>2. CASE i = (k + 1) - s
            <5>1. l + i = Len(x) + 1 /\ s + i = k + 1
                  BY <1>1, <3>1, <4>2
            <5>2. QED
                  BY <3>2, <5>1
          <4>3. QED
                BY <1>1, <2>4, <4>1, <4>2
        <3>8. Len(y) = l + (IF k + 1 <= s THEN 0 ELSE (k + 1) - s)
              BY <1>1, <2>4, <3>1, <3>2
        <3>9. QED
              BY <2>1, <3>2, <3>5, <3>6, <3>7, <3>8
      <2>5. QED
            BY <2>3, <2>4
    <1> HIDE DEF T
    <1>6. n \in T
      <2>1. n \in 0 .. n
            BY <1>1
      <2> HIDE DEF n
      <2>2. QED
            BY <1>1, <1>4, <1>5, <2>1, CountUp
    <1>7. Holds(f[n], n)
          BY <1>6 DEF T
    <1>8. (IF n <= s THEN 0 ELSE n - s) = n - s
          BY <1>1
    <1>9. QED
          BY <1>2, <1>7, <1>8 DEF Behind

---------------------------------------------------------------------------
(* Arithmetic *)

\* What is left over below the modulus is the remainder.
LEMMA ModUnique ==
    ASSUME NEW m \in Nat \ {0}, NEW q \in Int, NEW r \in 0 .. m - 1
    PROVE  (m * q + r) % m = r
    OBVIOUS

\* A number and its remainder differ by a multiple of the modulus.
LEMMA ModSplit ==
    ASSUME NEW m \in Nat \ {0}, NEW x \in Int
    PROVE  x % m \in 0 .. m - 1 /\ \E q \in Int : x = m * q + (x % m)
    <1>1. x = m * (x \div m) + (x % m) /\ x % m \in 0 .. m - 1 /\ x \div m \in Int
          OBVIOUS
    <1>2. QED
          BY <1>1

\* Remainders that agree go on agreeing.
LEMMA ModStep ==
    ASSUME NEW m \in Nat \ {0}, NEW x \in Int, NEW y \in Int, NEW d \in Int, x % m = y % m
    PROVE  (x + d) % m = (y + d) % m
    <1> DEFINE r == x % m
               t == (r + d) % m
    <1>1. PICK a \in Int : x = m * a + r
          BY ModSplit
    <1>2. PICK b \in Int : y = m * b + r
          BY ModSplit
    <1>3. r \in Int /\ r + d \in Int
          BY ModSplit
    <1> HIDE DEF r
    <1>4. t \in 0 .. m - 1
          BY <1>3, ModSplit
    <1>5. PICK c \in Int : r + d = m * c + t
          BY <1>3, ModSplit
    <1> HIDE DEF t
    <1>6. x + d = m * (a + c) + t /\ y + d = m * (b + c) + t /\ a + c \in Int /\ b + c \in Int
          BY <1>1, <1>2, <1>3, <1>4, <1>5
    <1>7. QED
          BY <1>4, <1>6, ModUnique

\* The remainder of a difference of numbers that agree is zero, also when the
\* remainder of one has been taken before.
LEMMA ModDifference ==
    ASSUME NEW m \in Nat \ {0}, NEW x \in Int, NEW y \in Int, x % m = y % m
    PROVE  ((x % m) - y) % m = 0
    <1> DEFINE r == x % m
    <1>1. PICK b \in Int : y = m * b + r
          BY ModSplit
    <1>2. r \in Int
          BY ModSplit
    <1> HIDE DEF r
    <1>3. r - y = m * (-b) + 0 /\ -b \in Int /\ 0 \in 0 .. m - 1
          BY <1>1, <1>2
    <1>4. (r - y) % m = 0
          BY <1>3, ModUnique
    <1>5. QED
          BY <1>4 DEF r

---------------------------------------------------------------------------
(* Marks *)

\* What the constants are.
LEMMA Constants ==
    /\ Period \in Nat \ {0} /\ PerCrf \in Nat \ {0} /\ PerCrf > 1 /\ Mtt \in Nat
    /\ Start \in Nat \ {0} /\ Full \in Nat \ {0} /\ Low \in Nat \ {0} /\ Tolerance \in Nat
    /\ MaxStrays \in Nat
    /\ \A w \in Worlds : w.strays \subseteq Foreign /\ w.crf \in Nat /\ w.aaf \in Nat
    BY ClockConstants

\* Periods are numbers that go up with their index.
LEMMA PeriodFacts ==
    /\ 0 * Period = 0
    /\ \A j \in Nat : j * Period \in Nat /\ (j + 1) * Period = j * Period + Period
    /\ \A i, j \in Nat : i < j => i * Period < j * Period
    <1>1. \A j \in Nat : j * Period \in Nat /\ (j + 1) * Period = j * Period + Period
          BY Constants
    <1>2. ASSUME NEW i \in Nat, NEW j \in Nat, i < j
          PROVE  i * Period < j * Period
      <2>1. PICK d \in Nat : j = i + d /\ d > 0
        <3>1. j - i \in Nat /\ j = i + (j - i) /\ j - i > 0
              BY <1>2
        <3>2. QED
              BY <3>1
      <2>2. j * Period = i * Period + d * Period
            BY <2>1, Constants
      <2>3. d * Period > 0
            BY <2>1, Constants
      <2>4. QED
            BY <2>2, <2>3, Constants
    <1>3. QED
          BY <1>1, <1>2, Constants

\* The marks of a program are positive and go up, a period each.
LEMMA MarkFacts ==
    ASSUME NEW m
    PROVE  /\ \A j \in Nat : Mark(m, j) \in Nat /\ Mark(m, j) > 0
           /\ \A j \in Nat : Mark(m, j + 1) = Mark(m, j) + Period
           /\ \A i, j \in Nat : i < j <=> Mark(m, i) < Mark(m, j)
           /\ \A i, j \in Nat : i = j <=> Mark(m, i) = Mark(m, j)
    <1>1. Delay(m) \in Nat /\ Start \in Nat /\ Start > 0 /\ Period \in Nat
          BY Constants DEF Delay
    <1>2. \A i, j \in Nat : i < j \/ i = j \/ j < i
          OBVIOUS
    <1>3. \A j \in Nat : Mark(m, j) = Start + j * Period + Delay(m) /\ j + 1 \in Nat
          BY DEF Mark
    <1>4. ASSUME NEW i \in Nat, NEW j \in Nat, i < j
          PROVE  Mark(m, i) < Mark(m, j)
      <2> DEFINE a == i * Period
                 b == j * Period
      <2>1. a < b /\ a \in Nat /\ b \in Nat
            BY <1>4, PeriodFacts
      <2>2. Mark(m, i) = Start + a + Delay(m) /\ Mark(m, j) = Start + b + Delay(m)
            BY DEF Mark
      <2> HIDE DEF a, b
      <2>3. QED
            BY <1>1, <2>1, <2>2
    <1>5. \A j \in Nat : Mark(m, j) \in Nat /\ Mark(m, j) > 0
          BY <1>1, <1>3, PeriodFacts
    <1>6. \A j \in Nat : Mark(m, j + 1) = Mark(m, j) + Period
          BY <1>1, <1>3, PeriodFacts
    <1>7. ASSUME NEW i \in Nat, NEW j \in Nat
          PROVE  (i < j <=> Mark(m, i) < Mark(m, j)) /\ (i = j <=> Mark(m, i) = Mark(m, j))
      <2>1. Mark(m, i) \in Nat /\ Mark(m, j) \in Nat
            BY <1>5
      <2>2. CASE i < j
            BY <1>4, <2>1, <2>2
      <2>3. CASE j < i
            BY <1>4, <2>1, <2>3
      <2>4. CASE i = j
            BY <2>1, <2>4
      <2>5. QED
            BY <1>2, <2>2, <2>3, <2>4
    <1>8. QED
          BY <1>5, <1>6, <1>7

\* Two marks are whole periods apart.
LEMMA MarkApart ==
    ASSUME NEW m, NEW i \in Nat, NEW j \in Nat, i <= j
    PROVE  (Mark(m, j) - Mark(m, i)) % Period = 0
    <1>1. j - i \in Int /\ Period \in Nat \ {0} /\ Start \in Int /\ Delay(m) \in Int
          BY Constants DEF Delay
    <1>2. j * Period - i * Period = Period * (j - i) + 0
          BY <1>1
    <1>3. i * Period \in Int /\ j * Period \in Int
          BY PeriodFacts
    <1>4. Mark(m, j) - Mark(m, i) = Period * (j - i) + 0
          BY <1>1, <1>2, <1>3 DEF Mark
    <1>5. 0 \in 0 .. Period - 1
          BY <1>1
    <1>6. QED
          BY <1>1, <1>4, <1>5, ModUnique

\* The talker's clock is the listener's of Shift marks later.
LEMMA MarkShift ==
    ASSUME NEW j \in Nat
    PROVE  Shift \in Nat /\ Mark("talker", j) = Mark("listener", j + Shift)
    <1>1. Mtt = Period * (Mtt \div Period) + (Mtt % Period) /\ Mtt \div Period \in Nat
          BY Constants
    <1>2. Mtt % Period = 0
          BY ClockConstants
    <1>3. Shift \in Nat /\ Mtt = Period * Shift
          BY <1>1, <1>2, Constants DEF Shift
    <1>4. (j + Shift) * Period = j * Period + Period * Shift
          BY <1>3, Constants
    <1>5. j * Period \in Nat /\ j + Shift \in Nat
          BY <1>3, PeriodFacts
    <1>6. Delay("talker") = Mtt /\ Delay("listener") = 0
          BY DEF Delay
    <1>7. QED
          BY <1>3, <1>4, <1>5, <1>6, Constants DEF Mark

\* The CRF PDUs take up the marks one after the other, PerCrf each.
LEMMA FirstFacts ==
    /\ FirstOf(0) = 0
    /\ \A k \in Nat : FirstOf(k) \in Nat /\ FirstOf(k + 1) = FirstOf(k) + PerCrf
    /\ \A k, n \in Nat : k <= n => FirstOf(k) <= FirstOf(n)
    <1>1. \A k \in Nat : FirstOf(k) \in Nat /\ FirstOf(k + 1) = FirstOf(k) + PerCrf
          BY Constants DEF FirstOf
    <1>2. ASSUME NEW k \in Nat, NEW n \in Nat, k <= n
          PROVE  FirstOf(k) <= FirstOf(n)
      <2>1. n - k \in Nat /\ n = k + (n - k)
            BY <1>2
      <2>2. n * PerCrf = k * PerCrf + (n - k) * PerCrf
            BY <2>1, Constants
      <2>3. (n - k) * PerCrf \in Nat /\ k * PerCrf \in Nat
            BY <2>1, Constants
      <2>4. QED
            BY <2>2, <2>3 DEF FirstOf
    <1>3. FirstOf(0) = 0
          BY Constants DEF FirstOf
    <1>4. QED
          BY <1>1, <1>2, <1>3

\* No mark that the PDUs of a world ask for wraps.
LEMMA MarkBound ==
    ASSUME NEW w \in Worlds, NEW m, NEW j \in Nat, j <= FirstOf(w.crf) + w.aaf
    PROVE  Mark(m, j) < Full /\ Mark(m, j) % Full = Mark(m, j) /\ Mark(m, j) \in 0 .. Full - 1
    <1> DEFINE n == FirstOf(w.crf) + w.aaf
    <1>1. n \in Nat /\ j <= n
      <2>1. w.crf \in Nat /\ w.aaf \in Nat
            BY Constants
      <2>2. FirstOf(w.crf) \in Nat
            BY <2>1, FirstFacts
      <2>3. QED
            BY <2>1, <2>2
    <1>2. Start + Mtt + n * Period < Full
          BY NoWrap DEF FirstOf
    <1> HIDE DEF n
    <1>3. j * Period <= n * Period /\ j * Period \in Nat /\ n * Period \in Nat
      <2>1. CASE j = n
            BY <1>1, <2>1, PeriodFacts
      <2>2. CASE j < n
            BY <1>1, <2>2, PeriodFacts
      <2>3. QED
            BY <1>1, <2>1, <2>2
    <1>4. Delay(m) \in Nat /\ Delay(m) <= Mtt
          BY Constants DEF Delay
    <1>5. Mark(m, j) < Full
          BY <1>2, <1>3, <1>4, Constants DEF Mark
    <1>6. Mark(m, j) \in Nat
          BY MarkFacts
    <1>7. QED
          BY <1>5, <1>6, Constants

---------------------------------------------------------------------------
(* What recover_mclk adds to the queue *)

Stamp == 0 .. Full - 1
Stamps == Seq(Stamp)

\* A function of 1 .. n is a sequence.
LEMMA SeqOf ==
    ASSUME NEW S, NEW n \in Nat, NEW f \in [1 .. n -> S]
    PROVE  f \in Seq(S) /\ Len(f) = n
    OBVIOUS

\* The entries made from CRF PDU k are its marks.
LEMMA EntriesAreMarks ==
    ASSUME world \in Worlds, NEW m, NEW k \in Nat, k < world.crf
    PROVE  /\ Entries(m, CrfTime(k)) \in Stamps /\ Len(Entries(m, CrfTime(k))) = PerCrf
           /\ \A i \in 1 .. PerCrf : Entries(m, CrfTime(k))[i] = Mark(m, FirstOf(k) + i - 1)
    <1> DEFINE e == Entries(m, CrfTime(k))
               h == FirstOf(k)
    <1>1. PerCrf \in Nat /\ h \in Nat /\ world.crf \in Nat /\ world.aaf \in Nat
          BY Constants, FirstFacts
    <1>2. h + PerCrf <= FirstOf(world.crf) /\ FirstOf(world.crf) \in Nat
      <2>1. k + 1 \in Nat /\ k + 1 <= world.crf
            BY <1>1
      <2>2. QED
            BY <1>1, <2>1, FirstFacts
    <1>3. ASSUME NEW i \in 1 .. PerCrf
          PROVE  /\ (CrfTime(k) + (i - 1) * Period + Delay(m)) % Full = Mark(m, h + i - 1)
                 /\ Mark(m, h + i - 1) \in 0 .. Full - 1
      <2>1. h + i - 1 \in Nat /\ h + i - 1 <= FirstOf(world.crf) + world.aaf
            BY <1>1, <1>2
      <2>2. CrfTime(k) = Start + h * Period
            BY DEF CrfTime, FirstOf
      <2>3. (h + i - 1) * Period = h * Period + (i - 1) * Period
            BY <1>1, Constants
      <2>4. h * Period \in Nat /\ (i - 1) * Period \in Nat /\ Delay(m) \in Nat /\ Start \in Nat
        <3>1. i - 1 \in Nat
              BY <1>1
        <3>2. QED
              BY <1>1, <3>1, PeriodFacts, Constants DEF Delay
      <2>5. CrfTime(k) + (i - 1) * Period + Delay(m) = Mark(m, h + i - 1)
            BY <2>2, <2>3, <2>4 DEF Mark
      <2>6. QED
            BY <2>1, <2>5, MarkBound
    <1>4. e = [i \in 1 .. PerCrf |-> (CrfTime(k) + (i - 1) * Period + Delay(m)) % Full]
          BY DEF Entries
    <1> HIDE DEF e, h
    <1>5. \A i \in 1 .. PerCrf : e[i] = Mark(m, h + i - 1) /\ e[i] \in 0 .. Full - 1
          BY <1>3, <1>4
    <1>6. e \in [1 .. PerCrf -> Stamp]
          BY <1>4, <1>5 DEF Stamp
    <1>7. e \in Stamps /\ Len(e) = PerCrf
          BY <1>1, <1>6, SeqOf DEF Stamps
    <1>8. QED
          BY <1>5, <1>7 DEF e, h

\* What a run holds.
LEMMA RunFacts ==
    ASSUME NEW m, NEW lo \in Nat, NEW hi \in Nat
    PROVE  /\ Len(Run(m, lo, hi)) = IF lo < hi THEN hi - lo ELSE 0
           /\ \A i \in 1 .. Len(Run(m, lo, hi)) : Run(m, lo, hi)[i] = Mark(m, lo + i - 1)
           /\ Run(m, lo, hi) \in Seq(Nat)
    <1> DEFINE n == IF lo < hi THEN hi - lo ELSE 0
    <1>1. n \in Nat
          OBVIOUS
    <1>2. \A i \in 1 .. n : lo + i - 1 \in Nat
          BY <1>1
    <1>3. Run(m, lo, hi) = [i \in 1 .. n |-> Mark(m, lo + i - 1)]
          BY DEF Run
    <1> HIDE DEF n
    <1>4. \A i \in 1 .. n : Mark(m, lo + i - 1) \in Nat
          BY <1>2, MarkFacts
    <1>5. Run(m, lo, hi) \in [1 .. n -> Nat]
          BY <1>3, <1>4
    <1>6. Run(m, lo, hi) \in Seq(Nat) /\ Len(Run(m, lo, hi)) = n
          BY <1>1, <1>5
    <1>7. QED
          BY <1>3, <1>6 DEF n

\* A sequence of the right length with the right marks is the run.
LEMMA RunIs ==
    ASSUME NEW m, NEW lo \in Nat, NEW hi \in Nat, NEW s \in Seq(Nat),
           Len(s) = (IF lo < hi THEN hi - lo ELSE 0),
           \A i \in 1 .. Len(s) : s[i] = Mark(m, lo + i - 1)
    PROVE  s = Run(m, lo, hi)
    <1>1. s = [i \in 1 .. Len(s) |-> s[i]]
          OBVIOUS
    <1>2. QED
          BY <1>1 DEF Run

\* The clock of m has not passed mark j of CRF PDU k or later, but those before.
NextIs(m, j, k) ==
    \/ prev[m] = 0 /\ j <= FirstOf(k)
    \/ j > 0 /\ prev[m] = Mark(m, j - 1)

Span(lo, hi) == IF lo < hi THEN hi - lo ELSE 0
Later(i, j) == IF i <= j THEN j ELSE i

\* x is q and the marks from lo to before hi behind it.
Added(x, q, m, lo, hi) ==
    /\ Len(x) = Len(q) + Span(lo, hi)
    /\ \A i \in 1 .. Len(q) : x[i] = q[i]
    /\ \A i \in 1 .. Span(lo, hi) : x[Len(q) + i] = Mark(m, lo + i - 1)

\* The clock takes mark j next; recover_mclk puts the marks of CRF PDU k that are
\* not before j behind the queue.
LEMMA Recovers ==
    ASSUME world \in Worlds, NEW m, NEW k \in Nat, k < world.crf,
           queue[m] \in Stamps, NEW j \in Nat, NextIs(m, j, k)
    PROVE  LET x == recover_mclk(m, CrfTime(k))
           IN  x \in Stamps /\ Added(x, queue[m], m, Later(j, FirstOf(k)), FirstOf(k + 1))
    <1> DEFINE e == Entries(m, CrfTime(k))
               h == FirstOf(k)
               hi == FirstOf(k + 1)
               x == recover_mclk(m, CrfTime(k))
               p == prev[m]
               q == queue[m]
               lo == Later(j, h)
               s == IF j <= h THEN 0 ELSE IF j - h > PerCrf THEN PerCrf ELSE j - h
    <1>1. e \in Stamps /\ Len(e) = PerCrf /\ \A i \in 1 .. PerCrf : e[i] = Mark(m, h + i - 1)
          BY EntriesAreMarks
    <1>2. h \in Nat /\ hi = h + PerCrf /\ PerCrf \in Nat
          BY FirstFacts, Constants
    <1>3. x = Enqueue(q, e, p)
          BY DEF recover_mclk
    <1>4. (p = 0 /\ j <= h) \/ (j > 0 /\ p = Mark(m, j - 1))
          BY DEF NextIs
    <1>5. lo = IF j <= h THEN h ELSE j
          BY DEF Later
    <1>6. q \in Stamps
          OBVIOUS
    <1> HIDE DEF e, h, hi, x, p, q, lo
    <1>7. s \in 0 .. Len(e) /\ Span(lo, hi) = PerCrf - s
          BY <1>1, <1>2, <1>5 DEF Span
    <1>8. ASSUME NEW i \in 1 .. PerCrf
          PROVE  e[i] <= p <=> i <= s
      <2>1. h + i - 1 \in Nat /\ Mark(m, h + i - 1) \in Nat /\ Mark(m, h + i - 1) > 0
        <3>1. h + i - 1 \in Nat
              BY <1>2
        <3>2. QED
              BY <3>1, MarkFacts
      <2>2. CASE p = 0 /\ j <= h
            BY <1>1, <2>1, <2>2
      <2>3. CASE j > 0 /\ p = Mark(m, j - 1)
        <3>1. j - 1 \in Nat /\ Mark(m, j - 1) \in Nat
          <4>1. j - 1 \in Nat
                BY <2>3
          <4>2. QED
                BY <4>1, MarkFacts
        <3>2. j - 1 < h + i - 1 <=> p < Mark(m, h + i - 1)
              BY <2>1, <2>3, <3>1, MarkFacts
        <3>3. i <= s <=> ~(j - 1 < h + i - 1)
              BY <1>2
        <3>4. e[i] = Mark(m, h + i - 1)
              BY <1>1
        <3> HIDE DEF s
        <3>5. QED
              BY <2>1, <2>3, <3>1, <3>2, <3>3, <3>4
      <2>4. QED
            BY <1>4, <2>2, <2>3
    <1>9. \A i \in 1 .. PerCrf - s : s + i \in 1 .. PerCrf /\ (lo + i - 1 = h + (s + i) - 1)
          BY <1>2, <1>5
    <1> HIDE DEF s
    <1>10. /\ x \in Stamps /\ Len(x) = Len(q) + (PerCrf - s)
           /\ \A i \in 1 .. Len(q) : x[i] = q[i]
           /\ \A i \in 1 .. PerCrf - s : x[Len(q) + i] = e[s + i]
      <2>1. q \in Seq(Stamp) /\ e \in Seq(Stamp)
            BY <1>1, <1>6 DEF Stamps
      <2>2. Passed(e, p, s)
            BY <1>1, <1>7, <1>8 DEF Passed
      <2>3. x \in Seq(Stamp) /\ Behind(x, q, e, s)
            BY <1>3, <2>1, <2>2, EnqueueRest
      <2>4. QED
            BY <1>1, <2>3 DEF Stamps, Behind
    <1>11. \A i \in 1 .. PerCrf - s : x[Len(q) + i] = Mark(m, lo + i - 1)
          BY <1>1, <1>9, <1>10
    <1>12. QED
      <2>1. Added(x, q, m, lo, hi)
            BY <1>7, <1>10, <1>11 DEF Added
      <2>2. QED
            BY <1>10, <2>1 DEF x, hi, q, lo, h

\* A queue that runs to CRF PDU k runs to the next one when k is recovered.
LEMMA RecoverRun ==
    ASSUME world \in Worlds, NEW m, NEW k \in Nat, k < world.crf,
           queue[m] \in Stamps, NEW j \in Nat, NextIs(m, j, k),
           queue[m] = Run(m, j, FirstOf(k))
    PROVE  recover_mclk(m, CrfTime(k)) = Run(m, j, FirstOf(k + 1))
    <1> DEFINE h == FirstOf(k)
               hi == FirstOf(k + 1)
               lo == Later(j, h)
               x == recover_mclk(m, CrfTime(k))
               q == queue[m]
               n == Span(lo, hi)
    <1>1. h \in Nat /\ hi \in Nat /\ h <= hi
          BY FirstFacts, Constants
    <1>2. /\ x \in Stamps /\ Len(x) = Len(q) + n
          /\ \A i \in 1 .. Len(q) : x[i] = q[i]
          /\ \A i \in 1 .. n : x[Len(q) + i] = Mark(m, lo + i - 1)
      <2>1. x \in Stamps /\ Added(x, q, m, lo, hi)
            BY Recovers
      <2>2. QED
            BY <2>1 DEF Added
    <1>3. /\ Len(q) = IF j < h THEN h - j ELSE 0
          /\ \A i \in 1 .. Len(q) : q[i] = Mark(m, j + i - 1)
      <2>1. q = Run(m, j, h)
            OBVIOUS
      <2> HIDE DEF h, q
      <2>2. /\ Len(Run(m, j, h)) = IF j < h THEN h - j ELSE 0
            /\ \A i \in 1 .. Len(Run(m, j, h)) : Run(m, j, h)[i] = Mark(m, j + i - 1)
            BY <1>1, RunFacts
      <2>3. QED
            BY <2>1, <2>2
    <1>9. (lo = IF j <= h THEN h ELSE j) /\ n = IF lo < hi THEN hi - lo ELSE 0
          BY DEF Later, Span
    <1> HIDE DEF h, hi, x, q, lo, n
    <1>4. Len(x) = IF j < hi THEN hi - j ELSE 0
          BY <1>1, <1>2, <1>3, <1>9
    <1>5. ASSUME NEW i \in 1 .. Len(x)
          PROVE  x[i] = Mark(m, j + i - 1)
      <2>1. CASE i <= Len(q)
            BY <1>1, <1>2, <1>3, <2>1
      <2>2. CASE i > Len(q)
        <3>1. i - Len(q) \in 1 .. n /\ Len(q) + (i - Len(q)) = i
              BY <1>1, <1>2, <1>3, <1>9, <2>2
        <3>2. x[i] = Mark(m, lo + (i - Len(q)) - 1)
              BY <1>2, <3>1
        <3>3. lo + (i - Len(q)) - 1 = j + i - 1
              BY <1>1, <1>3, <1>9, <2>2, <3>1
        <3>4. QED
              BY <3>2, <3>3
      <2>3. QED
            BY <1>1, <1>3, <2>1, <2>2
    <1>6. x \in Seq(Nat)
          BY <1>2, Constants DEF Stamps, Stamp
    <1>7. x = Run(m, j, hi)
          BY <1>1, <1>4, <1>5, <1>6, RunIs
    <1>8. QED
          BY <1>7 DEF x, hi

\* Where CRF PDUs are missing the queue still goes up from mark to mark.
LEMMA RecoverMarks ==
    ASSUME world \in Worlds, NEW m, NEW k \in Nat, k < world.crf,
           queue[m] \in Stamps, NEW j \in Nat, NextIs(m, j, k),
           NEW r \in Nat, r <= k, Marks(m, queue[m], j, FirstOf(r))
    PROVE  Marks(m, recover_mclk(m, CrfTime(k)), j, FirstOf(k + 1))
    <1> DEFINE h == FirstOf(k)
               hi == FirstOf(k + 1)
               lo == Later(j, h)
               x == recover_mclk(m, CrfTime(k))
               q == queue[m]
               n == Span(lo, hi)
    <1>1. h \in Nat /\ hi \in Nat /\ h <= hi /\ FirstOf(r) \in Nat /\ FirstOf(r) <= h
      <2>1. h \in Nat /\ hi = h + PerCrf /\ PerCrf \in Nat
            BY FirstFacts, Constants
      <2>2. FirstOf(r) \in Nat /\ FirstOf(r) <= h
            BY FirstFacts
      <2>3. QED
            BY <2>1, <2>2
    <1>2. /\ Len(x) = Len(q) + n
          /\ \A i \in 1 .. Len(q) : x[i] = q[i]
          /\ \A i \in 1 .. n : x[Len(q) + i] = Mark(m, lo + i - 1)
      <2>1. x \in Stamps /\ Added(x, q, m, lo, hi)
            BY Recovers
      <2>2. QED
            BY <2>1 DEF Added
    <1>3. /\ \A i \in 1 .. Len(q) : \E y \in j .. FirstOf(r) - 1 : q[i] = Mark(m, y)
          /\ \A i, y \in 1 .. Len(q) : i < y => q[i] < q[y]
          BY DEF Marks
    <1>4. Len(q) \in Nat
          BY DEF Stamps
    <1>5. lo \in Nat /\ j <= lo /\ h <= lo
          BY <1>1 DEF Later
    <1>0. n = IF lo < hi THEN hi - lo ELSE 0
          BY DEF Span
    <1> HIDE DEF h, hi, x, q, lo, n
    <1>6. \A i \in 1 .. Len(x) : i \in 1 .. Len(q) \/ i - Len(q) \in 1 .. n
          BY <1>0, <1>1, <1>2, <1>4, <1>5
    <1>7. ASSUME NEW i \in 1 .. Len(x), i - Len(q) \in 1 .. n
          PROVE  /\ lo + (i - Len(q)) - 1 \in j .. hi - 1
                 /\ x[i] = Mark(m, lo + (i - Len(q)) - 1)
      <2>1. Len(q) + (i - Len(q)) = i
            BY <1>4
      <2>2. x[i] = Mark(m, lo + (i - Len(q)) - 1)
            BY <1>2, <1>7, <2>1
      <2>3. QED
            BY <1>0, <1>1, <1>4, <1>5, <1>7, <2>2
    <1>8. ASSUME NEW i \in 1 .. Len(q)
          PROVE  \E y \in j .. FirstOf(r) - 1 : x[i] = Mark(m, y)
          BY <1>2, <1>3
    <1>9. ASSUME NEW i \in 1 .. Len(x)
          PROVE  \E y \in j .. hi - 1 : x[i] = Mark(m, y)
      <2>1. CASE i \in 1 .. Len(q)
        <3>1. PICK y \in j .. FirstOf(r) - 1 : x[i] = Mark(m, y)
              BY <1>8, <2>1
        <3>2. y \in j .. hi - 1
              BY <1>1
        <3>3. QED
              BY <3>1, <3>2
      <2>2. CASE i - Len(q) \in 1 .. n
            BY <1>7, <2>2
      <2>3. QED
            BY <1>6, <2>1, <2>2
    <1>10. ASSUME NEW a \in 1 .. Len(x), NEW b \in 1 .. Len(x), a < b
           PROVE  x[a] < x[b]
      <2>1. CASE b \in 1 .. Len(q)
            BY <1>2, <1>3, <1>4, <1>10, <2>1
      <2>2. CASE a \in 1 .. Len(q) /\ b - Len(q) \in 1 .. n
        <3>1. PICK y \in j .. FirstOf(r) - 1 : x[a] = Mark(m, y)
              BY <1>8, <2>2
        <3> DEFINE z == lo + (b - Len(q)) - 1
        <3>2. x[b] = Mark(m, z)
              BY <1>7, <2>2
        <3>3. y \in Nat /\ z \in Nat /\ y < z
              BY <1>1, <1>4, <1>5, <2>2
        <3> HIDE DEF z
        <3>4. QED
              BY <3>1, <3>2, <3>3, MarkFacts
      <2>3. CASE a - Len(q) \in 1 .. n /\ b - Len(q) \in 1 .. n
        <3> DEFINE y == lo + (a - Len(q)) - 1
                   z == lo + (b - Len(q)) - 1
        <3>1. x[a] = Mark(m, y) /\ x[b] = Mark(m, z)
              BY <1>7, <2>3
        <3>2. y \in Nat /\ z \in Nat /\ y < z
              BY <1>4, <1>5, <1>10, <2>3
        <3> HIDE DEF y, z
        <3>3. QED
              BY <3>1, <3>2, MarkFacts
      <2>4. QED
            BY <1>4, <1>6, <1>10, <2>1, <2>2, <2>3
    <1>11. Marks(m, x, j, hi)
           BY <1>9, <1>10 DEF Marks
    <1>12. QED
           BY <1>11 DEF x, hi

\* The head of a run is its first mark, and the rest runs on.
LEMMA RunTail ==
    ASSUME NEW m, NEW lo \in Nat, NEW hi \in Nat
    PROVE  /\ Run(m, lo, hi) = <<>> <=> hi <= lo
           /\ lo < hi => Head(Run(m, lo, hi)) = Mark(m, lo) /\ Tail(Run(m, lo, hi)) = Run(m, lo + 1, hi)
    <1> DEFINE s == Run(m, lo, hi)
               t == Tail(s)
    <1>1. /\ s \in Seq(Nat) /\ Len(s) = IF lo < hi THEN hi - lo ELSE 0
          /\ \A i \in 1 .. Len(s) : s[i] = Mark(m, lo + i - 1)
          BY RunFacts
    <1> HIDE DEF s
    <1>2. s = <<>> <=> hi <= lo
          BY <1>1
    <1>3. ASSUME lo < hi
          PROVE  Head(s) = Mark(m, lo) /\ t = Run(m, lo + 1, hi)
      <2>1. s # <<>> /\ 1 \in 1 .. Len(s) /\ lo + 1 - 1 = lo
            BY <1>1, <1>2, <1>3
      <2>2. Head(s) = s[1] /\ t \in Seq(Nat) /\ Len(t) = Len(s) - 1
            /\ \A i \in 1 .. Len(s) - 1 : t[i] = s[i + 1]
            BY <1>1, <2>1
      <2> HIDE DEF t
      <2>3. Head(s) = Mark(m, lo)
            BY <1>1, <2>1, <2>2
      <2>4. Len(t) = IF lo + 1 < hi THEN hi - (lo + 1) ELSE 0
            BY <1>1, <1>3, <2>2
      <2>5. ASSUME NEW i \in 1 .. Len(t)
            PROVE  t[i] = Mark(m, (lo + 1) + i - 1)
        <3>1. i + 1 \in 1 .. Len(s) /\ i \in 1 .. Len(s) - 1 /\ lo + (i + 1) - 1 = (lo + 1) + i - 1
              BY <1>1, <1>3, <2>2
        <3>2. QED
              BY <1>1, <2>2, <3>1
      <2>6. lo + 1 \in Nat
            OBVIOUS
      <2>7. QED
            BY <2>2, <2>3, <2>4, <2>5, <2>6, RunIs
    <1>4. QED
          BY <1>2, <1>3 DEF s, t

\* The head of marks is one of them, and the others come later.
LEMMA MarksTail ==
    ASSUME NEW m, NEW lo \in Nat, NEW hi \in Nat, NEW q \in Seq(Nat), q # <<>>, Marks(m, q, lo, hi)
    PROVE  \E x \in lo .. hi - 1 : Head(q) = Mark(m, x) /\ Marks(m, Tail(q), x + 1, hi)
    <1> DEFINE t == Tail(q)
    <1>1. /\ Head(q) = q[1] /\ Len(t) = Len(q) - 1 /\ Len(q) \in Nat /\ 1 \in 1 .. Len(q)
          /\ \A i \in 1 .. Len(q) - 1 : t[i] = q[i + 1]
          OBVIOUS
    <1> HIDE DEF t
    <1>2. /\ \A i \in 1 .. Len(q) : \E x \in lo .. hi - 1 : q[i] = Mark(m, x)
          /\ \A i, k \in 1 .. Len(q) : i < k => q[i] < q[k]
          BY DEF Marks
    <1>3. PICK x \in lo .. hi - 1 : q[1] = Mark(m, x)
          BY <1>1, <1>2
    <1>4. ASSUME NEW i \in 1 .. Len(t)
          PROVE  \E y \in x + 1 .. hi - 1 : t[i] = Mark(m, y)
      <2>1. i + 1 \in 1 .. Len(q) /\ t[i] = q[i + 1] /\ 1 < i + 1
            BY <1>1
      <2>2. PICK y \in lo .. hi - 1 : q[i + 1] = Mark(m, y)
            BY <1>2, <2>1
      <2>3. Mark(m, x) < Mark(m, y)
            BY <1>1, <1>2, <1>3, <2>1, <2>2
      <2>4. x \in Nat /\ y \in Nat
            OBVIOUS
      <2>5. x < y
            BY <2>3, <2>4, MarkFacts
      <2>6. y \in x + 1 .. hi - 1
            BY <2>4, <2>5
      <2>7. QED
            BY <2>1, <2>2, <2>6
    <1>5. ASSUME NEW i \in 1 .. Len(t), NEW k \in 1 .. Len(t), i < k
          PROVE  t[i] < t[k]
      <2>1. i + 1 \in 1 .. Len(q) /\ k + 1 \in 1 .. Len(q) /\ i + 1 < k + 1
            BY <1>1, <1>5
      <2>2. t[i] = q[i + 1] /\ t[k] = q[k + 1]
            BY <1>1
      <2>3. QED
            BY <1>2, <2>1, <2>2
    <1>6. Marks(m, t, x + 1, hi)
          BY <1>4, <1>5 DEF Marks
    <1>7. QED
          BY <1>1, <1>3, <1>6 DEF t

---------------------------------------------------------------------------
(* Frames on their way *)

\* Taking the head off a sequence moves the others down by one.
LEMMA TailFacts ==
    ASSUME NEW S, NEW s \in Seq(S), s # <<>>
    PROVE  /\ Tail(s) \in Seq(S) /\ Len(Tail(s)) = Len(s) - 1 /\ Len(s) \in Nat /\ Len(s) >= 1
           /\ Head(s) \in S /\ Head(s) = s[1]
           /\ \A j \in 1 .. Len(s) - 1 : Tail(s)[j] = s[j + 1]
    OBVIOUS

\* Appending adds one element at the end.
LEMMA AppendFacts ==
    ASSUME NEW S, NEW s \in Seq(S), NEW x \in S
    PROVE  /\ Append(s, x) \in Seq(S) /\ Len(Append(s, x)) = Len(s) + 1 /\ Len(s) \in Nat
           /\ Append(s, x)[Len(s) + 1] = x
           /\ \A j \in 1 .. Len(s) : Append(s, x)[j] = s[j]
    OBVIOUS

\* A new frame keeps the order when it is the newest of its stream.
LEMMA OrderAppend ==
    ASSUME NEW s \in Seq(Pdu), NEW p \in Pdu, InOrder(s),
           p.kind # "other" => \A i \in 1 .. Len(s) : s[i].kind = p.kind => s[i].no < p.no
    PROVE  InOrder(Append(s, p))
    <1> DEFINE t == Append(s, p)
    <1>1. Len(t) = Len(s) + 1 /\ Len(s) \in Nat /\ t[Len(s) + 1] = p
          /\ \A j \in 1 .. Len(s) : t[j] = s[j]
          BY AppendFacts
    <1> HIDE DEF t
    <1>2. ASSUME NEW i \in 1 .. Len(t), NEW j \in 1 .. Len(t), i < j,
                 t[i].kind = t[j].kind, t[i].kind # "other"
          PROVE  t[i].no < t[j].no
      <2>1. i \in 1 .. Len(s) /\ (j \in 1 .. Len(s) \/ j = Len(s) + 1)
            BY <1>1, <1>2
      <2>2. CASE j \in 1 .. Len(s)
            BY <1>1, <1>2, <2>1, <2>2 DEF InOrder
      <2>3. CASE j = Len(s) + 1
            BY <1>1, <1>2, <2>1, <2>3
      <2>4. QED
            BY <2>1, <2>2, <2>3
    <1>3. QED
          BY <1>2 DEF InOrder, t

\* The others keep the order when the first frame goes.
LEMMA OrderTail ==
    ASSUME NEW s \in Seq(Pdu), s # <<>>, InOrder(s)
    PROVE  InOrder(Tail(s))
    <1> DEFINE t == Tail(s)
    <1>1. Len(t) = Len(s) - 1 /\ Len(s) \in Nat /\ \A j \in 1 .. Len(s) - 1 : t[j] = s[j + 1]
          BY TailFacts
    <1> HIDE DEF t
    <1>2. ASSUME NEW i \in 1 .. Len(t), NEW j \in 1 .. Len(t), i < j,
                 t[i].kind = t[j].kind, t[i].kind # "other"
          PROVE  t[i].no < t[j].no
      <2>1. i + 1 \in 1 .. Len(s) /\ j + 1 \in 1 .. Len(s) /\ i + 1 < j + 1
            /\ t[i] = s[i + 1] /\ t[j] = s[j + 1]
            BY <1>1, <1>2
      <2>2. QED
            BY <1>2, <2>1 DEF InOrder
    <1>3. QED
          BY <1>2 DEF InOrder, t

\* A frame of another kind does not matter to what is awaited.
LEMMA AwaitsOther ==
    ASSUME NEW s \in Seq(Pdu), NEW p \in Pdu, NEW kind, p.kind # kind, NEW r, NEW n,
           Awaits(s, kind, r, n)
    PROVE  Awaits(Append(s, p), kind, r, n)
    <1> DEFINE t == Append(s, p)
    <1>1. Len(t) = Len(s) + 1 /\ Len(s) \in Nat /\ t[Len(s) + 1] = p
          /\ \A j \in 1 .. Len(s) : t[j] = s[j]
          BY AppendFacts
    <1> HIDE DEF t
    <1>2. /\ \A j \in 1 .. Len(t) : j \in 1 .. Len(s) \/ j = Len(s) + 1
          /\ \A j \in 1 .. Len(s) : j \in 1 .. Len(t)
          BY <1>1
    <1>3. ASSUME NEW k \in Nat
          PROVE  (\E i \in 1 .. Len(t) : t[i].kind = kind /\ t[i].no = k)
                    <=> \E i \in 1 .. Len(s) : s[i].kind = kind /\ s[i].no = k
          BY <1>1, <1>2
    <1>4. QED
          BY <1>3 DEF Awaits, t

\* The newest frame of a kind is awaited behind the others.
LEMMA AwaitsNew ==
    ASSUME NEW s \in Seq(Pdu), NEW p \in Pdu, NEW r \in Nat, NEW n \in Int,
           Awaits(s, p.kind, r, n), p.no = n + 1, r <= n + 1
    PROVE  Awaits(Append(s, p), p.kind, r, n + 1)
    <1> DEFINE t == Append(s, p)
    <1>1. Len(t) = Len(s) + 1 /\ Len(s) \in Nat /\ t[Len(s) + 1] = p
          /\ \A j \in 1 .. Len(s) : t[j] = s[j]
          BY AppendFacts
    <1> HIDE DEF t
    <1>2. /\ \A j \in 1 .. Len(t) : j \in 1 .. Len(s) \/ j = Len(s) + 1
          /\ \A j \in 1 .. Len(s) : j \in 1 .. Len(t)
          /\ Len(s) + 1 \in 1 .. Len(t)
          BY <1>1
    <1>3. ASSUME NEW k \in Nat
          PROVE  (\E i \in 1 .. Len(t) : t[i].kind = p.kind /\ t[i].no = k)
                    <=> (k = n + 1 \/ \E i \in 1 .. Len(s) : s[i].kind = p.kind /\ s[i].no = k)
      <2>1. ASSUME NEW i \in 1 .. Len(t), t[i].kind = p.kind, t[i].no = k
            PROVE  k = n + 1 \/ \E j \in 1 .. Len(s) : s[j].kind = p.kind /\ s[j].no = k
        <3>1. CASE i \in 1 .. Len(s)
              BY <1>1, <2>1, <3>1
        <3>2. CASE i = Len(s) + 1
              BY <1>1, <2>1, <3>2
        <3>3. QED
              BY <1>2, <3>1, <3>2
      <2>2. ASSUME NEW i \in 1 .. Len(s), s[i].kind = p.kind, s[i].no = k
            PROVE  \E j \in 1 .. Len(t) : t[j].kind = p.kind /\ t[j].no = k
            BY <1>1, <1>2, <2>2
      <2>3. ASSUME k = n + 1
            PROVE  \E j \in 1 .. Len(t) : t[j].kind = p.kind /\ t[j].no = k
            BY <1>1, <1>2, <2>3
      <2>4. QED
            BY <2>1, <2>2, <2>3
    <1>4. \A k \in Nat : k \in r .. n + 1 <=> k = n + 1 \/ k \in r .. n
          OBVIOUS
    <1>5. QED
          BY <1>3, <1>4 DEF Awaits, t

\* A frame of another kind can go.
LEMMA AwaitsTailOther ==
    ASSUME NEW s \in Seq(Pdu), s # <<>>, NEW kind, Head(s).kind # kind, NEW r, NEW n,
           Awaits(s, kind, r, n)
    PROVE  Awaits(Tail(s), kind, r, n)
    <1> DEFINE t == Tail(s)
    <1>1. Len(t) = Len(s) - 1 /\ Len(s) \in Nat /\ \A j \in 1 .. Len(s) - 1 : t[j] = s[j + 1]
          BY TailFacts
    <1>2. s[1].kind # kind
          BY TailFacts
    <1> HIDE DEF t
    <1>3. /\ \A j \in 1 .. Len(t) : t[j] = s[j + 1] /\ j + 1 \in 1 .. Len(s)
          /\ \A j \in 1 .. Len(s) : j # 1 => j - 1 \in 1 .. Len(t) /\ t[j - 1] = s[j]
          BY <1>1
    <1>4. ASSUME NEW k \in Nat
          PROVE  (\E i \in 1 .. Len(t) : t[i].kind = kind /\ t[i].no = k)
                    <=> \E i \in 1 .. Len(s) : s[i].kind = kind /\ s[i].no = k
          BY <1>2, <1>3
    <1>5. QED
          BY <1>4 DEF Awaits, t

\* The first of a kind to arrive is the one awaited next.
LEMMA AwaitsTail ==
    ASSUME NEW s \in Seq(Pdu), s # <<>>, InOrder(s), Head(s).kind # "other",
           NEW r \in Nat, NEW n \in Int, Awaits(s, Head(s).kind, r, n)
    PROVE  Head(s).no = r /\ r <= n /\ Awaits(Tail(s), Head(s).kind, r + 1, n)
    <1> DEFINE t == Tail(s)
               p == Head(s)
    <1>1. /\ Len(t) = Len(s) - 1 /\ Len(s) \in Nat /\ \A j \in 1 .. Len(s) - 1 : t[j] = s[j + 1]
          /\ p = s[1] /\ p \in Pdu /\ 1 \in 1 .. Len(s)
          BY TailFacts
    <1> HIDE DEF t, p
    <1>2. p.kind # "other" /\ Awaits(s, p.kind, r, n) /\ p.no \in Nat
          BY <1>1 DEF p, Pdu
    <1>3. \A k \in Nat : k \in r .. n <=> \E i \in 1 .. Len(s) : s[i].kind = p.kind /\ s[i].no = k
          BY <1>2 DEF Awaits
    <1>4. p.no \in r .. n
          BY <1>1, <1>2, <1>3
    <1>5. \A i \in 1 .. Len(s) : i # 1 /\ s[i].kind = p.kind => p.no < s[i].no
          BY <1>1, <1>2 DEF InOrder
    <1>6. PICK i \in 1 .. Len(s) : s[i].kind = p.kind /\ s[i].no = r
      <2>1. r \in r .. n
            BY <1>4
      <2>2. QED
            BY <1>3, <2>1
    <1>7. p.no = r
          BY <1>1, <1>4, <1>5, <1>6
    <1>8. /\ \A j \in 1 .. Len(t) : t[j] = s[j + 1] /\ j + 1 \in 1 .. Len(s) /\ j + 1 # 1
          /\ \A j \in 1 .. Len(s) : j # 1 => j - 1 \in 1 .. Len(t) /\ t[j - 1] = s[j]
          BY <1>1
    <1>9. ASSUME NEW k \in Nat
          PROVE  (\E j \in 1 .. Len(t) : t[j].kind = p.kind /\ t[j].no = k)
                    <=> k # r /\ \E j \in 1 .. Len(s) : s[j].kind = p.kind /\ s[j].no = k
      <2>1. ASSUME NEW j \in 1 .. Len(t), t[j].kind = p.kind, t[j].no = k
            PROVE  k # r /\ \E l \in 1 .. Len(s) : s[l].kind = p.kind /\ s[l].no = k
        <3>1. j + 1 \in 1 .. Len(s) /\ j + 1 # 1 /\ s[j + 1].kind = p.kind /\ s[j + 1].no = k
              BY <1>8, <2>1
        <3>2. p.no < k
              BY <1>5, <3>1
        <3>3. QED
              BY <1>7, <3>1, <3>2
      <2>2. ASSUME NEW j \in 1 .. Len(s), s[j].kind = p.kind, s[j].no = k, k # r
            PROVE  \E l \in 1 .. Len(t) : t[l].kind = p.kind /\ t[l].no = k
        <3>1. j # 1
              BY <1>1, <1>7, <2>2
        <3>2. QED
              BY <1>8, <2>2, <3>1
      <2>3. QED
            BY <2>1, <2>2
    <1>10. \A k \in Nat : k \in r + 1 .. n <=> k # r /\ k \in r .. n
           OBVIOUS
    <1>11. Awaits(t, p.kind, r + 1, n)
           BY <1>3, <1>9, <1>10 DEF Awaits
    <1>12. QED
           BY <1>4, <1>7, <1>11 DEF t, p

\* Behind a CRF PDU there are only newer ones.
LEMMA OlderTail ==
    ASSUME NEW s \in Seq(Pdu), s # <<>>, InOrder(s), NEW r \in Nat, NoOlder(s, r)
    PROVE  /\ NoOlder(Tail(s), r)
           /\ Head(s).kind = "crf" => Head(s).no >= r /\ NoOlder(Tail(s), Head(s).no + 1)
    <1> DEFINE t == Tail(s)
               p == Head(s)
    <1>1. /\ Len(t) = Len(s) - 1 /\ Len(s) \in Nat /\ \A j \in 1 .. Len(s) - 1 : t[j] = s[j + 1]
          /\ p = s[1] /\ p \in Pdu /\ 1 \in 1 .. Len(s)
          BY TailFacts
    <1> HIDE DEF t, p
    <1>2. \A j \in 1 .. Len(t) : t[j] = s[j + 1] /\ j + 1 \in 1 .. Len(s) /\ 1 < j + 1
          BY <1>1
    <1>3. NoOlder(t, r)
          BY <1>2 DEF NoOlder
    <1>4. ASSUME p.kind = "crf"
          PROVE  p.no >= r /\ NoOlder(t, p.no + 1)
      <2>1. p.no >= r
            BY <1>1, <1>4 DEF NoOlder
      <2>2. ASSUME NEW j \in 1 .. Len(t), t[j].kind = "crf"
            PROVE  t[j].no >= p.no + 1
        <3>1. p.no < s[j + 1].no
              BY <1>1, <1>2, <1>4, <2>2 DEF InOrder
        <3>2. s[j + 1] \in Pdu
              BY <1>2
        <3>3. p.no \in Nat /\ s[j + 1].no \in Nat
              BY <1>1, <3>2 DEF Pdu
        <3>4. QED
              BY <1>2, <3>1, <3>3
      <2>3. QED
            BY <2>1, <2>2 DEF NoOlder
    <1>5. QED
          BY <1>3, <1>4 DEF t, p

\* Frames stay honest as more is sent.
LEMMA HonestGrows ==
    ASSUME NEW m, NEW s \in Seq(Pdu), NEW c \in Nat, NEW n \in Nat, NEW S, NEW a \in Seq(S),
           AllHonest(m, s, c, a, n),
           NEW d \in Nat, c <= d, NEW k \in Nat, n <= k, NEW b \in Seq(S), Len(a) <= Len(b),
           \A i \in 1 .. Len(a) : b[i] = a[i]
    PROVE  AllHonest(m, s, d, b, k)
    <1>1. SUFFICES ASSUME NEW i \in 1 .. Len(s)
                   PROVE  Honest(m, s[i], d, b, k)
          BY DEF AllHonest
    <1>2. Honest(m, s[i], c, a, n) /\ s[i] \in Pdu
          BY DEF AllHonest
    <1>3. /\ \A x \in 0 .. c - 1 : x \in 0 .. d - 1
          /\ \A x \in 1 .. Len(a) : x \in 1 .. Len(b)
          /\ n > 0 => k > 0
          OBVIOUS
    <1>4. QED
          BY <1>2, <1>3 DEF Honest

\* A new frame is as honest as its sender.
LEMMA HonestAppend ==
    ASSUME NEW m, NEW s \in Seq(Pdu), NEW c, NEW a, NEW n, AllHonest(m, s, c, a, n),
           NEW p \in Pdu, Honest(m, p, c, a, n)
    PROVE  AllHonest(m, Append(s, p), c, a, n)
    <1> DEFINE t == Append(s, p)
    <1>1. Len(t) = Len(s) + 1 /\ Len(s) \in Nat /\ t[Len(s) + 1] = p
          /\ \A j \in 1 .. Len(s) : t[j] = s[j]
          BY AppendFacts
    <1> HIDE DEF t
    <1>2. \A j \in 1 .. Len(t) : j \in 1 .. Len(s) \/ j = Len(s) + 1
          BY <1>1
    <1>3. \A j \in 1 .. Len(t) : Honest(m, t[j], c, a, n)
          BY <1>1, <1>2 DEF AllHonest
    <1>4. QED
          BY <1>3 DEF AllHonest, t

\* The frame that arrives and those behind it are honest.
LEMMA HonestTail ==
    ASSUME NEW m, NEW s \in Seq(Pdu), s # <<>>, NEW c, NEW a, NEW n, AllHonest(m, s, c, a, n)
    PROVE  AllHonest(m, Tail(s), c, a, n) /\ Honest(m, Head(s), c, a, n) /\ Head(s) \in Pdu
           /\ Tail(s) \in Seq(Pdu)
    <1> DEFINE t == Tail(s)
    <1>1. /\ t \in Seq(Pdu) /\ Len(t) = Len(s) - 1 /\ Len(s) \in Nat /\ Len(s) >= 1
          /\ Head(s) \in Pdu /\ Head(s) = s[1]
          /\ \A j \in 1 .. Len(s) - 1 : t[j] = s[j + 1]
          BY TailFacts
    <1> HIDE DEF t
    <1>2. 1 \in 1 .. Len(s) /\ \A j \in 1 .. Len(t) : t[j] = s[j + 1] /\ j + 1 \in 1 .. Len(s)
          BY <1>1
    <1>3. Honest(m, s[1], c, a, n) /\ \A j \in 1 .. Len(t) : Honest(m, t[j], c, a, n)
          BY <1>2 DEF AllHonest
    <1>4. QED
          BY <1>1, <1>3 DEF AllHonest, t

\* The order of the streams holds up to what has been sent.
LEMMA FlightParts ==
    ASSUME Base, NEW m \in Programs
    PROVE  /\ net[m] \in Seq(Pdu) /\ InOrder(net[m])
           /\ AllHonest(m, net[m], crfSent, aaf, strays)
    BY DEF Base, Flight, TypeOK

\* Before the first CRF PDU in s there is no AAF PDU: other frames keep it so.
LEMMA CrfFirstAppend ==
    ASSUME NEW s \in Seq(Pdu), NEW p \in Pdu, CrfFirst(s),
           p.kind = "aaf" => \E k \in 1 .. Len(s) : s[k].kind = "crf"
    PROVE  CrfFirst(Append(s, p))
    <1> DEFINE t == Append(s, p)
    <1>1. Len(t) = Len(s) + 1 /\ Len(s) \in Nat /\ t[Len(s) + 1] = p
          /\ \A j \in 1 .. Len(s) : t[j] = s[j]
          BY AppendFacts
    <1> HIDE DEF t
    <1>2. ASSUME NEW i \in 1 .. Len(t), t[i].kind = "aaf"
          PROVE  \E k \in 1 .. i - 1 : t[k].kind = "crf"
      <2>1. i \in 1 .. Len(s) \/ i = Len(s) + 1
            BY <1>1
      <2>2. CASE i \in 1 .. Len(s)
        <3>1. PICK k \in 1 .. i - 1 : s[k].kind = "crf"
              BY <1>1, <1>2, <2>2 DEF CrfFirst
        <3>2. k \in 1 .. Len(s)
              BY <1>1, <2>2
        <3>3. QED
              BY <1>1, <3>1, <3>2
      <2>3. CASE i = Len(s) + 1
        <3>1. PICK k \in 1 .. Len(s) : s[k].kind = "crf"
              BY <1>1, <1>2, <2>3
        <3>2. k \in 1 .. i - 1
              BY <1>1, <2>3
        <3>3. QED
              BY <1>1, <3>1, <3>2
      <2>4. QED
            BY <2>1, <2>2, <2>3
    <1>3. QED
          BY <1>2 DEF CrfFirst, t

\* The first frame is no AAF PDU, and one that is neither can go.
LEMMA CrfFirstTail ==
    ASSUME NEW s \in Seq(Pdu), s # <<>>, CrfFirst(s)
    PROVE  Head(s).kind # "aaf" /\ (Head(s).kind # "crf" => CrfFirst(Tail(s)))
    <1> DEFINE t == Tail(s)
    <1>1. /\ Len(t) = Len(s) - 1 /\ Len(s) \in Nat /\ Len(s) >= 1
          /\ Head(s) = s[1] /\ \A j \in 1 .. Len(s) - 1 : t[j] = s[j + 1]
          BY TailFacts
    <1> HIDE DEF t
    <1>2. s[1].kind # "aaf"
      <2>1. 1 \in 1 .. Len(s) /\ 1 .. 1 - 1 = {}
            BY <1>1
      <2>2. QED
            BY <2>1 DEF CrfFirst
    <1>3. ASSUME s[1].kind # "crf", NEW i \in 1 .. Len(t), t[i].kind = "aaf"
          PROVE  \E k \in 1 .. i - 1 : t[k].kind = "crf"
      <2>1. i + 1 \in 1 .. Len(s) /\ s[i + 1].kind = "aaf"
            BY <1>1, <1>3
      <2>2. PICK k \in 1 .. (i + 1) - 1 : s[k].kind = "crf"
            BY <2>1 DEF CrfFirst
      <2>3. k # 1
            BY <1>3, <2>2
      <2>4. k - 1 \in 1 .. i - 1 /\ t[k - 1] = s[k]
        <3>1. k - 1 \in 1 .. i - 1 /\ k - 1 \in 1 .. Len(s) - 1 /\ (k - 1) + 1 = k
              BY <1>1, <2>1, <2>2, <2>3
        <3>2. QED
              BY <1>1, <3>1
      <2>5. QED
            BY <2>2, <2>4
    <1>4. QED
          BY <1>1, <1>2, <1>3 DEF CrfFirst, t

---------------------------------------------------------------------------
(* Types, the timer and the frames on their way *)

\* The time in a CRF PDU is a number.
LEMMA CrfTimeNat ==
    ASSUME NEW k \in Nat
    PROVE  CrfTime(k) \in Nat
    <1>1. FirstOf(k) * Period \in Nat /\ Start \in Nat
          BY FirstFacts, PeriodFacts, Constants
    <1>2. QED
          BY <1>1 DEF CrfTime, FirstOf

\* What the types say of the numbers.
LEMMA BaseNumbers ==
    ASSUME Base
    PROVE  /\ world \in Worlds /\ world.crf \in Nat /\ world.aaf \in Nat
           /\ crfSent \in Nat /\ crfSent <= world.crf /\ strays \in Nat
           /\ aaf \in Stamps /\ Len(aaf) \in Nat /\ Len(aaf) + burst + expired <= world.aaf
           /\ burst \in Nat /\ expired \in Nat
           /\ queue["talker"] \in Stamps /\ queue["listener"] \in Stamps
           /\ prev["talker"] \in Nat /\ prev["listener"] \in Nat
           /\ net["talker"] \in Seq(Pdu) /\ net["listener"] \in Seq(Pdu)
    BY Constants DEF Base, TypeOK, Timer, Stamps, Stamp, Programs

\* The initial state has the types and no frames.
LEMMA BaseInit ==
    ASSUME Init
    PROVE  Base
    <1>1. /\ 0 \in 0 .. Full - 1 /\ MaxStrays \in Nat /\ world.crf \in Nat /\ world.aaf \in Nat
          /\ world \in Worlds
          BY Constants DEF Init
    <1>2. TypeOK
          BY <1>1 DEF Init, TypeOK, Programs
    <1>3. Timer
          BY <1>1 DEF Init, Timer, Programs
    <1>4. Flight
      <2>1. \A m \in Programs : net[m] = <<>>
            BY DEF Init
      <2>2. QED
            BY <2>1 DEF Flight, InOrder, AllHonest
    <1>5. QED
          BY <1>2, <1>3, <1>4 DEF Base

\* A CRF PDU is sent.
LEMMA BaseCrfSend ==
    ASSUME Base, CrfSend
    PROVE  Base'
    <1> DEFINE p == [kind |-> "crf", ts |-> CrfTime(crfSent), no |-> crfSent]
    <1>1. /\ crfSent \in Nat /\ crfSent < world.crf /\ crfSent' = crfSent + 1 /\ strays \in Nat
          /\ world.crf \in Nat /\ aaf \in Stamps /\ aaf' = aaf /\ strays' = strays
          BY BaseNumbers DEF CrfSend
    <1>2. p \in Pdu
          BY <1>1, CrfTimeNat DEF Pdu
    <1>3. net' = [m \in Programs |-> Append(net[m], p)]
          BY DEF CrfSend
    <1>4. p.kind = "crf" /\ p.no = crfSent /\ p.ts = CrfTime(crfSent)
          OBVIOUS
    <1> HIDE DEF p
    <1>5. ASSUME NEW m \in Programs
          PROVE  /\ net'[m] \in Seq(Pdu) /\ InOrder(net'[m])
                 /\ AllHonest(m, net'[m], crfSent', aaf', strays')
      <2> DEFINE s == net[m]
      <2>1. s \in Seq(Pdu) /\ InOrder(s) /\ AllHonest(m, s, crfSent, aaf, strays)
            BY FlightParts
      <2>2. net'[m] = Append(s, p)
            BY <1>3
      <2> HIDE DEF s
      <2>3. \A i \in 1 .. Len(s) : s[i].kind = p.kind => s[i].no < p.no
            BY <1>1, <1>4, <2>1 DEF AllHonest, Honest
      <2>4. AllHonest(m, s, crfSent + 1, aaf, strays)
        <3>1. crfSent + 1 \in Nat /\ crfSent <= crfSent + 1 /\ strays <= strays
              /\ Len(aaf) <= Len(aaf) /\ aaf \in Seq(Stamp)
              BY <1>1 DEF Stamps
        <3>2. QED
              BY <1>1, <2>1, <3>1, HonestGrows
      <2>5. Honest(m, p, crfSent + 1, aaf, strays)
            BY <1>1, <1>4 DEF Honest
      <2>6. AllHonest(m, Append(s, p), crfSent + 1, aaf, strays)
            BY <1>2, <2>1, <2>4, <2>5, HonestAppend
      <2>7. InOrder(Append(s, p)) /\ Append(s, p) \in Seq(Pdu)
            BY <1>2, <2>1, <2>3, OrderAppend
      <2>8. QED
            BY <1>1, <2>2, <2>6, <2>7
    <1>6. Flight'
          BY <1>5 DEF Flight
    <1>7. TypeOK'
      <2>1. net' \in [Programs -> Seq(Pdu)]
            BY <1>3, <1>5
      <2>2. QED
            BY <1>1, <2>1 DEF CrfSend, TypeOK, Base, clocks, talker
    <1>8. Timer'
          BY <1>1 DEF CrfSend, Base, Timer, clocks, talker
    <1>9. QED
          BY <1>6, <1>7, <1>8 DEF Base

\* Another sender's frame.
LEMMA BaseStraySend ==
    ASSUME Base, NEW l \in Programs, NEW p \in world.strays, StraySend(l, p)
    PROVE  Base'
    <1>1. /\ p \in Pdu /\ p.kind = "other" /\ crfSent \in Nat /\ strays \in Nat /\ strays' = strays + 1
          /\ aaf \in Stamps /\ aaf' = aaf /\ crfSent' = crfSent /\ MaxStrays \in Nat
          /\ strays < MaxStrays
          BY BaseNumbers, Constants DEF StraySend, Foreign
    <1>2. net' = [net EXCEPT ![l] = Append(net[l], p)] /\ net \in [Programs -> Seq(Pdu)]
          BY DEF StraySend, Base, TypeOK
    <1>3. ASSUME NEW m \in Programs
          PROVE  /\ net'[m] \in Seq(Pdu) /\ InOrder(net'[m])
                 /\ AllHonest(m, net'[m], crfSent', aaf', strays')
      <2> DEFINE s == net[m]
      <2>1. s \in Seq(Pdu) /\ InOrder(s) /\ AllHonest(m, s, crfSent, aaf, strays)
            BY FlightParts
      <2>2. net'[m] = IF m = l THEN Append(s, p) ELSE s
            BY <1>2
      <2> HIDE DEF s
      <2>3. AllHonest(m, s, crfSent, aaf, strays + 1)
        <3>1. crfSent <= crfSent /\ strays + 1 \in Nat /\ strays <= strays + 1
              /\ Len(aaf) <= Len(aaf) /\ aaf \in Seq(Stamp)
              BY <1>1 DEF Stamps
        <3>2. QED
              BY <1>1, <2>1, <3>1, HonestGrows
      <2>4. Honest(m, p, crfSent, aaf, strays + 1)
            BY <1>1 DEF Honest
      <2>5. AllHonest(m, Append(s, p), crfSent, aaf, strays + 1)
            BY <1>1, <2>1, <2>3, <2>4, HonestAppend
      <2>6. InOrder(Append(s, p)) /\ Append(s, p) \in Seq(Pdu)
            BY <1>1, <2>1, OrderAppend
      <2>7. QED
            BY <1>1, <2>1, <2>2, <2>3, <2>5, <2>6
    <1>4. Flight'
          BY <1>3 DEF Flight
    <1>5. TypeOK'
      <2>1. net' \in [Programs -> Seq(Pdu)]
            BY <1>1, <1>2
      <2>2. QED
            BY <1>1, <2>1 DEF StraySend, TypeOK, Base, clocks, talker
    <1>6. Timer'
          BY DEF StraySend, Base, Timer, clocks, talker
    <1>7. QED
          BY <1>4, <1>5, <1>6 DEF Base

\* Where a frame arrives the others stay on their way.
LEMMA FlightTail ==
    ASSUME Base, NEW l \in Programs, net[l] # <<>>, net' = [net EXCEPT ![l] = Tail(net[l])],
           UNCHANGED <<crfSent, aaf, strays>>
    PROVE  Flight' /\ net' \in [Programs -> Seq(Pdu)]
    <1>1. net \in [Programs -> Seq(Pdu)]
          BY DEF Base, TypeOK
    <1>2. ASSUME NEW m \in Programs
          PROVE  /\ net'[m] \in Seq(Pdu) /\ InOrder(net'[m])
                 /\ AllHonest(m, net'[m], crfSent', aaf', strays')
      <2> DEFINE s == net[m]
      <2>1. s \in Seq(Pdu) /\ InOrder(s) /\ AllHonest(m, s, crfSent, aaf, strays)
            BY FlightParts
      <2>2. net'[m] = IF m = l THEN Tail(s) ELSE s
            BY <1>1
      <2>3. m = l => s # <<>>
            OBVIOUS
      <2> HIDE DEF s
      <2>4. CASE m = l
            BY <2>1, <2>2, <2>3, <2>4, HonestTail, OrderTail
      <2>5. CASE m # l
            BY <2>1, <2>2, <2>5
      <2>6. QED
            BY <2>4, <2>5
    <1>3. net' \in [Programs -> Seq(Pdu)]
          BY <1>1, <1>2
    <1>4. QED
          BY <1>2, <1>3 DEF Flight

\* A frame is lost.
LEMMA BaseLose ==
    ASSUME Base, NEW l \in Programs, Lose(l)
    PROVE  Base'
    <1>1. Flight' /\ net' \in [Programs -> Seq(Pdu)]
          BY FlightTail DEF Lose
    <1>2. lost' \subseteq {"other", "crf", "aaf"}
      <2>1. Head(net[l]) \in Pdu /\ lost \subseteq {"other", "crf", "aaf"}
        <3>1. net[l] \in Seq(Pdu) /\ net[l] # <<>>
              BY DEF Lose, Base, TypeOK
        <3>2. QED
              BY <3>1, TailFacts DEF Base, TypeOK
      <2>2. QED
            BY <2>1 DEF Lose, Pdu
    <1>3. TypeOK'
          BY <1>1, <1>2 DEF Lose, TypeOK, Base, clocks, talker
    <1>4. Timer'
          BY DEF Lose, Base, Timer, clocks, talker
    <1>5. QED
          BY <1>1, <1>3, <1>4 DEF Base

\* What recover_mclk queues are timestamps.
LEMMA RecoverType ==
    ASSUME NEW m, queue[m] \in Stamps, NEW ts \in Nat
    PROVE  recover_mclk(m, ts) \in Stamps
    <1>1. PerCrf \in Nat /\ Full \in Nat \ {0} /\ Delay(m) \in Nat /\ Period \in Nat
          BY Constants DEF Delay
    <1>2. ASSUME NEW i \in 1 .. PerCrf
          PROVE  (ts + (i - 1) * Period + Delay(m)) % Full \in Stamp
      <2>1. i - 1 \in Nat
            BY <1>1
      <2>2. (i - 1) * Period \in Nat
            BY <2>1, PeriodFacts
      <2>3. ts + (i - 1) * Period + Delay(m) \in Int
            BY <1>1, <2>2
      <2>4. QED
            BY <1>1, <2>3, ModSplit DEF Stamp
    <1>3. Entries(m, ts) \in [1 .. PerCrf -> Stamp]
          BY <1>2 DEF Entries
    <1>4. Entries(m, ts) \in Seq(Stamp)
          BY <1>1, <1>3, SeqOf
    <1>5. QED
          BY <1>4, EnqueueType DEF recover_mclk, Stamps

\* What a frame says that arrives.
LEMMA ArrivalFacts ==
    ASSUME Base, NEW m \in Programs, net[m] # <<>>
    PROVE  LET p == Head(net[m])
           IN  /\ p \in Pdu /\ p.kind \in {"other", "crf", "aaf"} /\ p.ts \in Nat /\ p.no \in Nat
               /\ p.kind = "crf" => p.no < crfSent /\ p.ts = CrfTime(p.no)
               /\ p.kind = "aaf" => m = "listener" /\ p.no \in 1 .. Len(aaf) /\ p.ts = aaf[p.no] % Low
               /\ p.kind = "other" => strays > 0
    <1> DEFINE p == Head(net[m])
    <1>1. p \in Pdu /\ Honest(m, p, crfSent, aaf, strays)
          BY FlightParts, HonestTail
    <1>2. crfSent \in Nat
          BY BaseNumbers
    <1> HIDE DEF p
    <1>3. p.kind \in {"other", "crf", "aaf"} /\ p.ts \in Nat /\ p.no \in Nat
          BY <1>1 DEF Pdu
    <1>4. p.kind = "crf" => p.no < crfSent /\ p.ts = CrfTime(p.no)
          BY <1>1, <1>2 DEF Honest
    <1>5. /\ p.kind = "aaf" => m = "listener" /\ p.no \in 1 .. Len(aaf) /\ p.ts = aaf[p.no] % Low
          /\ p.kind = "other" => strays > 0
          BY <1>1 DEF Honest
    <1>6. QED
          BY <1>1, <1>3, <1>4, <1>5 DEF p

\* The queue that aaf_talker_recv_pdu looks at.
Recovered(p) == IF p.kind = "crf" THEN recover_mclk("talker", p.ts) ELSE queue["talker"]

\* What a step of aaf_talker_recv_pdu does: the talker gets no AAF PDU.
LEMMA TalkerRecvFacts ==
    ASSUME Base, TalkerRecv
    PROVE  LET p == Head(net["talker"])
               q == Recovered(p)
           IN  /\ net["talker"] # <<>> /\ p.kind \in {"other", "crf"} /\ q \in Stamps
               /\ net' = [net EXCEPT !["talker"] = Tail(net["talker"])]
               /\ IF first /\ q = <<>>
                  THEN /\ status' = [status EXCEPT !["talker"] = "crash"]
                       /\ queue' = queue /\ first' = first
                  ELSE /\ queue' = [queue EXCEPT !["talker"] = IF first THEN Tail(q) ELSE q]
                       /\ first' = FALSE /\ status' = status
               /\ UNCHANGED <<world, crfSent, strays, prev, need, expired, burst, looking, aaf,
                              verdicts, lost>>
    <1> DEFINE p == Head(net["talker"])
               q == Recovered(p)
    <1>1. net["talker"] # <<>> /\ "talker" \in Programs
          BY DEF TalkerRecv, Programs
    <1>2. p.kind \in {"other", "crf"} /\ p.ts \in Nat
          BY <1>1, ArrivalFacts
    <1>3. q \in Stamps
      <2>1. queue["talker"] \in Stamps
            BY BaseNumbers
      <2> HIDE DEF p
      <2>2. QED
            BY <1>2, <2>1, RecoverType DEF Recovered
    <1>4. first \in BOOLEAN
          BY DEF Base, TypeOK
    <1>5. p.kind # "aaf"
          BY <1>2
    <1>6. /\ IF p.kind # "aaf" /\ first /\ q = <<>>
             THEN /\ status' = [status EXCEPT !["talker"] = "crash"]
                  /\ UNCHANGED <<queue, first>>
             ELSE /\ queue' = [queue EXCEPT !["talker"] =
                                  IF p.kind # "aaf" /\ first THEN Tail(q) ELSE q]
                  /\ first' = (first /\ p.kind = "aaf")
                  /\ UNCHANGED status
          /\ net' = [net EXCEPT !["talker"] = Tail(net["talker"])]
          /\ UNCHANGED <<world, crfSent, strays, prev, need, expired, burst, looking, aaf, verdicts, lost>>
          BY DEF TalkerRecv, Recovered
    <1> HIDE DEF p, q
    <1>7. IF first /\ q = <<>>
          THEN /\ status' = [status EXCEPT !["talker"] = "crash"]
               /\ queue' = queue /\ first' = first
          ELSE /\ queue' = [queue EXCEPT !["talker"] = IF first THEN Tail(q) ELSE q]
               /\ first' = FALSE /\ status' = status
      <2>1. CASE first /\ q = <<>>
            BY <1>5, <1>6, <2>1
      <2>2. CASE ~(first /\ q = <<>>)
        <3>1. queue' = [queue EXCEPT !["talker"] = IF p.kind # "aaf" /\ first THEN Tail(q) ELSE q]
              /\ first' = (first /\ p.kind = "aaf") /\ UNCHANGED status
              BY <1>5, <1>6, <2>2
        <3>2. first' = FALSE
              BY <1>5, <3>1
        <3>3. QED
              BY <1>5, <2>2, <3>1, <3>2
      <2>3. QED
            BY <2>1, <2>2
    <1>8. QED
          BY <1>1, <1>2, <1>3, <1>6, <1>7 DEF p, q

\* The talker receives a frame.
LEMMA BaseTalkerRecv ==
    ASSUME Base, TalkerRecv
    PROVE  Base'
    <1> DEFINE p == Head(net["talker"])
               q == Recovered(p)
    <1>1. /\ net["talker"] # <<>> /\ p.kind \in {"other", "crf"} /\ q \in Stamps
          /\ net' = [net EXCEPT !["talker"] = Tail(net["talker"])]
          /\ IF first /\ q = <<>>
             THEN /\ status' = [status EXCEPT !["talker"] = "crash"]
                  /\ queue' = queue /\ first' = first
             ELSE /\ queue' = [queue EXCEPT !["talker"] = IF first THEN Tail(q) ELSE q]
                  /\ first' = FALSE /\ status' = status
          /\ UNCHANGED <<world, crfSent, strays, prev, need, expired, burst, looking, aaf, verdicts, lost>>
          BY TalkerRecvFacts
    <1>2. Flight' /\ net' \in [Programs -> Seq(Pdu)]
          BY <1>1, FlightTail DEF Programs
    <1>3. p.kind = "crf" => crfSent > 0
          BY <1>1, ArrivalFacts, BaseNumbers DEF Programs
    <1>4. /\ status \in [Programs -> {"run", "exit", "crash"}] /\ first \in BOOLEAN
          /\ queue \in [Programs -> Stamps]
          /\ first => expired = 0 /\ burst = 0 /\ aaf = <<>> /\ queue["talker"] = <<>>
          /\ ~first => crfSent > 0
          /\ Len(aaf) + burst + expired <= world.aaf
          BY DEF Base, TypeOK, Timer, Stamps, Stamp
    <1>5. first /\ p.kind = "other" => q = <<>>
          BY <1>4 DEF Recovered
    <1> HIDE DEF p, q
    <1>6. q # <<>> => Tail(q) \in Stamps
          BY <1>1 DEF Stamps
    <1>7. queue' \in [Programs -> Stamps] /\ first' \in BOOLEAN
          /\ status' \in [Programs -> {"run", "exit", "crash"}]
          BY <1>1, <1>4, <1>6
    <1>8. TypeOK'
          BY <1>1, <1>2, <1>7 DEF Base, TypeOK, Stamps, Stamp
    <1>9. Timer'
      <2>1. CASE first /\ q = <<>>
            BY <1>1, <1>4, <2>1 DEF Timer
      <2>2. CASE ~(first /\ q = <<>>)
        <3>1. first' = FALSE /\ crfSent > 0
              BY <1>1, <1>3, <1>4, <1>5, <2>2
        <3>2. QED
              BY <1>1, <1>4, <3>1 DEF Timer
      <2>3. QED
            BY <2>1, <2>2
    <1>10. QED
           BY <1>2, <1>8, <1>9 DEF Base

\* The timer expires.
LEMMA BaseTimerExpires ==
    ASSUME Base, TimerExpires
    PROVE  Base'
    <1>1. /\ Len(aaf) \in Nat /\ burst \in Nat /\ expired \in Nat /\ world.aaf \in Nat
          /\ expired' = expired + 1 /\ Len(aaf) + burst + expired < world.aaf
          BY BaseNumbers DEF TimerExpires
    <1>2. expired' \in 0 .. world.aaf
          BY <1>1
    <1>3. TypeOK'
          BY <1>2 DEF Base, TypeOK, TimerExpires, clocks
    <1>4. Timer'
      <2>1. Len(aaf) + burst + expired' <= world.aaf
            BY <1>1
      <2>2. QED
            BY <2>1 DEF Base, Timer, TimerExpires, clocks
    <1>5. Flight'
          BY DEF Base, Flight, TimerExpires
    <1>6. QED
          BY <1>3, <1>4, <1>5 DEF Base

\* The expirations are read.
LEMMA BaseTxTimeout ==
    ASSUME Base, TxTimeout
    PROVE  Base'
    <1>1. /\ Len(aaf) \in Nat /\ expired \in Nat /\ world.aaf \in Nat
          /\ expired' = 0 /\ burst' = expired /\ burst = 0 /\ expired > 0
          /\ Len(aaf) + burst + expired <= world.aaf
          BY BaseNumbers DEF TxTimeout
    <1>2. expired' \in 0 .. world.aaf /\ burst' \in 0 .. world.aaf
          BY <1>1
    <1>3. TypeOK'
          BY <1>2 DEF Base, TypeOK, TxTimeout, clocks
    <1>4. Timer'
      <2>1. Len(aaf) + burst' + expired' <= world.aaf /\ ~first
            BY <1>1 DEF Base, Timer
      <2>2. QED
            BY <2>1 DEF Base, Timer, TxTimeout, clocks
    <1>5. Flight'
          BY DEF Base, Flight, TxTimeout
    <1>6. QED
          BY <1>3, <1>4, <1>5 DEF Base

\* The next timestamp is one, and what is left in the queue are timestamps.
LEMMA NextStampFacts ==
    ASSUME Base, NEW m \in Programs, get_next_mclk_timestamp(m)
    PROVE  /\ NextStamp(m) \in Stamp /\ NeedAfter(m) \in BOOLEAN
           /\ queue' \in [Programs -> Seq(0 .. Full - 1)] /\ prev' \in [Programs -> 0 .. Full - 1]
           /\ prev'[m] = NextStamp(m)
           /\ queue'[m] = IF queue[m] = <<>> THEN <<>> ELSE Tail(queue[m])
           /\ \A l \in Programs : l # m => queue'[l] = queue[l] /\ prev'[l] = prev[l]
    <1>1. /\ queue \in [Programs -> Stamps] /\ prev \in [Programs -> Stamp] /\ need[m] \in BOOLEAN
          BY DEF Base, TypeOK, Stamps, Stamp
    <1>2. /\ prev' = [prev EXCEPT ![m] = NextStamp(m)]
          /\ queue' = [queue EXCEPT ![m] = IF queue[m] = <<>> THEN queue[m] ELSE Tail(queue[m])]
          BY DEF get_next_mclk_timestamp
    <1>3. NextStamp(m) \in Stamp
      <2>1. CASE queue[m] = <<>>
        <3>1. prev[m] + Period \in Int /\ Full \in Nat \ {0}
              BY <1>1, Constants DEF Stamp
        <3>2. (prev[m] + Period) % Full \in Stamp
              BY <3>1, ModSplit DEF Stamp
        <3>3. QED
              BY <2>1, <3>2 DEF NextStamp
      <2>2. CASE queue[m] # <<>>
        <3>1. Head(queue[m]) \in Stamp
              BY <1>1, <2>2 DEF Stamps
        <3>2. QED
              BY <2>2, <3>1 DEF NextStamp
      <2>3. QED
            BY <2>1, <2>2
    <1>4. queue[m] # <<>> => Tail(queue[m]) \in Stamps
          BY <1>1 DEF Stamps
    <1>5. queue' \in [Programs -> Stamps] /\ prev' \in [Programs -> Stamp]
          BY <1>1, <1>2, <1>3, <1>4
    <1>6. NeedAfter(m) \in BOOLEAN
          BY <1>1 DEF NeedAfter
    <1>7. QED
          BY <1>1, <1>2, <1>3, <1>5, <1>6 DEF Stamps, Stamp

\* What a step of aaf_talker_tx_timeout does.
LEMMA TxSendFacts ==
    ASSUME Base, TxSend
    PROVE  LET x == NextStamp("talker")
               p == [kind |-> "aaf", ts |-> x % Low, no |-> Len(aaf) + 1]
           IN  /\ x \in Stamp /\ p \in Pdu /\ aaf' = Append(aaf, x)
               /\ net' = [net EXCEPT !["listener"] = Append(net["listener"], p)]
               /\ burst > 0 /\ burst' = burst - 1 /\ ~first /\ crfSent > 0 /\ Len(aaf) < world.aaf
               /\ prev'["talker"] = x
               /\ queue'["talker"] = IF queue["talker"] = <<>> THEN <<>> ELSE Tail(queue["talker"])
               /\ queue'["listener"] = queue["listener"] /\ prev'["listener"] = prev["listener"]
               /\ need'["listener"] = need["listener"] /\ status' = status
               /\ net'["talker"] = net["talker"]
               /\ UNCHANGED <<world, crfSent, strays, status, first, expired, looking, verdicts, lost>>
    <1> DEFINE x == NextStamp("talker")
               p == [kind |-> "aaf", ts |-> x % Low, no |-> Len(aaf) + 1]
    <1>1. "talker" \in Programs /\ "listener" \in Programs /\ "talker" # "listener"
          BY DEF Programs
    <1>2. /\ x \in Stamp /\ prev'["talker"] = x
          /\ queue'["talker"] = IF queue["talker"] = <<>> THEN <<>> ELSE Tail(queue["talker"])
          /\ queue'["listener"] = queue["listener"] /\ prev'["listener"] = prev["listener"]
          BY <1>1, NextStampFacts DEF TxSend
    <1>3. /\ net \in [Programs -> Seq(Pdu)] /\ need \in [Programs -> BOOLEAN]
          BY DEF Base, TypeOK
    <1>4. /\ aaf' = Append(aaf, x) /\ burst > 0 /\ burst' = burst - 1
          /\ net' = [net EXCEPT !["listener"] = Append(net["listener"], p)]
          /\ need' = [need EXCEPT !["talker"] = NeedAfter("talker")]
          /\ UNCHANGED <<world, crfSent, strays, status, first, expired, looking, verdicts, lost>>
          BY DEF TxSend
    <1>5. p \in Pdu
      <2>1. Len(aaf) + 1 \in Nat /\ x \in Int /\ Low \in Nat \ {0}
            BY <1>2, BaseNumbers, Constants DEF Stamp
      <2>2. x % Low \in 0 .. Low - 1
            BY <2>1, ModSplit
      <2> HIDE DEF x
      <2>3. x % Low \in Nat
            BY <2>1, <2>2
      <2>4. QED
            BY <2>1, <2>3 DEF Pdu
    <1>6. net'["talker"] = net["talker"] /\ need'["listener"] = need["listener"]
          BY <1>1, <1>3, <1>4
    <1>7. ~first /\ crfSent > 0
      <2>1. ~first
            BY <1>4 DEF Base, Timer
      <2>2. QED
            BY <2>1 DEF Base, Timer
    <1>8. Len(aaf) < world.aaf
          BY <1>4, BaseNumbers
    <1> HIDE DEF x, p
    <1>9. QED
          BY <1>2, <1>4, <1>5, <1>6, <1>7, <1>8 DEF x, p

\* The talker sends an AAF PDU.
LEMMA BaseTxSend ==
    ASSUME Base, TxSend
    PROVE  Base'
    <1> DEFINE x == NextStamp("talker")
               p == [kind |-> "aaf", ts |-> x % Low, no |-> Len(aaf) + 1]
    <1>1. /\ x \in Stamp /\ p \in Pdu /\ aaf' = Append(aaf, x)
          /\ net' = [net EXCEPT !["listener"] = Append(net["listener"], p)]
          /\ burst > 0 /\ burst' = burst - 1 /\ ~first /\ crfSent > 0 /\ Len(aaf) < world.aaf
          /\ UNCHANGED <<world, crfSent, strays, status, first, expired, looking, verdicts, lost>>
          BY TxSendFacts
    <1>2. /\ Len(aaf) \in Nat /\ burst \in Nat /\ expired \in Nat /\ world.aaf \in Nat
          /\ Len(aaf) + burst + expired <= world.aaf /\ aaf \in Stamps /\ crfSent \in Nat /\ strays \in Nat
          BY BaseNumbers
    <1>3. p.kind = "aaf" /\ p.no = Len(aaf) + 1 /\ p.ts = x % Low
          OBVIOUS
    <1>4. /\ queue' \in [Programs -> Seq(0 .. Full - 1)] /\ prev' \in [Programs -> 0 .. Full - 1]
          /\ NeedAfter("talker") \in BOOLEAN
          BY NextStampFacts DEF TxSend, Programs
    <1>5. need' \in [Programs -> BOOLEAN]
          BY <1>4 DEF TxSend, Base, TypeOK
    <1> HIDE DEF x, p
    <1>6. /\ aaf' \in Stamps /\ Len(aaf') = Len(aaf) + 1 /\ aaf'[Len(aaf) + 1] = x
          /\ \A i \in 1 .. Len(aaf) : aaf'[i] = aaf[i]
          BY <1>1, <1>2, AppendFacts DEF Stamps
    <1>7. ASSUME NEW m \in Programs
          PROVE  /\ net'[m] \in Seq(Pdu) /\ InOrder(net'[m])
                 /\ AllHonest(m, net'[m], crfSent', aaf', strays')
      <2> DEFINE s == net[m]
      <2>1. s \in Seq(Pdu) /\ InOrder(s) /\ AllHonest(m, s, crfSent, aaf, strays)
            BY FlightParts
      <2>2. net'[m] = IF m = "listener" THEN Append(s, p) ELSE s
            BY <1>1 DEF Base, TypeOK
      <2> HIDE DEF s
      <2>3. \A i \in 1 .. Len(s) : s[i].kind = p.kind => s[i].no < p.no
            BY <1>2, <1>3, <2>1 DEF AllHonest, Honest
      <2>4. AllHonest(m, s, crfSent, aaf', strays)
        <3>1. aaf \in Seq(Stamp) /\ aaf' \in Seq(Stamp) /\ Len(aaf) <= Len(aaf')
              /\ crfSent <= crfSent /\ strays <= strays
              BY <1>2, <1>6 DEF Stamps
        <3>2. QED
              BY <1>2, <1>6, <2>1, <3>1, HonestGrows
      <2>5. m = "listener" => Honest(m, p, crfSent, aaf', strays)
        <3>1. Len(aaf) + 1 \in 1 .. Len(aaf')
              BY <1>2, <1>6
        <3>2. QED
              BY <1>3, <1>6, <3>1 DEF Honest
      <2>6. InOrder(Append(s, p)) /\ Append(s, p) \in Seq(Pdu)
            BY <1>1, <2>1, <2>3, OrderAppend
      <2>7. m = "listener" => AllHonest(m, Append(s, p), crfSent, aaf', strays)
            BY <1>1, <2>1, <2>4, <2>5, HonestAppend
      <2>8. QED
            BY <1>1, <2>1, <2>2, <2>4, <2>6, <2>7
    <1>8. Flight'
          BY <1>7 DEF Flight
    <1>9. TypeOK'
      <2>1. net' \in [Programs -> Seq(Pdu)]
            BY <1>1, <1>7 DEF Base, TypeOK
      <2>2. burst' \in 0 .. world.aaf
            BY <1>1, <1>2
      <2>3. aaf' \in Seq(0 .. Full - 1)
            BY <1>6 DEF Stamps, Stamp
      <2>4. QED
            BY <1>1, <1>4, <1>5, <2>1, <2>2, <2>3 DEF Base, TypeOK
    <1>10. Timer'
      <2>1. Len(aaf') + burst' + expired <= world.aaf
            BY <1>1, <1>2, <1>6
      <2>2. QED
            BY <1>1, <2>1 DEF Timer
    <1>11. QED
           BY <1>8, <1>9, <1>10 DEF Base

\* What every step that takes a frame from the network leaves to the listener.
LEMMA ListenerRecvFacts ==
    ASSUME Base, ListenerRecv
    PROVE  /\ net["listener"] # <<>> /\ looking = None
           /\ net'["listener"] = Tail(net["listener"]) /\ net'["talker"] = net["talker"]
           /\ Flight' /\ net' \in [Programs -> Seq(Pdu)]
           /\ UNCHANGED <<world, crfSent, strays, status, first, expired, burst, aaf, lost>>
    <1>1. /\ net["listener"] # <<>> /\ looking = None
          /\ net' = [net EXCEPT !["listener"] = Tail(net["listener"])]
          /\ UNCHANGED <<world, crfSent, strays, status, first, expired, burst, aaf, lost>>
          BY DEF ListenerRecv, talker
    <1>2. "listener" \in Programs /\ "talker" \in Programs /\ net \in [Programs -> Seq(Pdu)]
          BY DEF Programs, Base, TypeOK
    <1>3. Flight' /\ net' \in [Programs -> Seq(Pdu)]
          BY <1>1, <1>2, FlightTail
    <1>4. QED
          BY <1>1, <1>2, <1>3

\* The listener's queue does not matter to the timer.
LEMMA BaseListener ==
    ASSUME Base, Flight', net' \in [Programs -> Seq(Pdu)],
           UNCHANGED <<world, crfSent, strays, status, first, expired, burst, aaf, lost>>,
           queue' \in [Programs -> Seq(0 .. Full - 1)], prev' \in [Programs -> 0 .. Full - 1],
           queue'["talker"] = queue["talker"],
           need' \in [Programs -> BOOLEAN], looking' \in 0 .. Low - 1 \cup {None},
           verdicts' \subseteq BOOLEAN
    PROVE  Base'
    <1>1. TypeOK'
          BY DEF Base, TypeOK
    <1>2. Timer'
          BY DEF Base, Timer
    <1>3. QED
          BY <1>1, <1>2 DEF Base

\* The listener receives a CRF PDU or drops a frame.
LEMMA BaseListenerCrf ==
    ASSUME Base, ListenerCrf
    PROVE  /\ Base'
           /\ queue'["listener"] = IF Arrived.kind = "crf" THEN recover_mclk("listener", Arrived.ts)
                                   ELSE queue["listener"]
           /\ queue'["talker"] = queue["talker"]
    <1>1. ListenerRecv /\ UNCHANGED <<prev, need, looking, verdicts>>
          /\ queue' = IF Arrived.kind = "crf"
                      THEN [queue EXCEPT !["listener"] = recover_mclk("listener", Arrived.ts)]
                      ELSE queue
          BY DEF ListenerCrf
    <1>2. /\ net["listener"] # <<>> /\ Flight' /\ net' \in [Programs -> Seq(Pdu)]
          /\ UNCHANGED <<world, crfSent, strays, status, first, expired, burst, aaf, lost>>
          BY <1>1, ListenerRecvFacts
    <1>3. queue \in [Programs -> Seq(0 .. Full - 1)] /\ "talker" \in Programs /\ "listener" \in Programs
          BY DEF Base, TypeOK, Programs
    <1>4. recover_mclk("listener", Arrived.ts) \in Seq(0 .. Full - 1)
      <2>1. Arrived.ts \in Nat
            BY <1>2, <1>3, ArrivalFacts DEF Arrived
      <2>2. QED
            BY <2>1, RecoverType, BaseNumbers DEF Stamps, Stamp
    <1>5. queue' \in [Programs -> Seq(0 .. Full - 1)] /\ queue'["talker"] = queue["talker"]
          BY <1>1, <1>3, <1>4
    <1>6. Base'
      <2>1. /\ prev' \in [Programs -> 0 .. Full - 1] /\ need' \in [Programs -> BOOLEAN]
            /\ looking' \in 0 .. Low - 1 \cup {None} /\ verdicts' \subseteq BOOLEAN
            BY <1>1 DEF Base, TypeOK
      <2>2. QED
            BY <1>2, <1>5, <2>1, BaseListener
    <1>7. QED
          BY <1>1, <1>3, <1>5, <1>6

\* A verdict is one.
LEMMA Verdict ==
    ASSUME NEW x, NEW y
    PROVE  is_ts_aligned(x, y) \in BOOLEAN
    BY DEF is_ts_aligned

\* What the listener does with an AAF PDU that is in step.
LEMMA BaseListenerAaf ==
    ASSUME Base, ListenerAaf
    PROVE  /\ Base' /\ ListenerRecv /\ Arrived.kind = "aaf" /\ ~need["listener"]
           /\ prev'["listener"] = NextStamp("listener")
           /\ queue'["listener"] =
                 IF queue["listener"] = <<>> THEN <<>> ELSE Tail(queue["listener"])
           /\ queue'["talker"] = queue["talker"] /\ prev'["talker"] = prev["talker"]
           /\ verdicts' = verdicts \cup {is_ts_aligned(NextStamp("listener"), Arrived.ts)}
           /\ looking' = looking
    <1>1. /\ ListenerRecv /\ Arrived.kind = "aaf" /\ ~need["listener"]
          /\ get_next_mclk_timestamp("listener") /\ looking' = looking
          /\ need' = [need EXCEPT !["listener"] = NeedAfter("listener")]
          /\ verdicts' = verdicts \cup {is_ts_aligned(NextStamp("listener"), Arrived.ts)}
          BY DEF ListenerAaf
    <1>2. /\ Flight' /\ net' \in [Programs -> Seq(Pdu)]
          /\ UNCHANGED <<world, crfSent, strays, status, first, expired, burst, aaf, lost>>
          BY <1>1, ListenerRecvFacts
    <1>3. /\ queue' \in [Programs -> Seq(0 .. Full - 1)] /\ prev' \in [Programs -> 0 .. Full - 1]
          /\ NeedAfter("listener") \in BOOLEAN
          /\ prev'["listener"] = NextStamp("listener")
          /\ queue'["listener"] =
                IF queue["listener"] = <<>> THEN <<>> ELSE Tail(queue["listener"])
          /\ queue'["talker"] = queue["talker"] /\ prev'["talker"] = prev["talker"]
          BY <1>1, NextStampFacts DEF Programs
    <1>4. Base'
      <2>1. need' \in [Programs -> BOOLEAN]
            BY <1>1, <1>3 DEF Base, TypeOK
      <2>2. verdicts' \subseteq BOOLEAN
            BY <1>1, Verdict DEF Base, TypeOK
      <2>3. looking' \in 0 .. Low - 1 \cup {None}
            BY <1>1 DEF Base, TypeOK
      <2>4. QED
            BY <1>2, <1>3, <2>1, <2>2, <2>3, BaseListener
    <1>5. QED
          BY <1>1, <1>3, <1>4

\* What the listener does with an AAF PDU that is out of step.
LEMMA BaseListenerLook ==
    ASSUME Base, ListenerLook
    PROVE  /\ Base' /\ ListenerRecv /\ Arrived.kind = "aaf" /\ looking' = Arrived.ts
           /\ UNCHANGED <<queue, prev, need, verdicts>>
    <1>1. /\ ListenerRecv /\ Arrived.kind = "aaf" /\ looking' = Arrived.ts
          /\ UNCHANGED <<queue, prev, need, verdicts>>
          BY DEF ListenerLook, clocks
    <1>2. /\ net["listener"] # <<>> /\ Flight' /\ net' \in [Programs -> Seq(Pdu)]
          /\ UNCHANGED <<world, crfSent, strays, status, first, expired, burst, aaf, lost>>
          BY <1>1, ListenerRecvFacts
    <1>3. looking' \in 0 .. Low - 1 \cup {None}
      <2>1. Arrived.no \in 1 .. Len(aaf) /\ Arrived.ts = aaf[Arrived.no] % Low
            BY <1>1, <1>2, ArrivalFacts DEF Arrived, Programs
      <2>2. aaf[Arrived.no] \in Stamp
            BY <2>1, BaseNumbers DEF Stamps
      <2>3. aaf[Arrived.no] \in Int /\ Low \in Nat \ {0}
            BY <2>2, Constants DEF Stamp
      <2>4. aaf[Arrived.no] % Low \in 0 .. Low - 1
            BY <2>3, ModSplit
      <2>5. QED
            BY <1>1, <2>1, <2>4
    <1>4. Base'
      <2>1. /\ queue' \in [Programs -> Seq(0 .. Full - 1)] /\ prev' \in [Programs -> 0 .. Full - 1]
            /\ need' \in [Programs -> BOOLEAN] /\ verdicts' \subseteq BOOLEAN
            /\ queue'["talker"] = queue["talker"]
            BY <1>1 DEF Base, TypeOK
      <2>2. QED
            BY <1>2, <1>3, <2>1, BaseListener
    <1>5. QED
          BY <1>1, <1>4

\* What a turn of mclk_lookup does.
LEMMA BaseLookupStep ==
    ASSUME Base, LookupStep
    PROVE  /\ Base' /\ looking # None
           /\ prev'["listener"] = NextStamp("listener")
           /\ queue'["listener"] =
                 IF queue["listener"] = <<>> THEN <<>> ELSE Tail(queue["listener"])
           /\ queue'["talker"] = queue["talker"] /\ prev'["talker"] = prev["talker"]
           /\ IF NextStamp("listener") % Low = looking
              THEN /\ looking' = None
                   /\ verdicts' = verdicts \cup {is_ts_aligned(NextStamp("listener"), looking)}
              ELSE UNCHANGED <<looking, verdicts>>
           /\ UNCHANGED <<world, crfSent, strays, net, status, first, expired, burst, aaf, lost>>
    <1>1. /\ get_next_mclk_timestamp("listener") /\ looking # None
          /\ IF NextStamp("listener") % Low = looking
             THEN /\ looking' = None
                  /\ need' = [need EXCEPT !["listener"] = FALSE]
                  /\ verdicts' = verdicts \cup {is_ts_aligned(NextStamp("listener"), looking)}
             ELSE UNCHANGED <<looking, need, verdicts>>
          /\ UNCHANGED <<world, crfSent, strays, net, status, first, expired, burst, aaf, lost>>
          BY DEF LookupStep, talker
    <1>2. /\ queue' \in [Programs -> Seq(0 .. Full - 1)] /\ prev' \in [Programs -> 0 .. Full - 1]
          /\ prev'["listener"] = NextStamp("listener")
          /\ queue'["listener"] =
                IF queue["listener"] = <<>> THEN <<>> ELSE Tail(queue["listener"])
          /\ queue'["talker"] = queue["talker"] /\ prev'["talker"] = prev["talker"]
          BY <1>1, NextStampFacts DEF Programs
    <1>3. /\ need' \in [Programs -> BOOLEAN] /\ looking' \in 0 .. Low - 1 \cup {None}
          /\ verdicts' \subseteq BOOLEAN
      <2>1. /\ need \in [Programs -> BOOLEAN] /\ looking \in 0 .. Low - 1 \cup {None}
            /\ verdicts \subseteq BOOLEAN
            BY DEF Base, TypeOK
      <2>2. CASE NextStamp("listener") % Low = looking
            BY <1>1, <2>1, <2>2, Verdict
      <2>3. CASE NextStamp("listener") % Low # looking
            BY <1>1, <2>1, <2>3
      <2>4. QED
            BY <2>2, <2>3
    <1>4. Flight' /\ net' \in [Programs -> Seq(Pdu)]
          BY <1>1 DEF Base, Flight, TypeOK
    <1>5. Base'
          BY <1>1, <1>2, <1>3, <1>4, BaseListener
    <1>6. QED
          BY <1>1, <1>2, <1>5

\* A program ends.
LEMMA BaseFails ==
    ASSUME Base, NEW m \in Programs, Fails(m)
    PROVE  Base' /\ UNCHANGED <<world, crfSent, strays, net, queue, prev, need, first, expired,
                                burst, looking, aaf, verdicts, lost>>
    <1>1. UNCHANGED <<world, crfSent, strays, net, queue, prev, need, first, expired,
                      burst, looking, aaf, verdicts, lost>>
          /\ status' = [status EXCEPT ![m] = "exit"]
          BY DEF Fails, clocks, talker
    <1>2. TypeOK'
          BY <1>1 DEF Base, TypeOK
    <1>3. Timer' /\ Flight'
          BY <1>1 DEF Base, Timer, Flight
    <1>4. QED
          BY <1>1, <1>2, <1>3 DEF Base

---------------------------------------------------------------------------
(* The AAF talker's clock *)

\* A new frame that is not older leaves it so.
LEMMA OlderAppend ==
    ASSUME NEW s \in Seq(Pdu), NEW p \in Pdu, NEW r \in Nat, NoOlder(s, r),
           p.kind = "crf" => p.no >= r
    PROVE  NoOlder(Append(s, p), r)
    <1> DEFINE t == Append(s, p)
    <1>1. Len(t) = Len(s) + 1 /\ Len(s) \in Nat /\ t[Len(s) + 1] = p
          /\ \A j \in 1 .. Len(s) : t[j] = s[j]
          BY AppendFacts
    <1> HIDE DEF t
    <1>2. \A j \in 1 .. Len(t) : j \in 1 .. Len(s) \/ j = Len(s) + 1
          BY <1>1
    <1>3. \A j \in 1 .. Len(t) : t[j].kind = "crf" => t[j].no >= r
          BY <1>1, <1>2 DEF NoOlder
    <1>4. QED
          BY <1>3 DEF NoOlder, t

\* What was so far and what is still to come of the CRF stream is all that a step
\* of others can change about the talker.
LEMMA TalkerKeeps ==
    ASSUME Base, TalkerInv, aaf' = aaf, queue'["talker"] = queue["talker"],
           prev'["talker"] = prev["talker"], first' = first,
           crfSent' \in Nat, crfSent <= crfSent',
           \A r \in 0 .. crfSent : NoOlder(net["talker"], r) => NoOlder(net'["talker"], r),
           "crf" \notin lost' =>
              "crf" \notin lost /\ \A r \in 0 .. crfSent :
                  Awaits(net["talker"], "crf", r, crfSent - 1)
                     => Awaits(net'["talker"], "crf", r, crfSent' - 1),
           strays' = 0 => strays = 0 /\ (status'["talker"] = "crash" => status["talker"] = "crash")
    PROVE  TalkerInv'
    <1>0. PICK r \in 0 .. crfSent : \E j \in 0 .. FirstOf(r) + Len(aaf) : TalkerAt(r, j)
          BY DEF TalkerInv, TalkerClock
    <1>1. PICK j \in 0 .. FirstOf(r) + Len(aaf) : TalkerAt(r, j)
          BY <1>0
    <1>2. r \in 0 .. crfSent' /\ crfSent \in Nat
          BY BaseNumbers
    <1>3. TalkerAt(r, j)'
      <2>1. NoOlder(net'["talker"], r)
            BY <1>1 DEF TalkerAt
      <2>2. "crf" \notin lost' =>
                /\ Awaits(net'["talker"], "crf", r, crfSent' - 1)
                /\ ~first => j = Len(aaf) + 1
                /\ queue["talker"] = Run("talker", j, FirstOf(r))
            BY <1>1 DEF TalkerAt
      <2>3. /\ j <= FirstOf(r) + Len(aaf) /\ Marks("talker", queue["talker"], j, FirstOf(r))
            /\ IF aaf = <<>> THEN prev["talker"] = 0 /\ (~first => queue["talker"] # <<>>)
               ELSE /\ prev["talker"] = aaf[Len(aaf)]
                    /\ j > 0 /\ prev["talker"] = Mark("talker", j - 1)
            /\ first => j = 0
            BY <1>1 DEF TalkerAt
      <2>4. QED
            BY <2>1, <2>2, <2>3 DEF TalkerAt
    <1>4. TalkerClock'
          BY <1>2, <1>3 DEF TalkerClock
    <1>5. StampsIncrease' /\ ClockContinues' /\ NeverDequeuesEmpty'
          BY DEF TalkerInv, StampsIncrease, ClockContinues, NeverDequeuesEmpty
    <1>6. QED
          BY <1>4, <1>5 DEF TalkerInv

\* The clock starts at the beginning.
LEMMA TalkerInit ==
    ASSUME Init
    PROVE  TalkerInv
    <1>1. /\ crfSent = 0 /\ aaf = <<>> /\ first = TRUE /\ queue["talker"] = <<>> /\ prev["talker"] = 0
          /\ net["talker"] = <<>> /\ status["talker"] = "run"
          BY DEF Init, Programs
    <1>2. FirstOf(0) = 0 /\ Run("talker", 0, 0) = <<>>
          BY FirstFacts DEF Run
    <1>3. TalkerAt(0, 0)
      <2>1. Marks("talker", <<>>, 0, 0) /\ NoOlder(<<>>, 0) /\ Awaits(<<>>, "crf", 0, 0 - 1)
            BY DEF Marks, NoOlder, Awaits
      <2>2. QED
            BY <1>1, <1>2, <2>1 DEF TalkerAt
    <1>4. 0 \in 0 .. crfSent /\ 0 \in 0 .. FirstOf(0) + Len(aaf)
          BY <1>1, <1>2
    <1>5. TalkerClock
          BY <1>3, <1>4 DEF TalkerClock
    <1>6. StampsIncrease /\ ClockContinues /\ NeverDequeuesEmpty
          BY <1>1 DEF StampsIncrease, ClockContinues, NeverDequeuesEmpty
    <1>7. QED
          BY <1>5, <1>6 DEF TalkerInv

\* A CRF PDU is sent to the talker.
LEMMA TalkerCrfSend ==
    ASSUME Base, TalkerInv, CrfSend
    PROVE  TalkerInv'
    <1> DEFINE p == [kind |-> "crf", ts |-> CrfTime(crfSent), no |-> crfSent]
               s == net["talker"]
    <1>1. p \in Pdu /\ p.kind = "crf" /\ p.no = crfSent /\ s \in Seq(Pdu) /\ crfSent \in Nat
          /\ crfSent' = crfSent + 1
          BY BaseNumbers, CrfTimeNat DEF Pdu, CrfSend
    <1>2. net'["talker"] = Append(s, p)
          BY DEF CrfSend, Programs
    <1>3. UNCHANGED <<aaf, queue, prev, first, lost, strays, status>>
          BY DEF CrfSend, clocks, talker
    <1> HIDE DEF p, s
    <1>4. ASSUME NEW r \in 0 .. crfSent
          PROVE  /\ NoOlder(s, r) => NoOlder(Append(s, p), r)
                 /\ Awaits(s, "crf", r, crfSent - 1) => Awaits(Append(s, p), "crf", r, crfSent)
      <2>1. p.no >= r /\ r \in Nat /\ crfSent - 1 \in Int /\ p.no = (crfSent - 1) + 1
            /\ r <= (crfSent - 1) + 1
            BY <1>1
      <2>2. ASSUME Awaits(s, "crf", r, crfSent - 1)
            PROVE  Awaits(Append(s, p), "crf", r, crfSent)
        <3>1. Awaits(s, p.kind, r, crfSent - 1)
              BY <1>1, <2>2
        <3>2. Awaits(Append(s, p), p.kind, r, (crfSent - 1) + 1)
              BY <1>1, <2>1, <3>1, AwaitsNew
        <3>3. QED
              BY <1>1, <2>1, <3>2
      <2>3. QED
            BY <1>1, <2>1, <2>2, OlderAppend
    <1>5. crfSent' - 1 = crfSent /\ crfSent' \in Nat /\ crfSent <= crfSent'
          BY <1>1
    <1>6. QED
          BY <1>2, <1>3, <1>4, <1>5, TalkerKeeps DEF s

\* Another sender's frame reaches the talker.
LEMMA TalkerStraySend ==
    ASSUME Base, TalkerInv, NEW l \in Programs, NEW p \in world.strays, StraySend(l, p)
    PROVE  TalkerInv'
    <1> DEFINE s == net["talker"]
    <1>1. p \in Pdu /\ p.kind = "other" /\ s \in Seq(Pdu) /\ crfSent \in Nat /\ strays \in Nat
          BY BaseNumbers, Constants DEF Foreign
    <1>2. net'["talker"] = IF l = "talker" THEN Append(s, p) ELSE s
          BY DEF StraySend, Base, TypeOK, Programs
    <1>3. UNCHANGED <<crfSent, aaf, queue, prev, first, lost, status>> /\ strays' = strays + 1
          BY DEF StraySend, clocks, talker
    <1> HIDE DEF s
    <1>4. ASSUME NEW r \in 0 .. crfSent
          PROVE  /\ NoOlder(s, r) => NoOlder(Append(s, p), r)
                 /\ Awaits(s, "crf", r, crfSent - 1) => Awaits(Append(s, p), "crf", r, crfSent - 1)
      <2>1. r \in Nat
            BY <1>1
      <2>2. QED
            BY <1>1, <2>1, OlderAppend, AwaitsOther
    <1>5. crfSent' \in Nat /\ crfSent <= crfSent' /\ strays' # 0
          BY <1>1, <1>3
    <1>6. QED
          BY <1>2, <1>3, <1>4, <1>5, TalkerKeeps DEF s

\* A frame to the talker is lost.
LEMMA TalkerLose ==
    ASSUME Base, TalkerInv, NEW l \in Programs, Lose(l)
    PROVE  TalkerInv'
    <1> DEFINE s == net["talker"]
    <1>1. s \in Seq(Pdu) /\ InOrder(s) /\ crfSent \in Nat
          BY FlightParts, BaseNumbers DEF Programs
    <1>2. /\ net'["talker"] = IF l = "talker" THEN Tail(s) ELSE s
          /\ lost' = lost \cup {Head(net[l]).kind} /\ (l = "talker" => s # <<>>)
          BY DEF Lose, Base, TypeOK, Programs
    <1>3. UNCHANGED <<crfSent, aaf, queue, prev, first, strays, status>>
          BY DEF Lose, clocks, talker
    <1>4. l = "talker" => Head(net[l]) = Head(s)
          OBVIOUS
    <1> HIDE DEF s
    <1>5. ASSUME NEW r \in 0 .. crfSent, l = "talker"
          PROVE  /\ NoOlder(s, r) => NoOlder(Tail(s), r)
                 /\ Head(s).kind # "crf" /\ Awaits(s, "crf", r, crfSent - 1)
                       => Awaits(Tail(s), "crf", r, crfSent - 1)
      <2>1. r \in Nat /\ s # <<>>
            BY <1>1, <1>2, <1>5
      <2>2. QED
            BY <1>1, <2>1, OlderTail, AwaitsTailOther
    <1>6. "crf" \notin lost' => "crf" \notin lost /\ (l = "talker" => Head(s).kind # "crf")
          BY <1>2, <1>4
    <1>7. crfSent' \in Nat /\ crfSent <= crfSent'
          BY <1>1, <1>3
    <1>8. QED
          BY <1>2, <1>3, <1>5, <1>6, <1>7, TalkerKeeps DEF s

\* A step that does not touch what the talker's clock depends on.
LEMMA TalkerSame ==
    ASSUME Base, TalkerInv,
           UNCHANGED <<crfSent, strays, aaf, first, lost>>, net'["talker"] = net["talker"],
           queue'["talker"] = queue["talker"], prev'["talker"] = prev["talker"],
           status'["talker"] = "crash" => status["talker"] = "crash"
    PROVE  TalkerInv'
    <1>1. crfSent' \in Nat /\ crfSent <= crfSent'
          BY BaseNumbers
    <1>2. QED
          BY <1>1, TalkerKeeps

\* Where the talker is, with its type.
LEMMA TalkerPlace ==
    ASSUME Base, TalkerInv
    PROVE  \E r \in Nat, j \in Nat : r <= crfSent /\ TalkerAt(r, j)
    <1>1. PICK r \in 0 .. crfSent : \E j \in 0 .. FirstOf(r) + Len(aaf) : TalkerAt(r, j)
          BY DEF TalkerInv, TalkerClock
    <1>2. PICK j \in 0 .. FirstOf(r) + Len(aaf) : TalkerAt(r, j)
          BY <1>1
    <1>3. r \in Nat /\ r <= crfSent /\ j \in Nat
          BY <1>1, <1>2, BaseNumbers
    <1>4. QED
          BY <1>2, <1>3

\* Whether the talker has a place is what TalkerClock says.
LEMMA TalkerPlaced ==
    ASSUME Base', NEW r \in Nat, NEW j \in Nat, r <= crfSent', TalkerAt(r, j)'
    PROVE  TalkerClock'
    <1>1. crfSent' \in Nat /\ Len(aaf') \in Nat
          BY DEF Base, TypeOK
    <1>2. FirstOf(r) \in Nat /\ j <= FirstOf(r) + Len(aaf')
          BY FirstFacts DEF TalkerAt
    <1>3. r \in 0 .. crfSent' /\ j \in 0 .. FirstOf(r) + Len(aaf')
          BY <1>1, <1>2
    <1>4. QED
          BY <1>3 DEF TalkerClock

\* The talker drops a frame, or runs into the empty queue.
LEMMA TalkerDrops ==
    ASSUME Base, TalkerInv, TalkerRecv, Head(net["talker"]).kind = "other"
    PROVE  TalkerInv'
    <1> DEFINE p == Head(net["talker"])
               s == net["talker"]
    <1>1. /\ s # <<>> /\ net' = [net EXCEPT !["talker"] = Tail(s)]
          /\ IF first /\ queue["talker"] = <<>>
             THEN /\ status' = [status EXCEPT !["talker"] = "crash"]
                  /\ queue' = queue /\ first' = first
             ELSE /\ queue' = [queue EXCEPT !["talker"] =
                                  IF first THEN Tail(queue["talker"]) ELSE queue["talker"]]
                  /\ first' = FALSE /\ status' = status
          /\ UNCHANGED <<world, crfSent, strays, prev, need, expired, burst, looking, aaf, verdicts, lost>>
          BY TalkerRecvFacts DEF Recovered
    <1>2. strays > 0 /\ strays \in Nat
          BY <1>1, ArrivalFacts, BaseNumbers DEF Programs
    <1>3. s \in Seq(Pdu) /\ InOrder(s) /\ crfSent \in Nat
          BY FlightParts, BaseNumbers DEF Programs
    <1>4. net'["talker"] = Tail(s)
          BY <1>1 DEF Base, TypeOK, Programs
    <1>5. queue'["talker"] = queue["talker"] /\ first' = first
      <2>1. queue \in [Programs -> Stamps] /\ "talker" \in Programs /\ first \in BOOLEAN
            /\ (first => queue["talker"] = <<>>)
            BY DEF Base, TypeOK, Timer, Stamps, Stamp, Programs
      <2>2. QED
            BY <1>1, <2>1
    <1>6. Head(s).kind # "crf"
          OBVIOUS
    <1> HIDE DEF s
    <1>7. \A r \in 0 .. crfSent : NoOlder(s, r) => NoOlder(Tail(s), r)
          BY <1>1, <1>3, OlderTail
    <1>8. \A r \in 0 .. crfSent :
              Awaits(s, "crf", r, crfSent - 1) => Awaits(Tail(s), "crf", r, crfSent - 1)
          BY <1>1, <1>3, <1>6, AwaitsTailOther
    <1>9. crfSent' \in Nat /\ crfSent <= crfSent' /\ strays' # 0
          BY <1>1, <1>2, <1>3
    <1>10. QED
           BY <1>1, <1>4, <1>5, <1>7, <1>8, <1>9, TalkerKeeps DEF s

\* The clock has not passed what a new CRF PDU brings.
LEMMA TalkerNext ==
    ASSUME Base, NEW r \in Nat, NEW j \in Nat, TalkerAt(r, j), NEW k \in Nat, r <= k
    PROVE  NextIs("talker", j, k)
    <1>1. /\ Marks("talker", queue["talker"], j, FirstOf(r))
          /\ IF aaf = <<>> THEN prev["talker"] = 0 /\ (~first => queue["talker"] # <<>>)
             ELSE /\ prev["talker"] = aaf[Len(aaf)]
                  /\ j > 0 /\ prev["talker"] = Mark("talker", j - 1)
          /\ first => j = 0
          BY DEF TalkerAt
    <1>2. FirstOf(r) \in Nat /\ FirstOf(k) \in Nat /\ FirstOf(r) <= FirstOf(k)
          BY FirstFacts
    <1>3. CASE aaf # <<>>
          BY <1>1, <1>3 DEF NextIs
    <1>4. CASE aaf = <<>> /\ first
      <2>1. prev["talker"] = 0 /\ j = 0
            BY <1>1, <1>4
      <2>2. j <= FirstOf(k)
            BY <1>2, <2>1
      <2>3. QED
            BY <2>1, <2>2 DEF NextIs
    <1>5. CASE aaf = <<>> /\ ~first
      <2>1. queue["talker"] # <<>> /\ queue["talker"] \in Stamps
            BY <1>1, <1>5, BaseNumbers
      <2>2. 1 \in 1 .. Len(queue["talker"])
            BY <2>1 DEF Stamps
      <2>3. PICK x \in j .. FirstOf(r) - 1 : queue["talker"][1] = Mark("talker", x)
            BY <1>1, <2>2 DEF Marks
      <2>4. j <= FirstOf(k)
            BY <1>2, <2>3
      <2>5. prev["talker"] = 0
            BY <1>1, <1>5
      <2>6. QED
            BY <2>4, <2>5 DEF NextIs
    <1>6. QED
          BY <1>3, <1>4, <1>5

\* Timestamps are numbers.
LEMMA StampsNat ==
    ASSUME NEW q \in Stamps
    PROVE  q \in Seq(Nat)
    BY Constants DEF Stamps, Stamp

\* What recover_mclk leaves in the talker's queue.
LEMMA TalkerRecovers ==
    ASSUME Base, NEW r \in Nat, NEW j \in Nat, TalkerAt(r, j),
           NEW k \in Nat, r <= k, k < crfSent, NEW q, q = recover_mclk("talker", CrfTime(k))
    PROVE  /\ q \in Stamps /\ Marks("talker", q, j, FirstOf(k + 1))
           /\ Len(q) = Len(queue["talker"]) + Span(Later(j, FirstOf(k)), FirstOf(k + 1))
           /\ k = r /\ queue["talker"] = Run("talker", j, FirstOf(r))
                 => q = Run("talker", j, FirstOf(k + 1))
    <1>1. world \in Worlds /\ k < world.crf /\ queue["talker"] \in Stamps
          BY BaseNumbers
    <1>2. NextIs("talker", j, k)
          BY TalkerNext
    <1>3. Marks("talker", queue["talker"], j, FirstOf(r))
          BY DEF TalkerAt
    <1>4. q \in Stamps /\ Added(q, queue["talker"], "talker", Later(j, FirstOf(k)), FirstOf(k + 1))
          BY <1>1, <1>2, Recovers
    <1>5. Marks("talker", q, j, FirstOf(k + 1))
          BY <1>1, <1>2, <1>3, RecoverMarks
    <1>6. k = r /\ queue["talker"] = Run("talker", j, FirstOf(r)) => q = Run("talker", j, FirstOf(k + 1))
          BY <1>1, <1>2, RecoverRun
    <1>7. QED
          BY <1>4, <1>5, <1>6 DEF Added

\* The CRF PDU that arrives is not older than those seen, and while none is lost
\* it is the next.
LEMMA TalkerArrival ==
    ASSUME Base, NEW r \in Nat, NEW j \in Nat, TalkerAt(r, j), net["talker"] # <<>>,
           Head(net["talker"]).kind = "crf", NEW k, k = Head(net["talker"]).no
    PROVE  /\ k \in Nat /\ r <= k /\ k < crfSent /\ NoOlder(Tail(net["talker"]), k + 1)
           /\ "crf" \notin lost => k = r /\ Awaits(Tail(net["talker"]), "crf", k + 1, crfSent - 1)
    <1> DEFINE s == net["talker"]
    <1>1. s \in Seq(Pdu) /\ InOrder(s) /\ s # <<>> /\ crfSent \in Nat /\ Head(s).kind = "crf"
          /\ k = Head(s).no
          BY FlightParts, BaseNumbers DEF Programs
    <1>2. k \in Nat /\ k < crfSent
          BY ArrivalFacts DEF Programs
    <1>3. NoOlder(s, r) /\ ("crf" \notin lost => Awaits(s, "crf", r, crfSent - 1))
          BY DEF TalkerAt
    <1> HIDE DEF s
    <1>4. r <= k /\ NoOlder(Tail(s), k + 1)
          BY <1>1, <1>2, <1>3, OlderTail
    <1>5. ASSUME "crf" \notin lost
          PROVE  k = r /\ Awaits(Tail(s), "crf", k + 1, crfSent - 1)
      <2>1. Head(s).kind # "other" /\ crfSent - 1 \in Int /\ Awaits(s, Head(s).kind, r, crfSent - 1)
            BY <1>1, <1>3, <1>5
      <2>2. Head(s).no = r /\ Awaits(Tail(s), Head(s).kind, r + 1, crfSent - 1)
            BY <1>1, <2>1, AwaitsTail
      <2>3. QED
            BY <1>1, <2>2
    <1>6. QED
          BY <1>2, <1>4, <1>5 DEF s

\* The talker recovers its clock from a CRF PDU.
LEMMA TalkerCrf ==
    ASSUME Base, TalkerInv, TalkerRecv, Head(net["talker"]).kind = "crf"
    PROVE  TalkerInv'
    <1> DEFINE p == Head(net["talker"])
               q == recover_mclk("talker", p.ts)
               old == queue["talker"]
    <1>1. /\ net["talker"] # <<>> /\ net' = [net EXCEPT !["talker"] = Tail(net["talker"])]
          /\ IF first /\ q = <<>>
             THEN /\ status' = [status EXCEPT !["talker"] = "crash"]
                  /\ queue' = queue /\ first' = first
             ELSE /\ queue' = [queue EXCEPT !["talker"] = IF first THEN Tail(q) ELSE q]
                  /\ first' = FALSE /\ status' = status
          /\ UNCHANGED <<world, crfSent, strays, prev, need, expired, burst, looking, aaf, verdicts, lost>>
          BY TalkerRecvFacts DEF Recovered
    <1>2. PICK r \in Nat, j \in Nat : r <= crfSent /\ TalkerAt(r, j)
          BY TalkerPlace
    <1>0. PICK k \in Nat : k = p.no
          BY <1>1, <1>2, TalkerArrival
    <1>3. /\ k \in Nat /\ r <= k /\ k < crfSent /\ NoOlder(Tail(net["talker"]), k + 1)
          /\ "crf" \notin lost => k = r /\ Awaits(Tail(net["talker"]), "crf", k + 1, crfSent - 1)
          BY <1>0, <1>1, <1>2, TalkerArrival
    <1>4. p.ts = CrfTime(k)
          BY <1>0, <1>1, ArrivalFacts DEF Programs
    <1>5. /\ q \in Stamps /\ Marks("talker", q, j, FirstOf(k + 1))
          /\ Len(q) = Len(old) + Span(Later(j, FirstOf(k)), FirstOf(k + 1))
          /\ k = r /\ old = Run("talker", j, FirstOf(r)) => q = Run("talker", j, FirstOf(k + 1))
      <2>1. q = recover_mclk("talker", CrfTime(k))
            BY <1>4
      <2> HIDE DEF q
      <2>2. QED
            BY <1>2, <1>3, <2>1, TalkerRecovers
    <1>6. /\ j <= FirstOf(r) + Len(aaf)
          /\ IF aaf = <<>> THEN prev["talker"] = 0 /\ (~first => old # <<>>)
             ELSE /\ prev["talker"] = aaf[Len(aaf)]
                  /\ j > 0 /\ prev["talker"] = Mark("talker", j - 1)
          /\ first => j = 0
          /\ "crf" \notin lost => (~first => j = Len(aaf) + 1) /\ old = Run("talker", j, FirstOf(r))
          BY <1>2 DEF TalkerAt
    <1>7. /\ first \in BOOLEAN /\ Len(aaf) \in Nat /\ old \in Stamps /\ crfSent \in Nat
          /\ first => aaf = <<>> /\ old = <<>>
          BY BaseNumbers DEF Base, TypeOK, Timer
    <1>8. net'["talker"] = Tail(net["talker"]) /\ queue \in [Programs -> Stamps] /\ "talker" \in Programs
          BY <1>1 DEF Base, TypeOK, Programs, Stamps, Stamp
    <1>9. /\ FirstOf(r) \in Nat /\ FirstOf(k) \in Nat /\ FirstOf(r) <= FirstOf(k)
          /\ FirstOf(k + 1) = FirstOf(k) + PerCrf /\ PerCrf > 1 /\ PerCrf \in Nat
          BY <1>3, FirstFacts, Constants
    <1>10. Base'
           BY BaseTalkerRecv
    <1> HIDE DEF p, q, old
    <1>11. k + 1 \in Nat /\ k + 1 <= crfSent'
           BY <1>1, <1>3, <1>7
    <1>12. q \in Seq(Nat) /\ Len(old) \in Nat
           BY <1>5, <1>7, StampsNat DEF Stamps
    <1>13. CASE first
      <2>1. j = 0 /\ aaf = <<>> /\ Len(aaf) = 0 /\ prev["talker"] = 0 /\ Len(old) = 0
            BY <1>6, <1>7, <1>13
      <2>2. Len(q) = PerCrf /\ q # <<>>
        <3>1. Span(Later(j, FirstOf(k)), FirstOf(k + 1)) = PerCrf
              BY <1>9, <2>1 DEF Span, Later
        <3>2. Len(q) = PerCrf
              BY <1>5, <1>9, <2>1, <3>1
        <3>3. QED
              BY <1>9, <3>2
      <2>3. PICK x \in j .. FirstOf(k + 1) - 1 :
                Head(q) = Mark("talker", x) /\ Marks("talker", Tail(q), x + 1, FirstOf(k + 1))
        <3>1. FirstOf(k + 1) \in Nat
              BY <1>9
        <3>2. QED
              BY <1>5, <1>12, <2>2, <3>1, MarksTail
      <2>4. queue'["talker"] = Tail(q) /\ first' = FALSE /\ status' = status
            BY <1>1, <1>8, <1>13, <2>2
      <2>5. Tail(q) # <<>>
        <3> DEFINE t == Tail(q)
        <3>1. Len(t) = Len(q) - 1
              BY <1>12, <2>2, TailFacts
        <3> HIDE DEF t
        <3>2. Len(t) # 0
              BY <1>9, <2>2, <3>1
        <3>3. t # <<>>
              BY <3>2
        <3>4. QED
              BY <3>3 DEF t
      <2>6. x \in Nat /\ x + 1 \in Nat /\ x + 1 <= FirstOf(k + 1)
            BY <1>9, <2>1, <2>3
      <2>7. ASSUME "crf" \notin lost
            PROVE  x = 0 /\ Tail(q) = Run("talker", x + 1, FirstOf(k + 1))
        <3>1. q = Run("talker", 0, FirstOf(k + 1))
              BY <1>3, <1>5, <1>6, <2>1, <2>7
        <3>2. FirstOf(k + 1) \in Nat /\ 0 < FirstOf(k + 1)
              BY <1>9
        <3>3. Head(q) = Mark("talker", 0) /\ Tail(q) = Run("talker", 0 + 1, FirstOf(k + 1))
              BY <3>1, <3>2, RunTail
        <3>4. x = 0
          <4>1. x = 0 <=> Mark("talker", x) = Mark("talker", 0)
                BY <2>6, MarkFacts
          <4>2. QED
                BY <2>3, <3>3, <4>1
        <3>5. QED
              BY <3>3, <3>4
      <2>8. TalkerAt(k + 1, x + 1)'
        <3>1. x + 1 <= FirstOf(k + 1) + Len(aaf)
              BY <1>9, <2>1, <2>6
        <3>2. "crf" \notin lost => x + 1 = Len(aaf) + 1
              BY <2>1, <2>7
        <3>3. QED
              BY <1>1, <1>3, <1>8, <2>1, <2>3, <2>4, <2>5, <2>7, <3>1, <3>2 DEF TalkerAt
      <2>9. TalkerClock'
            BY <1>10, <1>11, <2>6, <2>8, TalkerPlaced
      <2>10. StampsIncrease' /\ ClockContinues' /\ NeverDequeuesEmpty'
            BY <1>1, <2>4 DEF TalkerInv, StampsIncrease, ClockContinues, NeverDequeuesEmpty
      <2>11. QED
            BY <2>9, <2>10 DEF TalkerInv
    <1>14. CASE ~first
      <2>1. queue'["talker"] = q /\ first' = first /\ status' = status
            BY <1>1, <1>7, <1>8, <1>14
      <2>2. old # <<>> => q # <<>>
        <3>1. Span(Later(j, FirstOf(k)), FirstOf(k + 1)) \in Nat
              BY <1>9 DEF Span, Later
        <3>2. old # <<>> => Len(old) > 0
              BY <1>7 DEF Stamps
        <3>3. old # <<>> => Len(q) > 0
              BY <1>5, <1>12, <3>1, <3>2
        <3>4. QED
              BY <3>3
      <2>3. TalkerAt(k + 1, j)'
        <3>1. j <= FirstOf(k + 1) + Len(aaf)
              BY <1>6, <1>7, <1>9
        <3>2. /\ IF aaf = <<>> THEN prev["talker"] = 0 /\ (~first => q # <<>>)
                 ELSE /\ prev["talker"] = aaf[Len(aaf)]
                      /\ j > 0 /\ prev["talker"] = Mark("talker", j - 1)
              BY <1>6, <2>2
        <3>3. "crf" \notin lost => (~first => j = Len(aaf) + 1) /\ q = Run("talker", j, FirstOf(k + 1))
              BY <1>3, <1>5, <1>6
        <3>4. QED
              BY <1>1, <1>3, <1>5, <1>6, <1>8, <2>1, <3>1, <3>2, <3>3 DEF TalkerAt
      <2>4. TalkerClock'
            BY <1>10, <1>11, <2>3, TalkerPlaced
      <2>5. StampsIncrease' /\ ClockContinues' /\ NeverDequeuesEmpty'
            BY <1>1, <2>1 DEF TalkerInv, StampsIncrease, ClockContinues, NeverDequeuesEmpty
      <2>6. QED
            BY <2>4, <2>5 DEF TalkerInv
    <1>15. QED
          BY <1>7, <1>13, <1>14

\* The talker receives a frame.
LEMMA TalkerRecvs ==
    ASSUME Base, TalkerInv, TalkerRecv
    PROVE  TalkerInv'
    BY TalkerRecvFacts, TalkerDrops, TalkerCrf

\* The stamp the talker takes is a mark that it has not passed, and the next one
\* while no CRF PDU is lost.
LEMMA TalkerTakes ==
    ASSUME Base, ~first, Len(aaf) < world.aaf, NEW r \in Nat, NEW j \in Nat, r <= crfSent,
           TalkerAt(r, j),
           NEW rest, rest = IF queue["talker"] = <<>> THEN <<>> ELSE Tail(queue["talker"])
    PROVE  \E y \in Nat :
              /\ NextStamp("talker") = Mark("talker", y) /\ j <= y /\ y + 1 <= FirstOf(r) + Len(aaf) + 1
              /\ Marks("talker", rest, y + 1, FirstOf(r))
              /\ "crf" \notin lost => y = j /\ rest = Run("talker", j + 1, FirstOf(r))
    <1> DEFINE q == queue["talker"]
               x == NextStamp("talker")
    <1>1. /\ j <= FirstOf(r) + Len(aaf) /\ Marks("talker", q, j, FirstOf(r))
          /\ aaf = <<>> => q # <<>>
          /\ aaf # <<>> => j > 0 /\ prev["talker"] = Mark("talker", j - 1)
          /\ "crf" \notin lost => q = Run("talker", j, FirstOf(r))
          BY DEF TalkerAt
    <1>2. /\ q \in Seq(Nat) /\ FirstOf(r) \in Nat /\ Len(aaf) \in Nat /\ world \in Worlds
          /\ world.aaf \in Nat /\ world.crf \in Nat /\ FirstOf(world.crf) \in Nat
          /\ FirstOf(r) <= FirstOf(world.crf)
      <2>1. r <= world.crf /\ world.crf \in Nat
            BY BaseNumbers
      <2>2. QED
            BY <2>1, BaseNumbers, StampsNat, FirstFacts
    <1>3. x = IF q = <<>> THEN (prev["talker"] + Period) % Full ELSE Head(q)
          BY DEF NextStamp
    <1>4. rest = IF q = <<>> THEN <<>> ELSE Tail(q)
          OBVIOUS
    <1> HIDE DEF q, x
    <1>5. CASE q = <<>>
      <2>1. j > 0 /\ prev["talker"] = Mark("talker", j - 1) /\ j - 1 \in Nat /\ (j - 1) + 1 = j
            BY <1>1, <1>5
      <2>2. Mark("talker", j) = Mark("talker", j - 1) + Period
            BY <2>1, MarkFacts
      <2>3. j <= FirstOf(world.crf) + world.aaf
            BY <1>1, <1>2
      <2>4. Mark("talker", j) % Full = Mark("talker", j)
            BY <1>2, <2>3, MarkBound
      <2>5. x = Mark("talker", j)
            BY <1>3, <1>5, <2>1, <2>2, <2>4
      <2>6. Marks("talker", <<>>, j + 1, FirstOf(r))
            BY DEF Marks
      <2>7. ASSUME "crf" \notin lost
            PROVE  <<>> = Run("talker", j + 1, FirstOf(r))
        <3>1. FirstOf(r) <= j
              BY <1>1, <1>2, <1>5, <2>7, RunTail
        <3>2. j + 1 \in Nat /\ FirstOf(r) <= j + 1
              BY <1>2, <3>1
        <3>3. QED
              BY <1>2, <3>2, RunTail
      <2>8. j + 1 <= FirstOf(r) + Len(aaf) + 1 /\ j <= j
            BY <1>1, <1>2
      <2>9. QED
            BY <1>4, <1>5, <2>5, <2>6, <2>7, <2>8 DEF x
    <1>6. CASE q # <<>>
      <2>1. PICK y \in j .. FirstOf(r) - 1 :
                Head(q) = Mark("talker", y) /\ Marks("talker", Tail(q), y + 1, FirstOf(r))
            BY <1>1, <1>2, <1>6, MarksTail
      <2>2. y \in Nat /\ j <= y /\ y + 1 <= FirstOf(r) + Len(aaf) + 1
            BY <1>2, <2>1
      <2>3. x = Mark("talker", y) /\ rest = Tail(q)
            BY <1>3, <1>4, <1>6, <2>1
      <2>4. ASSUME "crf" \notin lost
            PROVE  y = j /\ Tail(q) = Run("talker", j + 1, FirstOf(r))
        <3>1. ~(FirstOf(r) <= j)
              BY <1>1, <1>2, <1>6, <2>4, RunTail
        <3>2. j < FirstOf(r)
              BY <1>2, <3>1
        <3>3. Head(q) = Mark("talker", j) /\ Tail(q) = Run("talker", j + 1, FirstOf(r))
          <4> DEFINE hi == FirstOf(r)
          <4>1. q = Run("talker", j, hi) /\ hi \in Nat /\ j < hi
                BY <1>1, <1>2, <2>4, <3>2
          <4> HIDE DEF hi
          <4>2. /\ Head(Run("talker", j, hi)) = Mark("talker", j)
                /\ Tail(Run("talker", j, hi)) = Run("talker", j + 1, hi)
                BY <4>1, RunTail
          <4>3. QED
                BY <4>1, <4>2 DEF hi
        <3>4. y = j <=> Mark("talker", y) = Mark("talker", j)
              BY <2>2, MarkFacts
        <3>5. QED
              BY <2>1, <3>3, <3>4
      <2>5. QED
            BY <2>1, <2>2, <2>3, <2>4 DEF x
    <1>7. QED
          BY <1>5, <1>6

\* The talker sends an AAF PDU with the next timestamp.
LEMMA TalkerSends ==
    ASSUME Base, TalkerInv, TxSend
    PROVE  TalkerInv'
    <1> DEFINE x == NextStamp("talker")
               rest == IF queue["talker"] = <<>> THEN <<>> ELSE Tail(queue["talker"])
    <1>1. /\ x \in Stamp /\ aaf' = Append(aaf, x) /\ ~first /\ Len(aaf) < world.aaf
          /\ prev'["talker"] = x /\ queue'["talker"] = rest /\ net'["talker"] = net["talker"]
          /\ UNCHANGED <<world, crfSent, strays, status, first, expired, looking, verdicts, lost>>
          BY TxSendFacts
    <1>2. PICK r \in Nat, j \in Nat : r <= crfSent /\ TalkerAt(r, j)
          BY TalkerPlace
    <1>3. PICK y \in Nat :
              /\ x = Mark("talker", y) /\ j <= y /\ y + 1 <= FirstOf(r) + Len(aaf) + 1
              /\ Marks("talker", rest, y + 1, FirstOf(r))
              /\ "crf" \notin lost => y = j /\ rest = Run("talker", j + 1, FirstOf(r))
      <2>1. rest = IF queue["talker"] = <<>> THEN <<>> ELSE Tail(queue["talker"])
            OBVIOUS
      <2> HIDE DEF rest
      <2>2. QED
            BY <1>1, <1>2, <2>1, TalkerTakes
    <1>4. /\ NoOlder(net["talker"], r)
          /\ aaf # <<>> => prev["talker"] = aaf[Len(aaf)] /\ j > 0 /\ prev["talker"] = Mark("talker", j - 1)
          /\ "crf" \notin lost => Awaits(net["talker"], "crf", r, crfSent - 1) /\ j = Len(aaf) + 1
          BY <1>1, <1>2 DEF TalkerAt
    <1>5. aaf \in Seq(Stamp) /\ Len(aaf) \in Nat /\ FirstOf(r) \in Nat
          BY BaseNumbers, FirstFacts DEF Stamps
    <1> HIDE DEF x, rest
    <1>6. /\ Len(aaf') = Len(aaf) + 1 /\ aaf'[Len(aaf) + 1] = x
          /\ \A i \in 1 .. Len(aaf) : aaf'[i] = aaf[i]
          BY <1>1, <1>5, AppendFacts
    <1>7. TalkerAt(r, y + 1)'
      <2>1. aaf' # <<>> /\ aaf'[Len(aaf')] = x
        <3>1. Len(aaf') # 0
              BY <1>5, <1>6
        <3>2. QED
              BY <1>6, <3>1
      <2>2. y + 1 > 0 /\ (y + 1) - 1 = y
            OBVIOUS
      <2>3. y + 1 <= FirstOf(r) + Len(aaf')
            BY <1>3, <1>5, <1>6
      <2>4. /\ IF aaf' = <<>> THEN prev'["talker"] = 0 /\ (~first' => queue'["talker"] # <<>>)
               ELSE /\ prev'["talker"] = aaf'[Len(aaf')]
                    /\ y + 1 > 0 /\ prev'["talker"] = Mark("talker", (y + 1) - 1)
            BY <1>1, <1>3, <2>1, <2>2
      <2>5. "crf" \notin lost => y + 1 = Len(aaf') + 1
            BY <1>3, <1>4, <1>5, <1>6
      <2>6. "crf" \notin lost => queue'["talker"] = Run("talker", y + 1, FirstOf(r))
            BY <1>1, <1>3
      <2>7. NoOlder(net'["talker"], r) /\ Marks("talker", queue'["talker"], y + 1, FirstOf(r))
            /\ ("crf" \notin lost' => Awaits(net'["talker"], "crf", r, crfSent' - 1))
            /\ lost' = lost /\ ~first'
            BY <1>1, <1>3, <1>4
      <2>8. QED
            BY <2>3, <2>4, <2>5, <2>6, <2>7 DEF TalkerAt
    <1>8. TalkerClock'
      <2>1. Base' /\ r <= crfSent' /\ y + 1 \in Nat
            BY <1>1, <1>2, BaseTxSend
      <2>2. QED
            BY <1>7, <2>1, TalkerPlaced
    <1>9. ASSUME NEW i \in 2 .. Len(aaf')
          PROVE  aaf'[i] > aaf'[i - 1] /\ (aaf'[i] - aaf'[i - 1]) % Period = 0
      <2>1. CASE i <= Len(aaf)
        <3>1. i \in 2 .. Len(aaf) /\ aaf'[i] = aaf[i] /\ aaf'[i - 1] = aaf[i - 1]
              BY <1>5, <1>6, <2>1
        <3>2. QED
              BY <3>1 DEF TalkerInv, StampsIncrease
      <2>2. CASE i > Len(aaf)
        <3>1. i = Len(aaf) + 1 /\ i - 1 = Len(aaf) /\ Len(aaf) \in 1 .. Len(aaf) /\ aaf # <<>>
              BY <1>5, <1>6, <2>2
        <3>2. aaf'[i] = Mark("talker", y) /\ aaf'[i - 1] = Mark("talker", j - 1) /\ j > 0
              BY <1>3, <1>4, <1>6, <3>1
        <3>3. j - 1 \in Nat /\ j - 1 < y /\ j - 1 <= y
              BY <1>3, <3>2
        <3>4. /\ Mark("talker", j - 1) < Mark("talker", y)
              /\ Mark("talker", j - 1) \in Nat /\ Mark("talker", y) \in Nat
              BY <3>3, MarkFacts
        <3>5. (Mark("talker", y) - Mark("talker", j - 1)) % Period = 0
              BY <3>3, MarkApart
        <3>6. aaf'[i] > aaf'[i - 1]
              BY <3>2, <3>4
        <3>7. QED
              BY <3>2, <3>5, <3>6
      <2>3. QED
            BY <1>5, <1>6, <2>1, <2>2
    <1>10. ASSUME "crf" \notin lost', NEW i \in DOMAIN aaf'
           PROVE  aaf'[i] = Start + Mtt + i * Period
      <2>1. "crf" \notin lost /\ i \in 1 .. Len(aaf')
        <3>1. aaf' \in Seq(Stamp)
              BY <1>1, <1>5, AppendFacts
        <3>2. QED
              BY <1>1, <1>10, <3>1
      <2>2. CASE i <= Len(aaf)
        <3>1. i \in DOMAIN aaf /\ aaf'[i] = aaf[i]
              BY <1>5, <1>6, <2>1, <2>2
        <3>2. QED
              BY <2>1, <3>1 DEF TalkerInv, ClockContinues
      <2>3. CASE i > Len(aaf)
        <3>1. i = Len(aaf) + 1 /\ y = i
              BY <1>3, <1>4, <1>5, <1>6, <2>1, <2>3
        <3>2. aaf'[i] = Mark("talker", i)
              BY <1>3, <1>6, <3>1
        <3>3. i \in Nat /\ Start \in Nat /\ Mtt \in Nat /\ Delay("talker") = Mtt
              BY <1>5, <3>1, Constants DEF Delay
        <3>4. i * Period \in Nat
              BY <3>3, PeriodFacts
        <3>5. QED
              BY <3>2, <3>3, <3>4 DEF Mark
      <2>4. QED
            BY <1>5, <1>6, <2>1, <2>2, <2>3
    <1>11. NeverDequeuesEmpty'
           BY <1>1 DEF TalkerInv, NeverDequeuesEmpty
    <1>12. QED
           BY <1>8, <1>9, <1>10, <1>11 DEF TalkerInv, StampsIncrease, ClockContinues

---------------------------------------------------------------------------
(* The AAF listener's clock *)

\* Where the listener is, with its type.
LEMMA ListenerPlace ==
    ASSUME Base, ListenerClock, lost = {}
    PROVE  /\ FALSE \notin verdicts
           /\ \E r \in Nat, j \in Nat, a \in Nat :
                 r <= crfSent /\ a <= Len(aaf) /\ ListenerAt(r, j, a)
    <1>1. PICK r \in 0 .. crfSent, j \in 0 .. Len(aaf) + Shift + 1, a \in 0 .. Len(aaf) :
              ListenerAt(r, j, a)
          BY DEF ListenerClock
    <1>2. Len(aaf) \in Nat /\ crfSent \in Nat /\ Shift \in Nat
          BY BaseNumbers, MarkShift
    <1>3. r \in Nat /\ j \in Nat /\ a \in Nat /\ r <= crfSent /\ a <= Len(aaf)
          BY <1>2
    <1>4. QED
          BY <1>1, <1>3 DEF ListenerClock

\* Whether it has a place, and no false verdict, is what ListenerClock says.
LEMMA ListenerPlaced ==
    ASSUME Base', NEW r \in Nat, NEW j \in Nat, NEW a \in Nat, r <= crfSent', a <= Len(aaf'),
           ListenerAt(r, j, a)', FALSE \notin verdicts'
    PROVE  ListenerClock'
    <1>1. crfSent' \in Nat /\ Len(aaf') \in Nat /\ Shift \in Nat
          BY MarkShift DEF Base, TypeOK
    <1>2. /\ a = 0 => j = 0
          /\ a > 0 /\ looking' = None => j - 1 <= a + Shift
          /\ looking' # None => j <= a + Shift
          BY DEF ListenerAt
    <1>3. j <= Len(aaf') + Shift + 1
      <2>1. CASE a = 0
            BY <1>1, <1>2, <2>1
      <2>2. CASE a > 0 /\ looking' = None
            BY <1>1, <1>2, <2>2
      <2>3. CASE looking' # None
            BY <1>1, <1>2, <2>3
      <2>4. QED
            BY <2>1, <2>2, <2>3
    <1>4. r \in 0 .. crfSent' /\ j \in 0 .. Len(aaf') + Shift + 1 /\ a \in 0 .. Len(aaf')
          BY <1>1, <1>3
    <1>5. QED
          BY <1>4 DEF ListenerClock

\* What was so far and what is still to come of the two streams is all that a step
\* of others can change about the listener.
LEMMA ListenerKeeps ==
    ASSUME Base, Base', ListenerClock, lost' = {} => lost = {}, verdicts' = verdicts,
           queue'["listener"] = queue["listener"], prev'["listener"] = prev["listener"],
           need'["listener"] = need["listener"], looking' = looking,
           crfSent <= crfSent', Len(aaf) <= Len(aaf'), \A i \in 1 .. Len(aaf) : aaf'[i] = aaf[i],
           lost' = {} =>
              /\ \A r \in Nat : r <= crfSent /\ Awaits(net["listener"], "crf", r, crfSent - 1)
                                   => Awaits(net'["listener"], "crf", r, crfSent' - 1)
              /\ \A a \in Nat : a <= Len(aaf) /\ Awaits(net["listener"], "aaf", a + 1, Len(aaf))
                                   => Awaits(net'["listener"], "aaf", a + 1, Len(aaf'))
              /\ CrfFirst(net["listener"]) /\ Awaits(net["listener"], "crf", 0, crfSent - 1)
                    => CrfFirst(net'["listener"])
    PROVE  ListenerClock'
    <1>1. CASE lost' # {}
          BY <1>1 DEF ListenerClock
    <1>2. CASE lost' = {}
      <2>1. FALSE \notin verdicts'
            BY <1>2, ListenerPlace
      <2>2. PICK r \in Nat, j \in Nat, a \in Nat :
                r <= crfSent /\ a <= Len(aaf) /\ ListenerAt(r, j, a)
            BY <1>2, ListenerPlace
      <2>3. r <= crfSent' /\ a <= Len(aaf')
        <3>1. crfSent \in Nat /\ Len(aaf) \in Nat /\ crfSent' \in Nat /\ Len(aaf') \in Nat
              BY BaseNumbers DEF Base, TypeOK
        <3>2. QED
              BY <2>2, <3>1
      <2>4. /\ Awaits(net'["listener"], "crf", r, crfSent' - 1)
            /\ Awaits(net'["listener"], "aaf", a + 1, Len(aaf'))
            /\ r = 0 => CrfFirst(net'["listener"])
            BY <1>2, <2>2 DEF ListenerAt
      <2>5. a > 0 => aaf'[a] = aaf[a]
            BY <2>2
      <2>6. /\ queue["listener"] = Run("listener", j, FirstOf(r))
            /\ prev["listener"] = IF j = 0 THEN 0 ELSE Mark("listener", j - 1)
            /\ a = 0 => j = 0 /\ need["listener"] /\ looking = None
            /\ a > 0 => r > 0
            /\ a > 0 /\ looking = None =>
                  j > 0 /\ j - 1 <= a + Shift /\ prev["listener"] % Low = aaf[a] % Low
            /\ looking # None => j <= a + Shift /\ looking = aaf[a] % Low
            BY <2>2 DEF ListenerAt
      <2>7. ListenerAt(r, j, a)'
        <3>1. CASE a = 0
              BY <2>4, <2>6, <3>1 DEF ListenerAt
        <3>2. CASE a > 0
              BY <2>4, <2>5, <2>6, <3>2 DEF ListenerAt
        <3>3. QED
              BY <3>1, <3>2
      <2>8. QED
            BY <2>1, <2>3, <2>7, ListenerPlaced
    <1>3. QED
          BY <1>1, <1>2

\* A step that does not touch what the listener's clock depends on.
LEMMA ListenerSame ==
    ASSUME Base, Base', ListenerClock, UNCHANGED <<crfSent, aaf, verdicts, looking>>,
           lost' = {} => lost = {} /\ net'["listener"] = net["listener"],
           queue'["listener"] = queue["listener"], prev'["listener"] = prev["listener"],
           need'["listener"] = need["listener"]
    PROVE  ListenerClock'
    <1>1. crfSent <= crfSent' /\ Len(aaf) <= Len(aaf')
          BY BaseNumbers
    <1>2. QED
          BY <1>1, ListenerKeeps

\* At first the listener waits for everything.
LEMMA ListenerInit ==
    ASSUME Init
    PROVE  ListenerClock
    <1>1. /\ crfSent = 0 /\ aaf = <<>> /\ queue["listener"] = <<>> /\ prev["listener"] = 0
          /\ net["listener"] = <<>> /\ need["listener"] /\ looking = None /\ verdicts = {}
          BY DEF Init, Programs
    <1>2. FirstOf(0) = 0 /\ Run("listener", 0, 0) = <<>>
          BY FirstFacts DEF Run
    <1>3. ListenerAt(0, 0, 0)
      <2>1. CrfFirst(<<>>) /\ Awaits(<<>>, "crf", 0, 0 - 1) /\ Awaits(<<>>, "aaf", 0 + 1, 0)
            BY DEF CrfFirst, Awaits
      <2>2. QED
            BY <1>1, <1>2, <2>1 DEF ListenerAt
    <1>4. Len(aaf) = 0 /\ Shift \in Nat
          BY <1>1, MarkShift
    <1>5. 0 \in 0 .. crfSent /\ 0 \in 0 .. Len(aaf) + Shift + 1 /\ 0 \in 0 .. Len(aaf)
          BY <1>1, <1>4
    <1>6. QED
          BY <1>1, <1>3, <1>5 DEF ListenerClock

\* A CRF PDU is sent to the listener.
LEMMA ListenerCrfSend ==
    ASSUME Base, ListenerClock, CrfSend
    PROVE  ListenerClock'
    <1> DEFINE p == [kind |-> "crf", ts |-> CrfTime(crfSent), no |-> crfSent]
               s == net["listener"]
    <1>1. p \in Pdu /\ p.kind = "crf" /\ p.no = crfSent /\ s \in Seq(Pdu) /\ crfSent \in Nat
          /\ crfSent' = crfSent + 1 /\ Len(aaf) \in Nat
          BY BaseNumbers, CrfTimeNat DEF Pdu, CrfSend
    <1>2. net'["listener"] = Append(s, p)
          BY DEF CrfSend, Programs
    <1>3. UNCHANGED <<aaf, queue, prev, need, looking, verdicts, lost>>
          BY DEF CrfSend, clocks, talker
    <1> HIDE DEF p, s
    <1>4. ASSUME NEW r \in Nat, r <= crfSent, Awaits(s, "crf", r, crfSent - 1)
          PROVE  Awaits(Append(s, p), "crf", r, crfSent)
      <2>1. crfSent - 1 \in Int /\ p.no = (crfSent - 1) + 1 /\ r <= (crfSent - 1) + 1
            BY <1>1, <1>4
      <2>2. Awaits(s, p.kind, r, crfSent - 1)
            BY <1>1, <1>4
      <2>3. Awaits(Append(s, p), p.kind, r, (crfSent - 1) + 1)
            BY <1>1, <2>1, <2>2, AwaitsNew
      <2>4. QED
            BY <1>1, <2>1, <2>3
    <1>5. ASSUME NEW a \in Nat, Awaits(s, "aaf", a + 1, Len(aaf))
          PROVE  Awaits(Append(s, p), "aaf", a + 1, Len(aaf))
          BY <1>1, <1>5, AwaitsOther
    <1>6. CrfFirst(s) => CrfFirst(Append(s, p))
          BY <1>1, CrfFirstAppend
    <1>7. crfSent' - 1 = crfSent /\ crfSent <= crfSent' /\ Len(aaf) <= Len(aaf')
          BY <1>1, <1>3
    <1>8. Base'
          BY BaseCrfSend
    <1>9. QED
          BY <1>2, <1>3, <1>4, <1>5, <1>6, <1>7, <1>8, ListenerKeeps DEF s

\* Another sender's frame reaches the listener.
LEMMA ListenerStraySend ==
    ASSUME Base, ListenerClock, NEW l \in Programs, NEW p \in world.strays, StraySend(l, p)
    PROVE  ListenerClock'
    <1> DEFINE s == net["listener"]
    <1>1. p \in Pdu /\ p.kind = "other" /\ s \in Seq(Pdu) /\ crfSent \in Nat /\ Len(aaf) \in Nat
          BY BaseNumbers, Constants DEF Foreign
    <1>2. net'["listener"] = IF l = "listener" THEN Append(s, p) ELSE s
          BY DEF StraySend, Base, TypeOK, Programs
    <1>3. UNCHANGED <<crfSent, aaf, queue, prev, need, looking, verdicts, lost>>
          BY DEF StraySend, clocks, talker
    <1> HIDE DEF s
    <1>4. \A r \in Nat : Awaits(s, "crf", r, crfSent - 1) => Awaits(Append(s, p), "crf", r, crfSent - 1)
          BY <1>1, AwaitsOther
    <1>5. \A a \in Nat : Awaits(s, "aaf", a + 1, Len(aaf)) => Awaits(Append(s, p), "aaf", a + 1, Len(aaf))
          BY <1>1, AwaitsOther
    <1>6. CrfFirst(s) => CrfFirst(Append(s, p))
          BY <1>1, CrfFirstAppend
    <1>7. crfSent <= crfSent' /\ Len(aaf) <= Len(aaf')
          BY <1>1, <1>3
    <1>8. Base'
          BY BaseStraySend
    <1>9. QED
          BY <1>2, <1>3, <1>4, <1>5, <1>6, <1>7, <1>8, ListenerKeeps DEF s

\* An AAF PDU is sent to the listener: CRF PDUs have been before.
LEMMA ListenerTxSend ==
    ASSUME Base, ListenerClock, TxSend
    PROVE  ListenerClock'
    <1> DEFINE x == NextStamp("talker")
               p == [kind |-> "aaf", ts |-> x % Low, no |-> Len(aaf) + 1]
               s == net["listener"]
    <1>1. /\ x \in Stamp /\ p \in Pdu /\ aaf' = Append(aaf, x)
          /\ net' = [net EXCEPT !["listener"] = Append(net["listener"], p)]
          /\ crfSent > 0
          /\ queue'["listener"] = queue["listener"] /\ prev'["listener"] = prev["listener"]
          /\ need'["listener"] = need["listener"]
          /\ UNCHANGED <<crfSent, looking, verdicts, lost>>
          BY TxSendFacts
    <1>2. p.kind = "aaf" /\ p.no = Len(aaf) + 1
          OBVIOUS
    <1>3. net'["listener"] = Append(s, p)
          BY <1>1 DEF Base, TypeOK, Programs
    <1>4. s \in Seq(Pdu) /\ crfSent \in Nat /\ Len(aaf) \in Nat /\ aaf \in Seq(Stamp)
          BY BaseNumbers DEF Stamps
    <1> HIDE DEF x, p, s
    <1>5. /\ Len(aaf') = Len(aaf) + 1 /\ \A i \in 1 .. Len(aaf) : aaf'[i] = aaf[i]
          BY <1>1, <1>4, AppendFacts
    <1>6. \A r \in Nat : Awaits(s, "crf", r, crfSent - 1) => Awaits(Append(s, p), "crf", r, crfSent - 1)
          BY <1>1, <1>2, <1>4, AwaitsOther
    <1>7. ASSUME NEW a \in Nat, a <= Len(aaf), Awaits(s, "aaf", a + 1, Len(aaf))
          PROVE  Awaits(Append(s, p), "aaf", a + 1, Len(aaf'))
      <2>1. a + 1 \in Nat /\ Len(aaf) \in Int /\ a + 1 <= Len(aaf) + 1
            BY <1>4, <1>7
      <2>2. Awaits(s, p.kind, a + 1, Len(aaf))
            BY <1>2, <1>7
      <2>3. Awaits(Append(s, p), p.kind, a + 1, Len(aaf) + 1)
            BY <1>1, <1>2, <1>4, <2>1, <2>2, AwaitsNew
      <2>4. QED
            BY <1>2, <1>5, <2>3
    <1>8. ASSUME CrfFirst(s), Awaits(s, "crf", 0, crfSent - 1)
          PROVE  CrfFirst(Append(s, p))
      <2>1. 0 \in Nat /\ 0 \in 0 .. crfSent - 1
            BY <1>1, <1>4
      <2>2. \E i \in 1 .. Len(s) : s[i].kind = "crf"
            BY <1>8, <2>1 DEF Awaits
      <2>3. QED
            BY <1>1, <1>4, <1>8, <2>2, CrfFirstAppend
    <1>9. crfSent <= crfSent' /\ Len(aaf) <= Len(aaf') /\ Base'
          BY <1>1, <1>4, <1>5, BaseTxSend
    <1>10. QED
           BY <1>1, <1>3, <1>5, <1>6, <1>7, <1>8, <1>9, ListenerKeeps DEF s

\* While nothing is lost the stamps of the AAF PDUs are marks of the listener's.
LEMMA AafMarks ==
    ASSUME Base, ClockContinues, lost = {}, NEW i \in 1 .. Len(aaf)
    PROVE  /\ aaf[i] = Mark("listener", i + Shift) /\ aaf[i] \in Nat /\ aaf[i] < Full
           /\ i + Shift \in Nat
    <1>1. aaf \in Seq(Stamp) /\ Len(aaf) \in Nat /\ Full \in Nat
          BY BaseNumbers, Constants DEF Stamps
    <1>2. aaf[i] \in Stamp /\ i \in DOMAIN aaf /\ i \in Nat
          BY <1>1
    <1>3. aaf[i] = Start + Mtt + i * Period
          BY <1>2 DEF ClockContinues
    <1>4. i * Period \in Nat /\ Start \in Nat /\ Mtt \in Nat /\ Delay("talker") = Mtt
          BY <1>2, PeriodFacts, Constants DEF Delay
    <1>5. aaf[i] = Mark("talker", i)
          BY <1>3, <1>4 DEF Mark
    <1>6. Shift \in Nat /\ Mark("talker", i) = Mark("listener", i + Shift)
          BY <1>2, MarkShift
    <1>7. aaf[i] \in Nat /\ aaf[i] < Full
          BY <1>1, <1>2 DEF Stamp
    <1>8. QED
          BY <1>2, <1>5, <1>6, <1>7

\* Where the clock agrees with the stamp in the bits of the stamp, it is aligned.
LEMMA Aligned ==
    ASSUME NEW x \in Nat, NEW y \in Nat, x % Low = y % Low
    PROVE  is_ts_aligned(y, x % Low) = TRUE
    <1>1. Low \in Nat \ {0} /\ Tolerance \in Nat
          BY Constants
    <1>2. ((x % Low) - y) % Low = 0
      <2>1. x \in Int /\ y \in Int
            OBVIOUS
      <2>2. QED
            BY <1>1, <2>1, ModDifference, Zenon
    <1>3. 0 <= Tolerance
          BY <1>1
    <1>4. is_ts_aligned(y, x % Low)
          BY <1>2, <1>3 DEF is_ts_aligned
    <1>5. QED
          BY <1>4, Verdict

\* Once there has been a CRF PDU the listener's next timestamp is its next mark,
\* be it from the queue or not.
LEMMA ListenerTakes ==
    ASSUME Base, NEW r \in Nat, NEW j \in Nat, NEW a \in Nat, ListenerAt(r, j, a), r > 0,
           Mark("listener", j) < Full,
           NEW rest, rest = IF queue["listener"] = <<>> THEN <<>> ELSE Tail(queue["listener"])
    PROVE  NextStamp("listener") = Mark("listener", j) /\ rest = Run("listener", j + 1, FirstOf(r))
    <1> DEFINE q == queue["listener"]
               x == NextStamp("listener")
               hi == FirstOf(r)
    <1>1. /\ q = Run("listener", j, hi)
          /\ prev["listener"] = IF j = 0 THEN 0 ELSE Mark("listener", j - 1)
          BY DEF ListenerAt
    <1>2. hi \in Nat /\ hi > 0
      <2>1. 0 + 1 <= r /\ 0 + 1 \in Nat
            OBVIOUS
      <2>2. FirstOf(0 + 1) = FirstOf(0) + PerCrf /\ FirstOf(0) = 0 /\ FirstOf(0 + 1) <= FirstOf(r)
            /\ FirstOf(r) \in Nat
            BY <2>1, FirstFacts
      <2>3. QED
            BY <2>2, Constants
    <1>3. x = IF q = <<>> THEN (prev["listener"] + Period) % Full ELSE Head(q)
          BY DEF NextStamp
    <1>4. rest = IF q = <<>> THEN <<>> ELSE Tail(q)
          OBVIOUS
    <1>5. Mark("listener", j) \in Nat /\ Mark("listener", j) < Full /\ Full \in Nat \ {0}
          BY MarkFacts, Constants
    <1> HIDE DEF q, x, hi
    <1>6. CASE hi <= j
      <2>1. q = <<>>
            BY <1>1, <1>2, <1>6, RunTail
      <2>2. j # 0 /\ j - 1 \in Nat /\ (j - 1) + 1 = j
            BY <1>2, <1>6
      <2>3. Mark("listener", j) = prev["listener"] + Period
        <3>1. Mark("listener", (j - 1) + 1) = Mark("listener", j - 1) + Period
              BY <2>2, MarkFacts
        <3>2. QED
              BY <1>1, <2>2, <3>1
      <2>4. Mark("listener", j) % Full = Mark("listener", j)
        <3> DEFINE y == Mark("listener", j)
        <3>1. y \in Nat /\ y < Full /\ Full \in Nat \ {0}
              BY <1>5
        <3> HIDE DEF y
        <3>2. y % Full = y
              BY <3>1
        <3>3. QED
              BY <3>2 DEF y
      <2>5. x = Mark("listener", j)
            BY <1>3, <2>1, <2>3, <2>4
      <2>6. <<>> = Run("listener", j + 1, hi)
        <3>1. j + 1 \in Nat /\ hi <= j + 1
              BY <1>2, <1>6
        <3>2. QED
              BY <1>2, <3>1, RunTail
      <2>7. QED
            BY <1>4, <2>1, <2>5, <2>6 DEF x, hi
    <1>7. CASE j < hi
      <2>1. /\ Run("listener", j, hi) # <<>>
            /\ Head(Run("listener", j, hi)) = Mark("listener", j)
            /\ Tail(Run("listener", j, hi)) = Run("listener", j + 1, hi)
        <3>1. ~(hi <= j)
              BY <1>2, <1>7
        <3>2. QED
              BY <1>2, <1>7, <3>1, RunTail
      <2>2. QED
            BY <1>1, <1>3, <1>4, <2>1 DEF x, hi
    <1>8. QED
          BY <1>2, <1>6, <1>7

\* The AAF PDU that arrives is the next, and a CRF PDU has been before.
LEMMA ListenerArrival ==
    ASSUME Base, NEW r \in Nat, NEW j \in Nat, NEW a \in Nat, ListenerAt(r, j, a),
           net["listener"] # <<>>, Arrived.kind = "aaf"
    PROVE  /\ r > 0 /\ a + 1 <= Len(aaf) /\ Arrived.ts = aaf[a + 1] % Low
           /\ Awaits(Tail(net["listener"]), "crf", r, crfSent - 1)
           /\ Awaits(Tail(net["listener"]), "aaf", (a + 1) + 1, Len(aaf))
    <1> DEFINE s == net["listener"]
    <1>1. s \in Seq(Pdu) /\ InOrder(s) /\ s # <<>> /\ Arrived = Head(s) /\ Len(aaf) \in Nat
          /\ Head(s).kind = "aaf"
          BY FlightParts, BaseNumbers DEF Programs, Arrived
    <1>2. /\ Awaits(s, "crf", r, crfSent - 1) /\ Awaits(s, "aaf", a + 1, Len(aaf))
          /\ r = 0 => CrfFirst(s)
          BY DEF ListenerAt
    <1>3. Arrived.ts = aaf[Arrived.no] % Low
          BY <1>1, ArrivalFacts DEF Programs
    <1> HIDE DEF s
    <1>4. Head(s).no = a + 1 /\ a + 1 <= Len(aaf) /\ Awaits(Tail(s), "aaf", (a + 1) + 1, Len(aaf))
      <2>1. a + 1 \in Nat /\ Len(aaf) \in Int /\ Head(s).kind # "other"
            /\ Awaits(s, Head(s).kind, a + 1, Len(aaf))
            BY <1>1, <1>2
      <2>2. Head(s).no = a + 1 /\ a + 1 <= Len(aaf)
            /\ Awaits(Tail(s), Head(s).kind, (a + 1) + 1, Len(aaf))
            BY <1>1, <2>1, AwaitsTail
      <2>3. QED
            BY <1>1, <2>2
    <1>5. Awaits(Tail(s), "crf", r, crfSent - 1)
      <2>1. Head(s).kind # "crf"
            BY <1>1
      <2>2. QED
            BY <1>1, <1>2, <2>1, AwaitsTailOther
    <1>6. r # 0
          BY <1>1, <1>2, CrfFirstTail
    <1>7. QED
          BY <1>1, <1>3, <1>4, <1>5, <1>6 DEF s

\* The listener recovers its clock from a CRF PDU, or drops a frame.
LEMMA ListenerCrfs ==
    ASSUME Base, ListenerClock, ListenerCrf
    PROVE  ListenerClock'
    <1> DEFINE s == net["listener"]
               p == Head(s)
    <1>1. /\ s # <<>> /\ net'["listener"] = Tail(s)
          /\ UNCHANGED <<world, crfSent, strays, status, first, expired, burst, aaf, lost>>
          BY ListenerRecvFacts DEF ListenerCrf
    <1>2. p.kind # "aaf" /\ UNCHANGED <<prev, need, looking, verdicts>>
          BY DEF ListenerCrf, Arrived
    <1>3. Base' /\ queue'["listener"] = IF p.kind = "crf" THEN recover_mclk("listener", p.ts)
                                        ELSE queue["listener"]
          BY BaseListenerCrf DEF Arrived
    <1>4. SUFFICES ASSUME lost = {}
                   PROVE  ListenerClock'
      <2>1. CASE lost # {}
            BY <1>1, <2>1 DEF ListenerClock
      <2>2. QED
            BY <2>1
    <1>5. PICK r \in Nat, j \in Nat, a \in Nat :
              r <= crfSent /\ a <= Len(aaf) /\ ListenerAt(r, j, a)
          BY <1>4, ListenerPlace
    <1>6. /\ Awaits(s, "crf", r, crfSent - 1) /\ Awaits(s, "aaf", a + 1, Len(aaf))
          /\ queue["listener"] = Run("listener", j, FirstOf(r))
          /\ prev["listener"] = IF j = 0 THEN 0 ELSE Mark("listener", j - 1)
          /\ a = 0 => j = 0 /\ need["listener"] /\ looking = None
          /\ a > 0 => r > 0
          /\ a > 0 /\ looking = None =>
                j > 0 /\ j - 1 <= a + Shift /\ prev["listener"] % Low = aaf[a] % Low
          /\ looking # None => j <= a + Shift /\ looking = aaf[a] % Low
          /\ r = 0 => CrfFirst(s)
          BY <1>5 DEF ListenerAt
    <1>7. s \in Seq(Pdu) /\ InOrder(s) /\ crfSent \in Nat /\ world \in Worlds /\ crfSent <= world.crf
          /\ world.crf \in Nat /\ queue["listener"] \in Stamps
          BY FlightParts, BaseNumbers DEF Programs
    <1>8. FALSE \notin verdicts'
          BY <1>2, <1>4, ListenerPlace
    <1>9. p.kind = "crf" => p.no < crfSent /\ p.ts = CrfTime(p.no) /\ p.no \in Nat
          BY <1>1, ArrivalFacts DEF Programs
    <1> HIDE DEF s
    <1>10. Awaits(Tail(s), "aaf", a + 1, Len(aaf))
      <2>1. Head(s).kind # "aaf"
            BY <1>2
      <2>2. QED
            BY <1>1, <1>6, <1>7, <2>1, AwaitsTailOther
    <1>11. CASE p.kind = "crf"
      <2>1. p.no = r /\ Awaits(Tail(s), "crf", r + 1, crfSent - 1)
        <3>1. Head(s).kind # "other" /\ crfSent - 1 \in Int /\ Awaits(s, Head(s).kind, r, crfSent - 1)
              /\ Head(s).kind = "crf"
              BY <1>6, <1>7, <1>11
        <3>2. Head(s).no = r /\ Awaits(Tail(s), Head(s).kind, r + 1, crfSent - 1)
              BY <1>1, <1>7, <3>1, AwaitsTail
        <3>3. QED
              BY <3>1, <3>2
      <2>2. r < crfSent /\ r < world.crf /\ p.ts = CrfTime(r)
            BY <1>7, <1>9, <1>11, <2>1
      <2>3. NextIs("listener", j, r)
        <3>1. FirstOf(r) \in Nat
              BY FirstFacts
        <3>2. (prev["listener"] = 0 /\ j <= FirstOf(r)) \/ (j > 0 /\ prev["listener"] = Mark("listener", j - 1))
              BY <1>6, <3>1
        <3>3. QED
              BY <3>2 DEF NextIs
      <2>4. recover_mclk("listener", CrfTime(r)) = Run("listener", j, FirstOf(r + 1))
            BY <1>6, <1>7, <2>2, <2>3, RecoverRun
      <2>5. queue'["listener"] = Run("listener", j, FirstOf(r + 1))
            BY <1>3, <1>11, <2>2, <2>4
      <2>6. r + 1 \in Nat /\ r + 1 <= crfSent' /\ r + 1 > 0 /\ r + 1 # 0
            BY <1>1, <1>7, <2>2
      <2> HIDE DEF p
      <2>7. ListenerAt(r + 1, j, a)'
            BY <1>1, <1>2, <1>6, <1>10, <2>1, <2>5, <2>6 DEF ListenerAt
      <2>8. QED
            BY <1>1, <1>3, <1>5, <1>8, <2>6, <2>7, ListenerPlaced
    <1>12. CASE p.kind # "crf"
      <2>1. Head(s).kind # "crf"
            BY <1>12
      <2>2. Awaits(Tail(s), "crf", r, crfSent - 1) /\ (r = 0 => CrfFirst(Tail(s)))
            BY <1>1, <1>6, <1>7, <2>1, AwaitsTailOther, CrfFirstTail
      <2>3. queue'["listener"] = queue["listener"]
            BY <1>3, <1>12
      <2> HIDE DEF p
      <2>4. ListenerAt(r, j, a)'
            BY <1>1, <1>2, <1>6, <1>10, <2>2, <2>3 DEF ListenerAt
      <2>5. QED
            BY <1>1, <1>3, <1>5, <1>8, <2>4, ListenerPlaced
    <1>13. QED
           BY <1>11, <1>12

\* The listener takes an AAF PDU and looks for its stamp.
LEMMA ListenerLooks ==
    ASSUME Base, ListenerClock, ListenerLook
    PROVE  ListenerClock'
    <1> DEFINE s == net["listener"]
    <1>1. /\ Base' /\ ListenerRecv /\ Arrived.kind = "aaf" /\ looking' = Arrived.ts
          /\ UNCHANGED <<queue, prev, need, verdicts>>
          BY BaseListenerLook
    <1>2. /\ s # <<>> /\ net'["listener"] = Tail(s) /\ looking = None
          /\ UNCHANGED <<crfSent, aaf, lost>>
          BY <1>1, ListenerRecvFacts
    <1>3. CASE lost # {}
          BY <1>2, <1>3 DEF ListenerClock
    <1>4. CASE lost = {}
      <2>1. PICK r \in Nat, j \in Nat, a \in Nat :
                r <= crfSent /\ a <= Len(aaf) /\ ListenerAt(r, j, a)
            BY <1>4, ListenerPlace
      <2>2. /\ r > 0 /\ a + 1 <= Len(aaf) /\ Arrived.ts = aaf[a + 1] % Low
            /\ Awaits(Tail(s), "crf", r, crfSent - 1)
            /\ Awaits(Tail(s), "aaf", (a + 1) + 1, Len(aaf))
            BY <1>1, <1>2, <2>1, ListenerArrival
      <2>3. FALSE \notin verdicts'
            BY <1>1, <1>4, ListenerPlace
      <2>4. /\ queue["listener"] = Run("listener", j, FirstOf(r))
            /\ prev["listener"] = IF j = 0 THEN 0 ELSE Mark("listener", j - 1)
            /\ a = 0 => j = 0
            /\ a > 0 => j > 0 /\ j - 1 <= a + Shift
            BY <1>2, <2>1 DEF ListenerAt
      <2>5. a + 1 \in Nat /\ a + 1 > 0 /\ a + 1 # 0 /\ j <= (a + 1) + Shift
            BY <2>4, MarkShift
      <2>6. looking' # None
        <3>1. looking' = aaf[a + 1] % Low
              BY <1>1, <2>2
        <3>2. aaf[a + 1] \in Stamp
          <4>1. Len(aaf) \in Nat /\ aaf \in Seq(Stamp)
                BY BaseNumbers DEF Stamps
          <4>2. a + 1 \in 1 .. Len(aaf)
                BY <2>2, <4>1
          <4>3. QED
                BY <4>1, <4>2
        <3>3. aaf[a + 1] \in Int /\ Low \in Nat \ {0}
              BY <3>2, Constants DEF Stamp
        <3>4. aaf[a + 1] % Low \in 0 .. Low - 1
              BY <3>3, ModSplit
        <3>5. QED
              BY <3>1, <3>4 DEF None
      <2> HIDE DEF s
      <2>7. ListenerAt(r, j, a + 1)'
            BY <1>1, <1>2, <2>2, <2>4, <2>5, <2>6 DEF ListenerAt
      <2>8. r <= crfSent' /\ a + 1 <= Len(aaf')
            BY <1>2, <2>1, <2>2
      <2>9. QED
            BY <1>1, <2>3, <2>5, <2>7, <2>8, ListenerPlaced
    <1>5. QED
          BY <1>3, <1>4

\* In step with the stream the listener's clock moves on with it.
LEMMA ListenerAafs ==
    ASSUME Base, TalkerInv, ListenerClock, ListenerAaf
    PROVE  ListenerClock'
    <1> DEFINE s == net["listener"]
               x == NextStamp("listener")
               rest == IF queue["listener"] = <<>> THEN <<>> ELSE Tail(queue["listener"])
    <1>1. /\ Base' /\ ListenerRecv /\ Arrived.kind = "aaf" /\ ~need["listener"]
          /\ prev'["listener"] = x /\ queue'["listener"] = rest /\ looking' = looking
          /\ verdicts' = verdicts \cup {is_ts_aligned(x, Arrived.ts)}
          BY BaseListenerAaf
    <1>2. /\ s # <<>> /\ net'["listener"] = Tail(s) /\ looking = None
          /\ UNCHANGED <<crfSent, aaf, lost>>
          BY <1>1, ListenerRecvFacts
    <1>3. CASE lost # {}
          BY <1>2, <1>3 DEF ListenerClock
    <1>4. CASE lost = {}
      <2>1. PICK r \in Nat, j \in Nat, a \in Nat :
                r <= crfSent /\ a <= Len(aaf) /\ ListenerAt(r, j, a)
            BY <1>4, ListenerPlace
      <2>2. /\ r > 0 /\ a + 1 <= Len(aaf) /\ Arrived.ts = aaf[a + 1] % Low
            /\ Awaits(Tail(s), "crf", r, crfSent - 1)
            /\ Awaits(Tail(s), "aaf", (a + 1) + 1, Len(aaf))
            BY <1>1, <1>2, <2>1, ListenerArrival
      <2>3. FALSE \notin verdicts
            BY <1>4, ListenerPlace
      <2>4. /\ a > 0 /\ j > 0 /\ j - 1 <= a + Shift /\ prev["listener"] % Low = aaf[a] % Low
            /\ prev["listener"] = Mark("listener", j - 1)
            BY <1>1, <1>2, <2>1 DEF ListenerAt
      <2>5. /\ a \in 1 .. Len(aaf) /\ a + 1 \in 1 .. Len(aaf) /\ Shift \in Nat
            /\ j - 1 \in Nat /\ (j - 1) + 1 = j
        <3>1. Len(aaf) \in Nat
              BY BaseNumbers
        <3>2. QED
              BY <2>2, <2>4, <3>1, MarkShift
      <2>6. /\ aaf[a] = Mark("listener", a + Shift) /\ aaf[a] \in Nat
            /\ aaf[a + 1] = Mark("listener", (a + 1) + Shift) /\ aaf[a + 1] \in Nat /\ aaf[a + 1] < Full
            BY <1>4, <2>5, AafMarks DEF TalkerInv
      <2>7. /\ aaf[a + 1] = aaf[a] + Period
        <3>1. a + Shift \in Nat /\ (a + 1) + Shift = (a + Shift) + 1
              BY <2>5
        <3>2. Mark("listener", (a + Shift) + 1) = Mark("listener", a + Shift) + Period
              BY <3>1, MarkFacts
        <3>3. QED
              BY <2>6, <3>1, <3>2
      <2>8. /\ Mark("listener", j) = prev["listener"] + Period
            /\ Mark("listener", j) \in Nat /\ prev["listener"] \in Nat
        <3>1. Mark("listener", (j - 1) + 1) = Mark("listener", j - 1) + Period
              /\ Mark("listener", j) \in Nat /\ Mark("listener", j - 1) \in Nat
              BY <2>5, MarkFacts
        <3>2. QED
              BY <2>4, <2>5, <3>1
      <2>9. Mark("listener", j) < Full
        <3> DEFINE n == (a + 1) + Shift
        <3>1. n \in Nat /\ (j < n \/ j = n)
              BY <2>4, <2>5
        <3> HIDE DEF n
        <3>2. Mark("listener", j) < Mark("listener", n) \/ Mark("listener", j) = Mark("listener", n)
              BY <3>1, MarkFacts
        <3>3. Mark("listener", n) < Full /\ Mark("listener", n) \in Nat
              BY <2>6 DEF n
        <3>4. QED
              BY <2>8, <3>2, <3>3, Constants
      <2>10. x = Mark("listener", j) /\ rest = Run("listener", j + 1, FirstOf(r))
        <3>1. rest = IF queue["listener"] = <<>> THEN <<>> ELSE Tail(queue["listener"])
              OBVIOUS
        <3> HIDE DEF rest
        <3>2. QED
              BY <2>1, <2>2, <2>9, <3>1, ListenerTakes
      <2> HIDE DEF x, rest, s
      <2>11. aaf[a + 1] % Low = x % Low
        <3>1. (aaf[a] + Period) % Low = (prev["listener"] + Period) % Low
          <4>1. aaf[a] \in Int /\ prev["listener"] \in Int /\ Period \in Int /\ Low \in Nat \ {0}
                BY <2>6, <2>8, Constants
          <4>2. QED
                BY <2>4, <4>1, ModStep, Zenon
        <3>2. QED
              BY <2>7, <2>8, <2>10, <3>1, Zenon
      <2>12. FALSE \notin verdicts'
        <3>1. is_ts_aligned(x, aaf[a + 1] % Low) = TRUE
              BY <2>6, <2>8, <2>10, <2>11, Aligned
        <3>2. verdicts' = verdicts \cup {TRUE}
              BY <1>1, <2>2, <3>1
        <3>3. QED
              BY <2>3, <3>2
      <2>13. /\ a + 1 \in Nat /\ a + 1 > 0 /\ a + 1 # 0 /\ j + 1 \in Nat /\ j + 1 > 0 /\ j + 1 # 0
             /\ (j + 1) - 1 = j /\ j <= (a + 1) + Shift
             BY <2>4, <2>5
      <2>14. ListenerAt(r, j + 1, a + 1)'
        <3>1. prev'["listener"] = Mark("listener", (j + 1) - 1)
              BY <1>1, <2>10, <2>13
        <3>2. prev'["listener"] % Low = aaf'[a + 1] % Low
              BY <1>1, <1>2, <2>11
        <3>3. queue'["listener"] = Run("listener", j + 1, FirstOf(r))
              BY <1>1, <2>10
        <3>4. (j + 1) - 1 <= (a + 1) + Shift
              BY <2>13
        <3>5. Awaits(net'["listener"], "crf", r, crfSent' - 1)
              /\ Awaits(net'["listener"], "aaf", (a + 1) + 1, Len(aaf'))
              BY <1>2, <2>2
        <3>6. looking' = None /\ r # 0
              BY <1>1, <1>2, <2>2
        <3>7. QED
              BY <2>2, <2>13, <3>1, <3>2, <3>3, <3>4, <3>5, <3>6 DEF ListenerAt
      <2>15. r <= crfSent' /\ a + 1 <= Len(aaf')
             BY <1>2, <2>1, <2>2
      <2>16. QED
             BY <1>1, <2>12, <2>13, <2>14, <2>15, ListenerPlaced
    <1>5. QED
          BY <1>3, <1>4

\* mclk_lookup does not run past the stamp it looks for.
LEMMA ListenerLookups ==
    ASSUME Base, TalkerInv, ListenerClock, LookupStep
    PROVE  ListenerClock'
    <1> DEFINE x == NextStamp("listener")
               rest == IF queue["listener"] = <<>> THEN <<>> ELSE Tail(queue["listener"])
    <1>1. /\ Base' /\ looking # None
          /\ prev'["listener"] = x /\ queue'["listener"] = rest
          /\ IF x % Low = looking
             THEN /\ looking' = None
                  /\ verdicts' = verdicts \cup {is_ts_aligned(x, looking)}
             ELSE UNCHANGED <<looking, verdicts>>
          /\ UNCHANGED <<crfSent, net, aaf, lost>>
          BY BaseLookupStep
    <1>2. CASE lost # {}
          BY <1>1, <1>2 DEF ListenerClock
    <1>3. CASE lost = {}
      <2>1. PICK r \in Nat, j \in Nat, a \in Nat :
                r <= crfSent /\ a <= Len(aaf) /\ ListenerAt(r, j, a)
            BY <1>3, ListenerPlace
      <2>2. /\ Awaits(net["listener"], "crf", r, crfSent - 1)
            /\ Awaits(net["listener"], "aaf", a + 1, Len(aaf))
            /\ a # 0 /\ (a > 0 => r > 0) /\ j <= a + Shift /\ looking = aaf[a] % Low
            BY <1>1, <2>1 DEF ListenerAt
      <2>3. FALSE \notin verdicts
            BY <1>3, ListenerPlace
      <2>4. a \in 1 .. Len(aaf) /\ a > 0 /\ r > 0
        <3>1. Len(aaf) \in Nat
              BY BaseNumbers
        <3>2. QED
              BY <2>1, <2>2, <3>1
      <2>5. /\ aaf[a] = Mark("listener", a + Shift) /\ aaf[a] \in Nat /\ aaf[a] < Full
            /\ a + Shift \in Nat
            BY <1>3, <2>4, AafMarks DEF TalkerInv
      <2>6. Mark("listener", j) < Full /\ Mark("listener", j) \in Nat
        <3> DEFINE n == a + Shift
        <3>1. n \in Nat /\ (j < n \/ j = n)
              BY <2>2, <2>5
        <3> HIDE DEF n
        <3>2. /\ Mark("listener", j) < Mark("listener", n) \/ Mark("listener", j) = Mark("listener", n)
              /\ Mark("listener", j) \in Nat
              BY <3>1, MarkFacts
        <3>3. Mark("listener", n) < Full /\ Mark("listener", n) \in Nat
              BY <2>5 DEF n
        <3>4. QED
              BY <3>2, <3>3, Constants
      <2>7. x = Mark("listener", j) /\ rest = Run("listener", j + 1, FirstOf(r))
        <3>1. rest = IF queue["listener"] = <<>> THEN <<>> ELSE Tail(queue["listener"])
              OBVIOUS
        <3> HIDE DEF rest
        <3>2. QED
              BY <2>1, <2>4, <2>6, <3>1, ListenerTakes
      <2> HIDE DEF x, rest
      <2>8. /\ j + 1 \in Nat /\ j + 1 > 0 /\ j + 1 # 0 /\ (j + 1) - 1 = j
            OBVIOUS
      <2>9. /\ prev'["listener"] = Mark("listener", (j + 1) - 1)
            /\ queue'["listener"] = Run("listener", j + 1, FirstOf(r))
            /\ Awaits(net'["listener"], "crf", r, crfSent' - 1)
            /\ Awaits(net'["listener"], "aaf", a + 1, Len(aaf'))
            /\ r <= crfSent' /\ a <= Len(aaf') /\ r # 0
            BY <1>1, <2>1, <2>2, <2>4, <2>7, <2>8
      <2>10. CASE x % Low = looking
        <3>1. is_ts_aligned(x, aaf[a] % Low) = TRUE
          <4>1. aaf[a] % Low = x % Low
                BY <2>2, <2>10
          <4>2. QED
                BY <2>5, <2>6, <2>7, <4>1, Aligned
        <3>2. verdicts' = verdicts \cup {TRUE} /\ looking' = None
              BY <1>1, <2>2, <2>10, <3>1
        <3>3. FALSE \notin verdicts'
              BY <2>3, <3>2
        <3>4. prev'["listener"] % Low = aaf'[a] % Low
              BY <1>1, <2>2, <2>10
        <3>5. ListenerAt(r, j + 1, a)'
              BY <2>2, <2>4, <2>8, <2>9, <3>2, <3>4 DEF ListenerAt
        <3>6. QED
              BY <1>1, <2>8, <2>9, <3>3, <3>5, ListenerPlaced
      <2>11. CASE x % Low # looking
        <3>1. UNCHANGED <<looking, verdicts>>
              BY <1>1, <2>11
        <3>2. j # a + Shift
              BY <2>2, <2>5, <2>7, <2>11
        <3>3. j + 1 <= a + Shift
              BY <2>2, <2>5, <3>2
        <3>4. looking' # None /\ looking' = aaf'[a] % Low
              BY <1>1, <2>2, <3>1
        <3>5. ListenerAt(r, j + 1, a)'
              BY <2>2, <2>4, <2>8, <2>9, <3>3, <3>4 DEF ListenerAt
        <3>6. QED
              BY <1>1, <2>3, <2>8, <2>9, <3>1, <3>5, ListenerPlaced
      <2>12. QED
             BY <2>10, <2>11
    <1>4. QED
          BY <1>2, <1>3

---------------------------------------------------------------------------
(* The theorems *)

\* The invariant holds at first.
LEMMA InvInit ==
    ASSUME Init
    PROVE  Inv
    BY BaseInit, TalkerInit, ListenerInit DEF Inv

\* crf-talker and the network keep the invariant.
LEMMA InvNetwork ==
    ASSUME Inv, CrfSend \/ (\E m \in Programs, p \in world.strays : StraySend(m, p))
                  \/ (\E m \in Programs : Lose(m))
    PROVE  Inv'
    <1>1. Base /\ TalkerInv /\ ListenerClock
          BY DEF Inv
    <1>2. CASE CrfSend
          BY <1>1, <1>2, BaseCrfSend, TalkerCrfSend, ListenerCrfSend DEF Inv
    <1>3. ASSUME NEW m \in Programs, NEW p \in world.strays, StraySend(m, p)
          PROVE  Inv'
          BY <1>1, <1>3, BaseStraySend, TalkerStraySend, ListenerStraySend DEF Inv
    <1>4. ASSUME NEW m \in Programs, Lose(m)
          PROVE  Inv'
      <2>1. Base' /\ TalkerInv'
            BY <1>1, <1>4, BaseLose, TalkerLose
      <2>2. lost' # {}
            BY <1>4 DEF Lose
      <2>3. ListenerClock'
            BY <2>2 DEF ListenerClock
      <2>4. QED
            BY <2>1, <2>3 DEF Inv
    <1>5. QED
          BY <1>2, <1>3, <1>4

\* The AAF talker keeps the invariant.
LEMMA InvTalker ==
    ASSUME Inv, TalkerRecv \/ TimerExpires \/ TxTimeout \/ TxSend
    PROVE  Inv'
    <1>1. Base /\ TalkerInv /\ ListenerClock
          BY DEF Inv
    <1>2. CASE TalkerRecv
      <2>1. Base' /\ TalkerInv'
            BY <1>1, <1>2, BaseTalkerRecv, TalkerRecvs
      <2>2. /\ UNCHANGED <<crfSent, aaf, verdicts, looking, lost, need, prev>>
            /\ net'["listener"] = net["listener"] /\ queue'["listener"] = queue["listener"]
        <3> DEFINE p == Head(net["talker"])
                   q == Recovered(p)
        <3>1. /\ net' = [net EXCEPT !["talker"] = Tail(net["talker"])]
              /\ IF first /\ q = <<>>
                 THEN /\ status' = [status EXCEPT !["talker"] = "crash"]
                      /\ queue' = queue /\ first' = first
                 ELSE /\ queue' = [queue EXCEPT !["talker"] = IF first THEN Tail(q) ELSE q]
                      /\ first' = FALSE /\ status' = status
              /\ UNCHANGED <<crfSent, aaf, verdicts, looking, lost, need, prev>>
              BY <1>1, <1>2, TalkerRecvFacts
        <3> HIDE DEF p, q
        <3>2. net \in [Programs -> Seq(Pdu)] /\ queue \in [Programs -> Seq(0 .. Full - 1)]
              /\ "listener" \in Programs
              BY <1>1 DEF Base, TypeOK, Programs
        <3>3. QED
              BY <3>1, <3>2
      <2>3. ListenerClock'
            BY <1>1, <2>1, <2>2, ListenerSame
      <2>4. QED
            BY <2>1, <2>3 DEF Inv
    <1>3. CASE TimerExpires \/ TxTimeout
      <2>1. Base'
            BY <1>1, <1>3, BaseTimerExpires, BaseTxTimeout
      <2>2. UNCHANGED <<crfSent, strays, aaf, first, lost, net, queue, prev, need, status,
                        verdicts, looking>>
            BY <1>3 DEF TimerExpires, TxTimeout, clocks
      <2>3. TalkerInv'
            BY <1>1, <2>2, TalkerSame
      <2>4. ListenerClock'
            BY <1>1, <2>1, <2>2, ListenerSame
      <2>5. QED
            BY <2>1, <2>3, <2>4 DEF Inv
    <1>4. CASE TxSend
          BY <1>1, <1>4, BaseTxSend, TalkerSends, ListenerTxSend DEF Inv
    <1>5. QED
          BY <1>2, <1>3, <1>4

\* The AAF listener keeps the invariant.
LEMMA InvListener ==
    ASSUME Inv, ListenerCrf \/ ListenerAaf \/ ListenerLook \/ LookupStep
    PROVE  Inv'
    <1>1. Base /\ TalkerInv /\ ListenerClock
          BY DEF Inv
    <1>2. Base'
          BY <1>1, BaseListenerCrf, BaseListenerAaf, BaseListenerLook, BaseLookupStep
    <1>3. ListenerClock'
          BY <1>1, ListenerCrfs, ListenerAafs, ListenerLooks, ListenerLookups
    <1>4. /\ UNCHANGED <<crfSent, strays, aaf, first, lost, status>>
          /\ net'["talker"] = net["talker"]
          /\ queue'["talker"] = queue["talker"] /\ prev'["talker"] = prev["talker"]
      <2>1. CASE ListenerCrf
            BY <1>1, <2>1, BaseListenerCrf, ListenerRecvFacts DEF ListenerCrf
      <2>2. CASE ListenerAaf
            BY <1>1, <2>2, BaseListenerAaf, ListenerRecvFacts
      <2>3. CASE ListenerLook
            BY <1>1, <2>3, BaseListenerLook, ListenerRecvFacts
      <2>4. CASE LookupStep
            BY <1>1, <2>4, BaseLookupStep
      <2>5. QED
            BY <2>1, <2>2, <2>3, <2>4
    <1>5. TalkerInv'
          BY <1>1, <1>4, TalkerSame
    <1>6. QED
          BY <1>2, <1>3, <1>5 DEF Inv

\* A program that ends, and a step that changes nothing, keep the invariant.
LEMMA InvFails ==
    ASSUME Inv, (\E m \in Programs : Fails(m)) \/ UNCHANGED vars
    PROVE  Inv'
    <1>1. Base /\ TalkerInv /\ ListenerClock
          BY DEF Inv
    <1>2. Base'
      <2>1. CASE \E m \in Programs : Fails(m)
            BY <1>1, <2>1, BaseFails
      <2>2. CASE UNCHANGED vars
        <3>1. TypeOK' /\ Timer' /\ Flight'
              BY <1>1, <2>2 DEF vars, clocks, talker, Base, TypeOK, Timer, Flight
        <3>2. QED
              BY <3>1 DEF Base
      <2>3. QED
            BY <2>1, <2>2
    <1>3. /\ UNCHANGED <<crfSent, strays, net, queue, prev, need, first, looking, aaf, verdicts, lost>>
          /\ status'["talker"] = "crash" => status["talker"] = "crash"
      <2>1. ASSUME NEW m \in Programs, Fails(m)
            PROVE  status'["talker"] = "crash" => status["talker"] = "crash"
        <3>1. status' = [status EXCEPT ![m] = "exit"] /\ "talker" \in Programs
              /\ status \in [Programs -> {"run", "exit", "crash"}]
              BY <1>1, <2>1 DEF Fails, Base, TypeOK, Programs
        <3>2. QED
              BY <3>1
      <2>2. CASE \E m \in Programs : Fails(m)
            BY <1>1, <2>1, <2>2, BaseFails
      <2>3. CASE UNCHANGED vars
            BY <2>3 DEF vars, clocks, talker
      <2>4. QED
            BY <2>2, <2>3
    <1>4. TalkerInv'
          BY <1>1, <1>3, TalkerSame
    <1>5. ListenerClock'
          BY <1>1, <1>2, <1>3, ListenerSame
    <1>6. QED
          BY <1>2, <1>4, <1>5 DEF Inv

\* The invariant of the recovered clocks: where each program is in the grid of the
\* media clock, and what it still waits for.
THEOREM ClockInvariance == Spec => []Inv
    <1>1. Init => Inv
          BY InvInit
    <1>2. Inv /\ [Next]_vars => Inv'
          BY InvNetwork, InvTalker, InvListener, InvFails DEF Next
    <1>3. QED
          BY <1>1, <1>2, PTL DEF Spec

\* The AAF talker's stamps are the media clock, and no stamp is repeated, left out
\* or taken from an empty queue: recover_mclk and get_next_mclk_timestamp, for any
\* period, number of timestamps per CRF PDU, transit time, width of the stamps,
\* network and number of PDUs.
THEOREM RecoveredClockIsSafe == Spec => []ClockInv
    <1>1. Inv => ClockInv
          BY DEF Inv, Base, TalkerInv, ClockInv
    <1>2. QED
          BY <1>1, ClockInvariance, PTL

\* While nothing is lost handle_aaf_pdu never says of the stream that it is not
\* aligned, however late its frames and those of the CRF stream are taken.
THEOREM AlignmentIsNeverDenied == Spec => []NoFalseVerdict
    <1>1. Inv => NoFalseVerdict
          BY DEF Inv, ListenerClock, NoFalseVerdict
    <1>2. QED
          BY <1>1, ClockInvariance, PTL
=============================================================================
