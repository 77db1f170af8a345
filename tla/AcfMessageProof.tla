-------------------------- MODULE AcfMessageProof --------------------------
(***************************************************************************)
(* Proofs about AcfMessage for every table of formats that satisfies       *)
(* FormatConstants, every payload length of 16 bits and every header.      *)
(*                                                                         *)
(* The invariants of AcfMessage are not inductive: nothing in them ties    *)
(* the header to the payload that was written, nor `accepted' to the       *)
(* header and buffer that were validated.  MessageInv adds both.           *)
(***************************************************************************)
EXTENDS AcfMessage, TLAPS

\* What CreateAcfMessage and SetPayloadLength leave in the header of a message
\* with n payload octets.
HeaderMatchesPayload ==
    LET f == Formats[fmt] IN
    made =>
        /\ f.kind # "fixed" => h.len = QuadletsOf(f.hdr, n)
        /\ f.kind = "padded" => h.pad = PadOf(f.hdr, n)
        /\ f.kind = "counted" => n = SensorOctets(h)
        /\ f.kind = "fixed" => h.len = f.hdr \div 4 /\ n = 0
        /\ h.type = f.type
        /\ clean = n + PadOf(f.hdr, n)

AcceptedIsValid == accepted <=> size # -1 /\ IsValid(Formats[fmt], h, size)

MessageInv == TypeOK /\ HeaderMatchesPayload /\ AcceptedIsValid

---------------------------------------------------------------------------
(* The arithmetic of the length fields *)

\* SetPayloadLength adds 0 to 3 octets of padding, and they make the message a
\* whole number of quadlets.
LEMMA PadFacts ==
    ASSUME NEW hdr \in HeaderSizes, NEW len \in Nat
    PROVE  /\ PadOf(hdr, len) \in 0 .. 3
           /\ (((hdr + len) % 65536) + PadOf(hdr, len)) % 4 = 0
    BY DEF PadOf, HeaderSizes

\* acf_msg_length fits its nine bits; it says the size of the message, except
\* that sizes beyond the field wrap.
LEMMA QuadletFacts ==
    ASSUME NEW hdr \in HeaderSizes, NEW len \in Nat
    PROVE  /\ QuadletsOf(hdr, len) \in Below(512)
           /\ hdr + len <= 2044 => 4 * QuadletsOf(hdr, len) = hdr + len + PadOf(hdr, len)
           /\ 4 * QuadletsOf(hdr, len) <= hdr + len + PadOf(hdr, len)
    <1> DEFINE total == ((hdr + len) % 65536) + PadOf(hdr, len)
    <1>1. PadOf(hdr, len) \in 0 .. 3 /\ total % 4 = 0
          BY PadFacts
    <1>2. hdr + len \in Nat
          BY DEF HeaderSizes
    <1>3. total \in Nat /\ total <= hdr + len + PadOf(hdr, len)
          BY <1>1, <1>2
    <1>4. hdr + len <= 2044 => total = hdr + len + PadOf(hdr, len) /\ total < 2048
      <2> HAVE hdr + len <= 2044
      <2>1. (hdr + len) % 65536 = hdr + len
            BY <1>2
      <2>2. total = hdr + len + PadOf(hdr, len)
            BY <2>1
      <2>3. total < 2048
            BY <1>1, <1>2, <2>2
      <2>4. QED
            BY <2>2, <2>3
    <1>5. QuadletsOf(hdr, len) = (total \div 4) % 512
          BY DEF QuadletsOf
    <1> HIDE DEF total
    <1>6. /\ (total \div 4) % 512 \in Nat
          /\ (total \div 4) % 512 < 512
          /\ 4 * ((total \div 4) % 512) <= total
          /\ total < 2048 => 4 * ((total \div 4) % 512) = total
          BY <1>1, <1>3
    <1>7. QED
          BY <1>1, <1>2, <1>3, <1>4, <1>5, <1>6 DEF Below

\* A sensor message has between 1 and 512 octets of payload.
LEMMA SensorFacts ==
    ASSUME NEW hd \in Header
    PROVE  SensorOctets(hd) \in Nat /\ SensorOctets(hd) > 0 /\ SensorOctets(hd) <= 512
    <1>1. hd.num \in Nat /\ hd.num < 128 /\ hd.sz \in Nat /\ hd.sz < 4
          BY DEF Header, Below
    <1>2. hd.sz = 0 \/ hd.sz = 1 \/ hd.sz = 2 \/ hd.sz = 3
          BY <1>1
    <1>3. QED
          BY <1>1, <1>2 DEF SensorOctets

\* Rounding a payload up to quadlets, the two ways the code computes it.
LEMMA RoundedUp ==
    ASSUME NEW hdr \in HeaderSizes, NEW len \in Nat, NEW pad \in 0 .. 3,
           (hdr + len + pad) % 4 = 0
    PROVE  len + pad = 4 * ((len + 3) \div 4)
    BY DEF HeaderSizes

\* uint16_t sums of messages that the length field can express do not wrap.
LEMMA NoWrap ==
    ASSUME NEW m \in Nat, m <= 2044
    PROVE  m % 65536 = m
    OBVIOUS

\* The fields of a format that the proofs use.
LEMMA FormatFacts ==
    ASSUME NEW x \in DOMAIN Formats
    PROVE  /\ Formats[x].hdr \in HeaderSizes
           /\ Formats[x].type \in Below(128)
           /\ Formats[x].kind \in {"padded", "counted", "plain", "fixed"}
           /\ Formats[x].ret \in {256, 65536}
           /\ Formats[x].max \in Nat /\ Formats[x].maxFd \in Nat
    <1>1. Formats[x] \in Format
          BY FormatConstants
    <1>2. QED
          BY <1>1 DEF Format

\* What SetPayloadLength changes in a header: the length, the padding of the
\* formats that have it, and nothing else.
LEMMA SetLengthFacts ==
    ASSUME NEW x \in DOMAIN Formats, NEW hd \in Header, NEW len \in Nat
    PROVE  LET f == Formats[x]
               new == SetPayloadLength(f, hd, len)
           IN /\ new \in Header
              /\ new.type = hd.type /\ new.num = hd.num /\ new.sz = hd.sz
              /\ f.kind # "fixed" => new.len = QuadletsOf(f.hdr, len)
              /\ f.kind = "padded" => new.pad = PadOf(f.hdr, len)
              /\ f.kind = "fixed" => new.len = f.hdr \div 4
    <1> DEFINE f == Formats[x]
    <1>1. f.hdr \in HeaderSizes
          BY FormatFacts
    <1>2. QuadletsOf(f.hdr, len) \in Below(512)
          BY <1>1, QuadletFacts
    <1>3. PadOf(f.hdr, len) \in Below(4)
          BY <1>1, PadFacts DEF Below
    <1>4. f.hdr \div 4 \in Below(512)
          BY <1>1 DEF HeaderSizes, Below
    <1> HIDE DEF f
    <1>5. CASE f.kind = "fixed"
          BY <1>4, <1>5 DEF SetPayloadLength, Header, f
    <1>6. CASE f.kind = "padded"
      <2>1. SetPayloadLength(f, hd, len)
                = [hd EXCEPT !.len = QuadletsOf(f.hdr, len), !.pad = PadOf(f.hdr, len)]
            BY <1>6 DEF SetPayloadLength
      <2>2. SetPayloadLength(f, hd, len) \in Header
        <3>1. ASSUME NEW q \in Below(512), NEW p \in Below(4)
              PROVE  [hd EXCEPT !.len = q, !.pad = p] \in Header
          <4>1. [hd EXCEPT !.len = q] \in Header
                BY DEF Header
          <4>2. ASSUME NEW g \in Header PROVE [g EXCEPT !.pad = p] \in Header
                BY DEF Header
          <4>3. [hd EXCEPT !.len = q, !.pad = p] = [[hd EXCEPT !.len = q] EXCEPT !.pad = p]
                BY DEF Header
          <4>4. QED
                BY <4>1, <4>2, <4>3
        <3>2. QED
              BY ZenonT(60), <1>2, <1>3, <2>1, <3>1
      <2>3. QED
            BY <1>6, <2>1, <2>2 DEF Header, f
    <1>7. CASE f.kind # "fixed" /\ f.kind # "padded"
      <2>1. SetPayloadLength(f, hd, len) = [hd EXCEPT !.len = QuadletsOf(f.hdr, len)]
            BY <1>7 DEF SetPayloadLength, Header
      <2>2. SetPayloadLength(f, hd, len) \in Header
            BY <1>2, <2>1 DEF Header
      <2>3. QED
            BY <1>7, <2>1, <2>2 DEF Header, f
    <1>8. QED
          BY <1>5, <1>6, <1>7

---------------------------------------------------------------------------
(* The inductive invariant *)

\* A buffer without a message satisfies the invariant, however it came about.
LEMMA EmptyInv ==
    ASSUME fmt \in DOMAIN Formats, Empty
    PROVE  MessageInv
    <1>1. Formats[fmt].type \in Below(128)
          BY FormatFacts
    <1>2. h \in Header
          BY <1>1 DEF Empty, Header, Below
    <1>3. n \in U16 /\ clean \in Extent
          BY DEF Empty, U16, Extent, Below
    <1>4. ~made /\ ~accepted /\ size = -1
          BY DEF Empty
    <1>5. TypeOK
          BY <1>2, <1>3, <1>4, Zenon DEF Empty, TypeOK
    <1>6. HeaderMatchesPayload /\ AcceptedIsValid
          BY <1>4 DEF HeaderMatchesPayload, AcceptedIsValid
    <1>7. QED
          BY <1>5, <1>6 DEF MessageInv

\* Every operation of a writer or a reader preserves the invariant.
LEMMA MessageStep ==
    ASSUME MessageInv, [Next]_vars
    PROVE  MessageInv'
    <1> USE DEF MessageInv
    <1>1. fmt \in DOMAIN Formats /\ h \in Header /\ made \in BOOLEAN
          BY DEF TypeOK
    <1>2. ASSUME NEW len \in Payloads, NEW fdf \in BOOLEAN, NEW sensors \in Sensors,
                 CreateAcfMessage(len, fdf, sensors[1], sensors[2])
          PROVE  MessageInv'
      <2> DEFINE f == Formats[fmt]
                 fresh == [type |-> f.type, len |-> 0, pad |-> 0, fdf |-> fdf,
                           num |-> sensors[1], sz |-> sensors[2]]
                 octets == PayloadFor(f, fresh, len)
      <2>1. /\ len \in Nat /\ len < 65536
            /\ sensors[1] \in Below(128) /\ sensors[2] \in Below(4)
            BY MessageConstants DEF U16, Below
      <2>2. fresh \in Header
            BY <1>1, <2>1, FormatFacts DEF Header, Below
      <2>3. octets \in Nat /\ octets < 65536
            BY <2>1, <2>2, SensorFacts DEF PayloadFor
      <2>4. /\ h' = SetPayloadLength(f, fresh, octets) /\ n' = octets
            /\ clean' = octets + PadOf(f.hdr, octets)
            /\ made' = TRUE /\ fmt' = fmt /\ size' = size /\ accepted' = accepted
            /\ Empty
            BY <1>2 DEF CreateAcfMessage
      <2>5. size' = -1 /\ accepted' = FALSE
            BY <2>4 DEF Empty
      <2> HIDE DEF octets, fresh
      <2>6. /\ h' \in Header /\ h'.num = fresh.num /\ h'.sz = fresh.sz
            /\ h'.type = fresh.type
            /\ f.kind # "fixed" => h'.len = QuadletsOf(f.hdr, octets)
            /\ f.kind = "padded" => h'.pad = PadOf(f.hdr, octets)
            /\ f.kind = "fixed" => h'.len = f.hdr \div 4
            BY <1>1, <2>2, <2>3, <2>4, SetLengthFacts
      <2>7. PadOf(f.hdr, octets) \in 0 .. 3
            BY <1>1, <2>3, FormatFacts, PadFacts
      <2>8. TypeOK'
        <3>1. n' \in U16 /\ clean' \in Extent
              BY <2>3, <2>4, <2>7 DEF U16, Extent, Below
        <3>2. QED
              BY <1>1, <2>4, <2>6, <2>5, <3>1, Zenon DEF TypeOK
      <2>9. HeaderMatchesPayload'
        <3>1. f.kind = "counted" => octets = SensorOctets(h')
              BY <2>6 DEF octets, fresh, PayloadFor, SensorOctets
        <3>2. f.kind = "fixed" => octets = 0
              BY DEF octets, PayloadFor
        <3>3. QED
              BY <2>4, <2>6, <3>1, <3>2 DEF HeaderMatchesPayload, fresh
      <2>10. AcceptedIsValid'
            BY <2>5 DEF AcceptedIsValid
      <2>11. QED
            BY <2>8, <2>9, <2>10
    <1>3. ASSUME NEW len \in Payloads, ReplacePayload(len)
          PROVE  MessageInv'
      <2> DEFINE f == Formats[fmt]
      <2>1. len \in Nat /\ len < 65536
            BY MessageConstants DEF U16, Below
      <2>2. /\ h' \in Header
            /\ h'.type = h.type
            /\ h'.len = QuadletsOf(f.hdr, len)
            /\ f.kind = "padded" => h'.pad = PadOf(f.hdr, len)
            BY <1>1, <1>3, <2>1, SetLengthFacts DEF ReplacePayload
      <2>3. PadOf(f.hdr, len) \in 0 .. 3
            BY <1>1, <2>1, FormatFacts, PadFacts
      <2>4. TypeOK'
        <3>1. n' \in U16 /\ clean' \in Extent
              BY <1>3, <2>1, <2>3 DEF ReplacePayload, U16, Extent, Below
        <3>2. fmt' = fmt /\ made' = made /\ size' = -1 /\ accepted' = FALSE
              BY <1>3 DEF ReplacePayload
        <3>3. QED
              BY <1>1, <2>2, <3>1, <3>2, Zenon DEF TypeOK
      <2>5. HeaderMatchesPayload'
            BY <1>3, <2>2 DEF ReplacePayload, HeaderMatchesPayload
      <2>6. AcceptedIsValid'
            BY <1>3 DEF ReplacePayload, AcceptedIsValid
      <2>7. QED
            BY <2>4, <2>5, <2>6
    <1>4. ASSUME NEW hd \in Forged, NEW claims \in BOOLEAN, Receive(hd, claims)
          PROVE  MessageInv'
      <2>1. hd \in Header /\ Formats[fmt].type \in Below(128)
            BY <1>1, MessageConstants, FormatFacts
      <2>2. h' \in Header
            BY <1>4, <2>1 DEF Receive, Header
      <2>3. QED
            BY <1>1, <1>4, <2>2
            DEF Receive, Empty, TypeOK, HeaderMatchesPayload, AcceptedIsValid
    <1>5. ASSUME NEW s \in Sizes, Validate(s)
          PROVE  MessageInv'
      <2>1. IsValid(Formats[fmt], h, s) \in BOOLEAN
            BY DEF IsValid
      <2>2. s # -1
            BY MessageConstants
      <2>3. TypeOK'
            BY <1>5, <2>1, Zenon DEF Validate, TypeOK
      <2>4. HeaderMatchesPayload' /\ AcceptedIsValid'
            BY <1>5, <2>2 DEF Validate, HeaderMatchesPayload, AcceptedIsValid
      <2>5. QED
            BY <2>3, <2>4
    <1>6. ASSUME Reuse
          PROVE  MessageInv'
      <2>1. fmt' \in DOMAIN Formats /\ Empty'
            BY <1>1, <1>6 DEF Reuse, Empty
      <2>2. h' \in Header
            BY <1>1, <1>6, FormatFacts DEF Reuse, Header, Below
      <2>3. n' \in U16 /\ clean' \in Extent
            BY <2>1 DEF Empty, U16, Extent, Below
      <2>4. TypeOK'
            BY <2>1, <2>2, <2>3, Zenon DEF Empty, TypeOK
      <2>5. HeaderMatchesPayload' /\ AcceptedIsValid'
            BY <2>1 DEF Empty, HeaderMatchesPayload, AcceptedIsValid
      <2>6. QED
            BY <2>4, <2>5
    <1>7. ASSUME UNCHANGED vars
          PROVE  MessageInv'
          BY <1>7 DEF vars, TypeOK, HeaderMatchesPayload, AcceptedIsValid
    <1>8. QED
          BY <1>2, <1>3, <1>4, <1>5, <1>6, <1>7 DEF Next

\* The messages writers make and readers validate always satisfy the invariant.
THEOREM MessageInvariance == Spec => []MessageInv
    <1>1. Init => MessageInv
          BY EmptyInv DEF Init
    <1>2. MessageInv /\ [Next]_vars => MessageInv'
          BY MessageStep
    <1>3. QED
          BY <1>1, <1>2, PTL DEF Spec

---------------------------------------------------------------------------
(* What the invariant implies *)

\* The header fields keep to their bits, for all formats and payload lengths.
THEOREM TypeCorrectness == Spec => []TypeOK
    BY MessageInvariance, PTL DEF MessageInv

\* What IsValid accepts, a reader can walk over: the payload GetPayloadLength
\* reports lies inside the message and the message inside the buffer.
THEOREM ReadersStayInside == Spec => []AcceptedIsReadable
    <1>1. MessageInv => AcceptedIsReadable
      <2> SUFFICES ASSUME MessageInv, accepted
                   PROVE  LET f == Formats[fmt] IN
                          /\ GetPayloadLength(f, h) >= 0
                          /\ f.hdr + GetPayloadLength(f, h) <= AcfMsgLengthInBytes(h)
                          /\ AcfMsgLengthInBytes(h) <= size
            BY DEF AcceptedIsReadable
      <2> DEFINE f == Formats[fmt]
                 bytes == AcfMsgLengthInBytes(h)
      <2>1. /\ f.hdr \in Nat /\ f.ret \in {256, 65536}
            /\ f.kind \in {"padded", "counted", "plain", "fixed"}
            BY FormatFacts DEF MessageInv, TypeOK, HeaderSizes
      <2>2. h \in Header /\ bytes \in Nat /\ h.pad \in Nat
            BY DEF MessageInv, TypeOK, Header, Below, AcfMsgLengthInBytes
      <2>3. bytes <= size /\ LengthsConsistent(f, h)
            BY DEF MessageInv, AcceptedIsValid, IsValid
      <2> HIDE DEF bytes, f
      <2>4. CASE f.kind = "padded"
        <3>1. bytes >= f.hdr + h.pad
              BY <2>3, <2>4 DEF LengthsConsistent, bytes
        <3>2. GetPayloadLength(f, h) = (bytes - f.hdr - h.pad) % f.ret
              BY <2>4 DEF GetPayloadLength, bytes
        <3>3. /\ (bytes - f.hdr - h.pad) % f.ret \in Nat
              /\ (bytes - f.hdr - h.pad) % f.ret <= bytes - f.hdr - h.pad
              BY <2>1, <2>2, <3>1
        <3>4. QED
              BY <2>1, <2>2, <2>3, <3>1, <3>2, <3>3 DEF bytes, f
      <2>5. CASE f.kind = "counted"
        <3>1. bytes = f.hdr + 4 * ((SensorOctets(h) + 3) \div 4)
              BY <2>3, <2>5 DEF LengthsConsistent, bytes
        <3>2. GetPayloadLength(f, h) = SensorOctets(h)
              BY <2>5 DEF GetPayloadLength
        <3>3. SensorOctets(h) \in Nat
              BY <2>2, SensorFacts
        <3>4. QED
              BY <2>1, <2>2, <2>3, <3>1, <3>2, <3>3 DEF bytes, f
      <2>6. CASE f.kind = "plain" \/ f.kind = "fixed"
        <3>1. bytes >= f.hdr
          <4>1. CASE f.kind = "plain"
                BY <2>3, <4>1 DEF LengthsConsistent, bytes
          <4>2. CASE f.kind = "fixed"
            <5>1. bytes = f.hdr
                  BY <2>3, <4>2 DEF LengthsConsistent, bytes
            <5>2. QED
                  BY <2>1, <5>1
          <4>3. QED
                BY <2>6, <4>1, <4>2
        <3>2. GetPayloadLength(f, h) = bytes - f.hdr
              BY <2>6 DEF GetPayloadLength, bytes
        <3>3. QED
              BY <2>1, <2>2, <2>3, <3>1, <3>2 DEF bytes, f
      <2>7. QED
            BY <2>1, <2>4, <2>5, <2>6
    <1>2. QED
          BY <1>1, MessageInvariance, PTL

\* The size of a made message that the length field can express.
LEMMA MadeSize ==
    ASSUME MessageInv, made, Expressible
    PROVE  LET f == Formats[fmt] IN
           AcfMsgLengthInBytes(h) = f.hdr + n + PadOf(f.hdr, n)
    <1> DEFINE f == Formats[fmt]
    <1>1. f.hdr \in HeaderSizes
          BY FormatFacts DEF MessageInv, TypeOK
    <1>2. n \in Nat /\ f.hdr + n <= 2044
          BY DEF MessageInv, TypeOK, U16, Below, Expressible, FitsLengthField
    <1>3. CASE f.kind # "fixed"
      <2>1. h.len = QuadletsOf(f.hdr, n) /\ QuadletsOf(f.hdr, n) \in Nat
            BY <1>1, <1>2, <1>3, QuadletFacts DEF MessageInv, HeaderMatchesPayload, Below
      <2>2. 4 * QuadletsOf(f.hdr, n) = f.hdr + n + PadOf(f.hdr, n)
            BY <1>1, <1>2, QuadletFacts
      <2>3. QED
            BY <2>1, <2>2 DEF AcfMsgLengthInBytes
    <1>4. CASE f.kind = "fixed"
      <2>1. h.len = f.hdr \div 4 /\ n = 0
            BY <1>4 DEF MessageInv, HeaderMatchesPayload
      <2>2. PadOf(f.hdr, 0) = 0
            BY <1>1 DEF PadOf, HeaderSizes
      <2>3. QED
            BY <1>1, <2>1, <2>2 DEF AcfMsgLengthInBytes, HeaderSizes
    <1>5. QED
          BY <1>3, <1>4

\* GetPayloadLength undoes SetPayloadLength for every payload that fits the
\* fields and the result type.
THEOREM PayloadLengthsRoundTrip == Spec => []RoundTrip
    <1>1. MessageInv => RoundTrip
      <2> SUFFICES ASSUME MessageInv, made, Expressible
                   PROVE  IF Formats[fmt].kind = "plain"
                          THEN GetPayloadLength(Formats[fmt], h) \in n .. n + 3
                          ELSE GetPayloadLength(Formats[fmt], h) = n
            BY DEF RoundTrip
      <2> DEFINE f == Formats[fmt]
                 bytes == AcfMsgLengthInBytes(h)
      <2>1. /\ f.hdr \in HeaderSizes /\ f.hdr \in Nat
            /\ f.kind \in {"padded", "counted", "plain", "fixed"}
            /\ f.ret \in {256, 65536} /\ n \in Nat
            BY FormatFacts DEF MessageInv, TypeOK, HeaderSizes, U16, Below
      <2>2. bytes = f.hdr + n + PadOf(f.hdr, n)
            BY MadeSize
      <2>3. PadOf(f.hdr, n) \in 0 .. 3
            BY <2>1, PadFacts
      <2> HIDE DEF bytes, f
      <2>4. CASE f.kind = "padded"
        <3>1. n < f.ret /\ h.pad = PadOf(f.hdr, n)
              BY <2>4 DEF MessageInv, HeaderMatchesPayload, Expressible, FitsLengthField, f
        <3>2. bytes - f.hdr - h.pad = n
              BY <2>1, <2>2, <2>3, <3>1
        <3>3. n % f.ret = n
              BY <2>1, <3>1
        <3>4. GetPayloadLength(f, h) = n
              BY <2>4, <3>2, <3>3 DEF GetPayloadLength, bytes
        <3>5. QED
              BY <2>4, <3>4 DEF f
      <2>5. CASE f.kind = "counted"
        <3>1. GetPayloadLength(f, h) = n
              BY <2>5 DEF GetPayloadLength, MessageInv, HeaderMatchesPayload, f
        <3>2. QED
              BY <2>5, <3>1 DEF f
      <2>6. CASE f.kind = "plain" \/ f.kind = "fixed"
        <3>1. GetPayloadLength(f, h) = bytes - f.hdr
              BY <2>6 DEF GetPayloadLength, bytes
        <3>2. bytes - f.hdr = n + PadOf(f.hdr, n)
              BY <2>1, <2>2, <2>3
        <3>3. f.kind = "fixed" => n = 0 /\ PadOf(f.hdr, 0) = 0
              BY <2>1 DEF MessageInv, HeaderMatchesPayload, PadOf, HeaderSizes, f
        <3>4. QED
              BY <2>1, <2>3, <2>6, <3>1, <3>2, <3>3 DEF f
      <2>7. QED
            BY <2>1, <2>4, <2>5, <2>6
    <1>2. QED
          BY <1>1, MessageInvariance, PTL

\* No octet of an earlier message in the same buffer is sent with this one,
\* whatever the lengths of the two.
THEOREM PaddingIsClean == Spec => []NoStaleOctets
    <1>1. MessageInv => NoStaleOctets
      <2> SUFFICES ASSUME MessageInv, made
                   PROVE  AcfMsgLengthInBytes(h) <= Formats[fmt].hdr + clean
            BY DEF NoStaleOctets
      <2> DEFINE f == Formats[fmt]
      <2>1. f.hdr \in HeaderSizes /\ n \in Nat
            BY FormatFacts DEF MessageInv, TypeOK, U16, Below
      <2>2. clean = n + PadOf(f.hdr, n) /\ PadOf(f.hdr, n) \in 0 .. 3
            BY <2>1, PadFacts DEF MessageInv, HeaderMatchesPayload
      <2>3. CASE f.kind # "fixed"
        <3>1. h.len = QuadletsOf(f.hdr, n) /\ QuadletsOf(f.hdr, n) \in Nat
              BY <2>1, <2>3, QuadletFacts DEF MessageInv, HeaderMatchesPayload, Below
        <3>2. 4 * QuadletsOf(f.hdr, n) <= f.hdr + n + PadOf(f.hdr, n)
              BY <2>1, QuadletFacts
        <3>3. QED
              BY <2>1, <2>2, <3>1, <3>2 DEF AcfMsgLengthInBytes, HeaderSizes
      <2>4. CASE f.kind = "fixed"
        <3>1. h.len = f.hdr \div 4
              BY <2>4 DEF MessageInv, HeaderMatchesPayload
        <3>2. QED
              BY <2>1, <2>2, <3>1 DEF AcfMsgLengthInBytes, HeaderSizes
      <2>5. QED
            BY <2>3, <2>4
    <1>2. QED
          BY <1>1, MessageInvariance, PTL

\* A message this library made is accepted by IsValid exactly in the buffers
\* that hold all of it, as long as the payload is one the format allows.
THEOREM WritersAndReadersAgree == Spec => []MadeIsAcceptedWhole
    <1>1. MessageInv => MadeIsAcceptedWhole
      <2> DEFINE f == Formats[fmt]
                 limit == IF h.fdf THEN f.maxFd ELSE f.max
                 bytes == AcfMsgLengthInBytes(h)
      <2> SUFFICES ASSUME MessageInv, made, Expressible, n <= limit, size # -1
                   PROVE  accepted <=> size >= f.hdr + n + PadOf(f.hdr, n)
            BY DEF MadeIsAcceptedWhole
      <2>1. /\ f.hdr \in HeaderSizes /\ f.hdr \in Nat /\ n \in Nat
            /\ f.kind \in {"padded", "counted", "plain", "fixed"}
            BY FormatFacts DEF MessageInv, TypeOK, HeaderSizes, U16, Below
      <2>2. bytes = f.hdr + n + PadOf(f.hdr, n)
            BY MadeSize
      <2>3. PadOf(f.hdr, n) \in 0 .. 3 /\ (f.hdr + n + PadOf(f.hdr, n)) % 4 = 0
        <3>1. f.hdr + n \in Nat /\ f.hdr + n <= 2044
              BY <2>1 DEF Expressible, FitsLengthField
        <3> HIDE DEF f
        <3>2. (f.hdr + n) % 65536 = f.hdr + n
              BY <3>1, NoWrap, SMT
        <3>3. QED
              BY <2>1, <3>2, PadFacts
      <2>4. size \in Nat
            BY MessageConstants DEF MessageInv, TypeOK
      <2>5. accepted <=> IsValid(f, h, size)
            BY DEF MessageInv, AcceptedIsValid
      <2>6. h.type = f.type
            BY DEF MessageInv, HeaderMatchesPayload
      <2>7. LengthsConsistent(f, h)
        <3>1. CASE f.kind = "padded"
          <4>1. h.pad = PadOf(f.hdr, n)
                BY <3>1 DEF MessageInv, HeaderMatchesPayload
          <4>2. bytes >= f.hdr + h.pad /\ bytes - f.hdr - h.pad = n
                BY <2>1, <2>2, <2>3, <4>1
          <4>3. QED
                BY <3>1, <4>2 DEF LengthsConsistent
        <3>2. CASE f.kind = "counted"
          <4>1. n = SensorOctets(h)
                BY <3>2 DEF MessageInv, HeaderMatchesPayload
          <4>2. n + PadOf(f.hdr, n) = 4 * ((n + 3) \div 4)
                BY <2>1, <2>3, RoundedUp
          <4>3. bytes >= f.hdr /\ bytes = f.hdr + 4 * ((n + 3) \div 4)
                BY <2>1, <2>2, <2>3, <4>2
          <4>4. QED
                BY <3>2, <4>1, <4>3 DEF LengthsConsistent
        <3>3. CASE f.kind = "plain"
          <4>1. bytes >= f.hdr
                BY <2>1, <2>2, <2>3
          <4>2. QED
                BY <3>3, <4>1 DEF LengthsConsistent
        <3>4. CASE f.kind = "fixed"
          <4>1. n = 0 /\ PadOf(f.hdr, 0) = 0
                BY <2>1, <3>4 DEF MessageInv, HeaderMatchesPayload, PadOf, HeaderSizes
          <4>2. bytes = f.hdr
                BY <2>1, <2>2, <4>1
          <4>3. QED
                BY <3>4, <4>2 DEF LengthsConsistent
        <3>5. QED
              BY <2>1, <3>1, <3>2, <3>3, <3>4
      <2>8. accepted <=> size >= f.hdr /\ bytes <= size
            BY <2>5, <2>6, <2>7 DEF IsValid
      <2>9. QED
            BY <2>1, <2>2, <2>3, <2>4, <2>8
    <1>2. QED
          BY <1>1, MessageInvariance, PTL
=============================================================================
