----------------------------- MODULE AcfMessage -----------------------------
(***************************************************************************)
(* The length bookkeeping of an ACF message: CreateAcfMessage,             *)
(* SetPayloadLength, GetPayloadLength and IsValid of the formats under     *)
(* include/avtp/acf.  The header stores the length of the message in       *)
(* quadlets (9 bits) and, in most formats, the number of padding octets (2 *)
(* bits); the payload length is computed back from the two.                *)
(*                                                                         *)
(* A writer makes messages in a buffer it reuses; a reader is handed a     *)
(* buffer that holds such a message, whole or cut short, or a header with  *)
(* any contents.  Lengths and conversions keep the widths of the C types.  *)
(*                                                                         *)
(* Formats   name -> [hdr, type, kind, ret, max, maxFd]:                   *)
(*             hdr    octets of the header                                 *)
(*             type   acf_msg_type                                         *)
(*             kind   "padded": has a pad field;  "counted": the payload   *)
(*                    length follows from num_sensors and sz;  "plain":    *)
(*                    neither;  "fixed": no payload                        *)
(*             ret    values of the result type of GetPayloadLength        *)
(*             max    longest payload IsValid accepts, maxFd with FDF set  *)
(* Payloads  payload lengths writers pass (uint16_t)                       *)
(* Sensors   the num_sensors and sz writers of sensor messages pass        *)
(* Forged    headers that arrive from elsewhere                            *)
(* Sizes     sizes of the buffer a reader is given (size_t)                *)
(***************************************************************************)
EXTENDS Integers

CONSTANTS Formats, Payloads, Sensors, Forged, Sizes

\* The values of an unsigned field or type.
Below(k) == {x \in Nat : x < k}
U16 == Below(65536)

\* Octets of a payload and its padding.
Extent == Below(65536 + 3)

Header == [type : Below(128), len : Below(512), pad : Below(4), fdf : BOOLEAN,
           num : Below(128), sz : Below(4)]

HeaderSizes == {4, 8, 12, 16, 20, 24}

Format == [hdr : HeaderSizes, type : Below(128),
           kind : {"padded", "counted", "plain", "fixed"},
           ret : {256, 65536}, max : Nat, maxFd : Nat]

ASSUME FormatConstants == \A f \in DOMAIN Formats : Formats[f] \in Format

ASSUME MessageConstants ==
    /\ Payloads \subseteq U16
    /\ Sensors \subseteq Below(128) \X Below(4)
    /\ Forged \subseteq Header
    /\ Sizes \subseteq Nat

VARIABLES
    fmt,        \* the format of the message
    h,          \* its header fields
    made,       \* TRUE: by this library's CreateAcfMessage; FALSE: received
    n,          \* payload octets the writer copied (made messages)
    clean,      \* octets after the header that belong to this message: payload
                \* and zeroed padding; what follows is left from earlier messages
    size,       \* the buffer the reader was given, or -1
    accepted    \* what IsValid said of it

vars == <<fmt, h, made, n, clean, size, accepted>>

---------------------------------------------------------------------------
(* The formats *)

Unlimited == 65535

Can        == [hdr |-> 16, type |-> 1, kind |-> "padded", ret |-> 256, max |-> 8, maxFd |-> 64]
CanBrief   == [hdr |-> 8, type |-> 2, kind |-> "padded", ret |-> 256, max |-> 8, maxFd |-> 64]
CanV2      == [hdr |-> 16, type |-> 33, kind |-> "padded", ret |-> 256, max |-> 8, maxFd |-> 64]
CanBriefV2 == [hdr |-> 8, type |-> 34, kind |-> "padded", ret |-> 256, max |-> 8, maxFd |-> 64]
FlexRay == [hdr |-> 16, type |-> 0, kind |-> "padded", ret |-> 256, max |-> 254, maxFd |-> 254]
Lin     == [hdr |-> 12, type |-> 3, kind |-> "padded", ret |-> 256, max |-> 8, maxFd |-> 8]
CanXl   == [hdr |-> 24, type |-> 17, kind |-> "padded", ret |-> 256,
            max |-> Unlimited, maxFd |-> Unlimited]
CanXlBrief == [hdr |-> 16, type |-> 18, kind |-> "padded", ret |-> 256,
               max |-> Unlimited, maxFd |-> Unlimited]
Most == [hdr |-> 20, type |-> 4, kind |-> "padded", ret |-> 256,
         max |-> Unlimited, maxFd |-> Unlimited]
Gbb  == [hdr |-> 16, type |-> 13, kind |-> "padded", ret |-> 256,
         max |-> Unlimited, maxFd |-> Unlimited]
Abb  == [hdr |-> 8, type |-> 14, kind |-> "padded", ret |-> 256,
         max |-> Unlimited, maxFd |-> Unlimited]
Gisf == [hdr |-> 20, type |-> 12, kind |-> "padded", ret |-> 65536,
         max |-> Unlimited, maxFd |-> Unlimited]
Sensor == [hdr |-> 12, type |-> 8, kind |-> "counted", ret |-> 65536,
           max |-> Unlimited, maxFd |-> Unlimited]
SensorBrief == [hdr |-> 4, type |-> 9, kind |-> "counted", ret |-> 65536,
                max |-> Unlimited, maxFd |-> Unlimited]
Gpc  == [hdr |-> 8, type |-> 5, kind |-> "plain", ret |-> 65536,
         max |-> Unlimited, maxFd |-> Unlimited]
I2C      == [hdr |-> 16, type |-> 15, kind |-> "fixed", ret |-> 65536, max |-> 0, maxFd |-> 0]
I2CBrief == [hdr |-> 8, type |-> 16, kind |-> "fixed", ret |-> 65536, max |-> 0, maxFd |-> 0]

---------------------------------------------------------------------------
(* The operations *)

AcfMsgLengthInBytes(hd) == hd.len * 4

\* The padding that SetPayloadLength zeroes behind `len' payload octets.
PadOf(hdr, len) == (4 - (((hdr + len) % 65536) % 4)) % 4

\* Mutant of QuadletsOf: the length is not cut to 9 bits.
QuadletsOf_Wide(hdr, len) == (((hdr + len) % 65536) + PadOf(hdr, len)) \div 4

\* acf_msg_length as SetPayloadLength stores it: uint16_t sums, a 9-bit field.
QuadletsOf(hdr, len) == ((((hdr + len) % 65536) + PadOf(hdr, len)) \div 4) % 512

SetPayloadLength(f, hd, len) ==
    IF f.kind = "fixed" THEN [hd EXCEPT !.len = f.hdr \div 4]
    ELSE [hd EXCEPT !.len = QuadletsOf(f.hdr, len),
                    !.pad = IF f.kind = "padded" THEN PadOf(f.hdr, len) ELSE @]

\* num_sensors = 0 stands for 128 sensors, sz = 0 for 4 octets.
SensorOctets(hd) ==
    (IF hd.num = 0 THEN 128 ELSE hd.num) * (IF hd.sz = 0 THEN 4 ELSE hd.sz)

\* Mutant of GetPayloadLength: the padding is not subtracted.
GetPayloadLength_WithPad(f, hd) ==
    CASE f.kind = "padded"  -> (AcfMsgLengthInBytes(hd) - f.hdr) % f.ret
      [] f.kind = "counted" -> SensorOctets(hd)
      [] OTHER              -> AcfMsgLengthInBytes(hd) - f.hdr

\* GPC and I2C have no GetPayloadLength: readers take what follows the header.
GetPayloadLength(f, hd) ==
    CASE f.kind = "padded"  -> (AcfMsgLengthInBytes(hd) - f.hdr - hd.pad) % f.ret
      [] f.kind = "counted" -> SensorOctets(hd)
      [] OTHER              -> AcfMsgLengthInBytes(hd) - f.hdr

\* Mutant of LengthsConsistent: the padding may be longer than the payload area.
LengthsConsistent_PadUnchecked(f, hd) ==
    LET bytes == AcfMsgLengthInBytes(hd) IN
    CASE f.kind = "padded"  -> /\ bytes >= f.hdr
                               /\ bytes - f.hdr - hd.pad <= (IF hd.fdf THEN f.maxFd ELSE f.max)
      [] f.kind = "counted" -> bytes = f.hdr + 4 * ((SensorOctets(hd) + 3) \div 4)
      [] f.kind = "plain"   -> bytes >= f.hdr
      [] f.kind = "fixed"   -> bytes = f.hdr

\* The format-specific part of IsValid.
LengthsConsistent(f, hd) ==
    LET bytes == AcfMsgLengthInBytes(hd) IN
    CASE f.kind = "padded" ->
            /\ bytes >= f.hdr + hd.pad
            /\ bytes - f.hdr - hd.pad <= (IF hd.fdf THEN f.maxFd ELSE f.max)
      [] f.kind = "counted" ->
            /\ bytes >= f.hdr
            /\ bytes = f.hdr + 4 * ((SensorOctets(hd) + 3) \div 4)
      [] f.kind = "plain" -> bytes >= f.hdr
      [] f.kind = "fixed" -> bytes = f.hdr

\* Mutant of IsValid: a buffer that ends with the message is refused.
IsValid_Strict(f, hd, bufferSize) ==
    /\ bufferSize >= f.hdr
    /\ hd.type = f.type
    /\ AcfMsgLengthInBytes(hd) < bufferSize
    /\ LengthsConsistent(f, hd)

IsValid(f, hd, bufferSize) ==
    /\ bufferSize >= f.hdr
    /\ hd.type = f.type
    /\ AcfMsgLengthInBytes(hd) <= bufferSize
    /\ LengthsConsistent(f, hd)

---------------------------------------------------------------------------
(* The state machine *)

\* A buffer with no message of the format yet.
Empty ==
    /\ h = [type |-> Formats[fmt].type, len |-> 0, pad |-> 0, fdf |-> FALSE, num |-> 0, sz |-> 0]
    /\ made = FALSE /\ n = 0 /\ clean = 0
    /\ size = -1 /\ accepted = FALSE

Init == fmt \in DOMAIN Formats /\ Empty

\* The payload a caller of CreateAcfMessage passes: for the sensor formats its
\* length is the one the num_sensors and sz arguments say.
PayloadFor(f, hd, len) ==
    IF f.kind = "counted" THEN SensorOctets(hd) ELSE IF f.kind = "fixed" THEN 0 ELSE len

\* Mutant of CreateAcfMessage: the padding is not zeroed.
CreateAcfMessage_DirtyPad(len, fdf, num, sz) ==
    LET f == Formats[fmt]
        fresh == [type |-> f.type, len |-> 0, pad |-> 0, fdf |-> fdf, num |-> num, sz |-> sz]
        octets == PayloadFor(f, fresh, len)
    IN /\ Empty
       /\ h' = SetPayloadLength(f, fresh, octets)
       /\ made' = TRUE /\ n' = octets /\ clean' = octets
       /\ UNCHANGED <<fmt, size, accepted>>

\* Avtp_X_CreateAcfMessage: Init clears the header, then payload and lengths.
CreateAcfMessage(len, fdf, num, sz) ==
    LET f == Formats[fmt]
        fresh == [type |-> f.type, len |-> 0, pad |-> 0, fdf |-> fdf, num |-> num, sz |-> sz]
        octets == PayloadFor(f, fresh, len)
    IN /\ Empty
       /\ h' = SetPayloadLength(f, fresh, octets)
       /\ made' = TRUE
       /\ n' = octets
       /\ clean' = octets + PadOf(f.hdr, octets)
       /\ UNCHANGED <<fmt, size, accepted>>

\* Another payload in the same message: Avtp_X_SetPayload, Avtp_X_SetPayloadLength.
ReplacePayload(len) ==
    /\ made /\ Formats[fmt].kind \in {"padded", "plain"}
    /\ h' = SetPayloadLength(Formats[fmt], h, len)
    /\ n' = len
    /\ clean' = len + PadOf(Formats[fmt].hdr, len)
    /\ size' = -1 /\ accepted' = FALSE
    /\ UNCHANGED <<fmt, made>>

\* A message from elsewhere arrives in the buffer; it may claim to be of the
\* reader's format.
Receive(hd, claims) ==
    /\ Empty
    /\ h' = IF claims THEN [hd EXCEPT !.type = Formats[fmt].type] ELSE hd
    /\ UNCHANGED <<fmt, made, n, clean, size, accepted>>

\* A reader is given bufferSize octets of it and validates.
Validate(bufferSize) ==
    /\ size' = bufferSize
    /\ accepted' = IsValid(Formats[fmt], h, bufferSize)
    /\ UNCHANGED <<fmt, h, made, n, clean>>

\* The buffer is used for the next message.
Reuse ==
    /\ size # -1
    /\ h' = [type |-> Formats[fmt].type, len |-> 0, pad |-> 0, fdf |-> FALSE, num |-> 0, sz |-> 0]
    /\ made' = FALSE /\ n' = 0 /\ clean' = 0
    /\ size' = -1 /\ accepted' = FALSE
    /\ UNCHANGED fmt

Next ==
    \/ \E len \in Payloads, fdf \in BOOLEAN, sensors \in Sensors :
          CreateAcfMessage(len, fdf, sensors[1], sensors[2])
    \/ \E len \in Payloads : ReplacePayload(len)
    \/ \E hd \in Forged, claims \in BOOLEAN : Receive(hd, claims)
    \/ \E s \in Sizes : Validate(s)
    \/ Reuse

Spec == Init /\ [][Next]_vars

---------------------------------------------------------------------------
(* Properties *)

\* The header fields keep to their bits.
TypeOK ==
    /\ fmt \in DOMAIN Formats /\ h \in Header /\ made \in BOOLEAN
    /\ n \in U16 /\ clean \in Extent
    /\ size \in Sizes \cup {-1} /\ accepted \in BOOLEAN

\* The contract of docs/api-design.md: a message that IsValid accepts can be read
\* without leaving the buffer or the message, whatever its header says: header
\* and payload as GetPayloadLength reports it fit, and nothing underflows.
AcceptedIsReadable ==
    accepted =>
        /\ GetPayloadLength(Formats[fmt], h) >= 0
        /\ Formats[fmt].hdr + GetPayloadLength(Formats[fmt], h) <= AcfMsgLengthInBytes(h)
        /\ AcfMsgLengthInBytes(h) <= size

\* The 9-bit length field can hold the quadlets of the message.
FitsLengthField == Formats[fmt].hdr + n <= 4 * 511

\* ... and the result type of GetPayloadLength the length of its payload.
Expressible ==
    /\ FitsLengthField
    /\ Formats[fmt].kind = "padded" => n < Formats[fmt].ret

\* GetPayloadLength is the inverse of SetPayloadLength for every payload the
\* fields and the result type can express; GPC rounds up to quadlets.
RoundTrip ==
    made /\ Expressible =>
        IF Formats[fmt].kind = "plain"
        THEN GetPayloadLength(Formats[fmt], h) \in n .. n + 3
        ELSE GetPayloadLength(Formats[fmt], h) = n

\* A message made with a payload the format allows is accepted in every buffer
\* that holds all of it, and refused in every buffer that cuts it short.
MadeIsAcceptedWhole ==
    LET limit == IF h.fdf THEN Formats[fmt].maxFd ELSE Formats[fmt].max IN
    made /\ Expressible /\ n <= limit /\ size # -1 =>
        (accepted <=> size >= Formats[fmt].hdr + n + PadOf(Formats[fmt].hdr, n))

\* SetPayloadLength zeroes the padding "to avoid leaking information": no octet
\* of an earlier, longer message in the same buffer is part of this one.
NoStaleOctets ==
    made => AcfMsgLengthInBytes(h) <= Formats[fmt].hdr + clean

\* docs/api-design.md on GetPayloadLength: "the inverse: recover the true payload
\* length", assuming only that the message was accepted by IsValid.  Messages whose
\* header declares another length, because 9 bits cannot hold theirs, are left out:
\* what is wrong with a length that the header does hold is the result type.
TruePayloadLength ==
    made /\ accepted /\ FitsLengthField /\ Formats[fmt].kind = "padded" =>
        GetPayloadLength(Formats[fmt], h) = n
=============================================================================
