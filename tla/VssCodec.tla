------------------------------ MODULE VssCodec ------------------------------
(***************************************************************************)
(* The codec for VSS messages (src/avtp/acf/custom/Vss.c): a fixed header, *)
(* a path (a number, or a string with its length in front) and a datum (a  *)
(* scalar, or an array with its length in front).  Setters write where the *)
(* path ends; getters trust none of the lengths they find and clamp them   *)
(* to the declared length of the message.                                  *)
(*                                                                         *)
(* A PDU is a record of the header fields the codec looks at and the       *)
(* octets behind the header.  A getter is an operator that returns the     *)
(* value and the offsets it has read.  Values are sequences: of one number *)
(* for a scalar or a static path, empty where the target is left alone.    *)
(*                                                                         *)
(* Octet        number of values of an octet (256)                         *)
(* Quadlet, HeaderLen, StaticLen   4, AVTP_VSS_FIXED_HEADER_LEN and the    *)
(*              length of a static path                                    *)
(* LenMod       range of acf_msg_length (512)                              *)
(* Room         octets of the buffer behind the header                     *)
(* Paths, Ids   interop and static paths a talker sends                    *)
(* Worlds       for each world what the messages in it are made of:        *)
(*                modes   "static", "interop", "reserved" (addressing)     *)
(*                values  for each datatype in use the data a talker sends *)
(*                texts   lists of strings a talker sends                  *)
(*                bodies, lens   octets and declared quadlets of messages  *)
(*                        of others                                        *)
(***************************************************************************)
EXTENDS Integers, Sequences, SequencesExt

CONSTANTS Octet, Quadlet, HeaderLen, StaticLen, LenMod, Room, Paths, Ids, Worlds

\* sizeof of a scalar, and of an element of an array
ScalarWidth ==
    [VSS_UINT8 |-> 1, VSS_INT8 |-> 1, VSS_UINT16 |-> 2, VSS_INT16 |-> 2, VSS_UINT32 |-> 4,
     VSS_INT32 |-> 4, VSS_UINT64 |-> 8, VSS_INT64 |-> 8, VSS_BOOL |-> 1, VSS_FLOAT |-> 4,
     VSS_DOUBLE |-> 8]
ElementWidth ==
    [VSS_STRING |-> 1, VSS_UINT8_ARRAY |-> 1, VSS_INT8_ARRAY |-> 1, VSS_UINT16_ARRAY |-> 2,
     VSS_INT16_ARRAY |-> 2, VSS_UINT32_ARRAY |-> 4, VSS_INT32_ARRAY |-> 4,
     VSS_UINT64_ARRAY |-> 8, VSS_INT64_ARRAY |-> 8, VSS_BOOL_ARRAY |-> 1,
     VSS_FLOAT_ARRAY |-> 4, VSS_DOUBLE_ARRAY |-> 8, VSS_STRING_ARRAY |-> 1]
Signed ==
    {"VSS_INT8", "VSS_INT16", "VSS_INT32", "VSS_INT64", "VSS_INT8_ARRAY", "VSS_INT16_ARRAY",
     "VSS_INT32_ARRAY", "VSS_INT64_ARRAY"}

U16 == Octet * Octet

ASSUME CodecConstants ==
    /\ Octet \in Nat \ {0, 1} /\ Quadlet \in Nat \ {0} /\ StaticLen \in Nat
    /\ HeaderLen \in Nat \ {0} /\ HeaderLen % Quadlet = 0
    /\ LenMod \in Nat \ {0} /\ Room \in Nat /\ HeaderLen + Room + Quadlet <= U16
    /\ \A w \in Range(Worlds) :
           /\ w.modes \subseteq {"static", "interop", "reserved"}
           /\ DOMAIN w.values \subseteq DOMAIN ScalarWidth \cup DOMAIN ElementWidth \cup {"unknown"}
           /\ \A b \in w.bodies : Len(b) = Room
           /\ w.lens \subseteq 0 .. LenMod - 1

VARIABLES
    world,  \* the world of this behaviour (it does not change)
    pdu,    \* [type, len, pad, mode, dt, body]
    stage,  \* "blank", "header", "path", "array", "data" (done so far), "framed" (complete),
            \* "cut" (a complete one with a smaller declared length), "foreign"
    made    \* what has been written: [path, data, texts, end], history

vars == <<world, pdu, stage, made>>

Modes == Worlds[world].modes
Values == Worlds[world].values
Datatypes == DOMAIN Values
Texts == Worlds[world].texts
Bodies == Worlds[world].bodies
Lens == Worlds[world].lens

Nothing == [path |-> <<>>, data |-> <<>>, texts |-> <<>>, end |-> 0]
Blank == [type |-> "other", len |-> 0, pad |-> 0, mode |-> "interop", dt |-> "VSS_UINT8",
          body |-> [i \in 1 .. Room |-> Octet - 1]]

Init == world \in DOMAIN Worlds /\ pdu = Blank /\ stage = "blank" /\ made = Nothing

---------------------------------------------------------------------------
(* Octets *)

\* Avtp_CpuToBe16, 32, 64 of a value, two's complement
ToBe(v, w) == [i \in 1 .. w |-> (v \div Octet ^ (w - i)) % Octet]

\* Avtp_BeToCpu16, 32, 64
FromBe(s) == FoldLeft(LAMBDA acc, o : acc * Octet + o, 0, s)

\* The cast to the C type of the datatype
AsValue(dt, s) ==
    LET n == FromBe(s)
    IN IF dt \in Signed /\ 2 * n >= Octet ^ Len(s) THEN n - Octet ^ Len(s) ELSE n

\* n octets at an offset of the PDU; behind the buffer anything may be read
Octets(p, at, n) ==
    [i \in 1 .. n |-> IF at - HeaderLen + i \in 1 .. Room THEN p.body[at - HeaderLen + i] ELSE 0]

Write(p, at, s) ==
    [p EXCEPT !.body = [i \in 1 .. Room |->
        LET k == i - (at - HeaderLen) IN IF k \in DOMAIN s THEN s[k] ELSE @[i]]]

---------------------------------------------------------------------------
(* Getters *)

\* Avtp_AcfCommon_GetAcfMsgLengthInBytes
Declared(p) == p.len * Quadlet

vss_read_clamped_length(p, at) ==
    LET wire == FromBe(Octets(p, at, 2))
    IN IF at + 2 > Declared(p) THEN [n |-> 0, reads |-> {}]
       ELSE [n |-> IF at + 2 + wire > Declared(p) THEN Declared(p) - at - 2 ELSE wire,
             reads |-> at .. at + 1]

vss_get_clamped_path_length(p) ==
    LET prefix == vss_read_clamped_length(p, HeaderLen)
        behind == Declared(p) - HeaderLen
    IN CASE p.mode = "static" -> [n |-> IF behind >= StaticLen THEN StaticLen
                                        ELSE IF behind > 0 THEN behind ELSE 0, reads |-> {}]
         [] p.mode = "interop" /\ behind >= 2 -> [prefix EXCEPT !.n = @ + 2]
         [] OTHER -> [n |-> 0, reads |-> {}]

\* Mutant: scalars are read unchecked.
vss_has_bytes_Unchecked(p, at, n) == TRUE

vss_has_bytes(p, at, n) == at + n <= Declared(p)

\* Avtp_Vss_IsValid
IsValid(p, size) ==
    /\ size >= HeaderLen
    /\ p.type = "vss"
    /\ Declared(p) >= HeaderLen /\ Declared(p) <= size

\* Avtp_Vss_GetVssPath
GetVssPath(p) ==
    LET clamped == vss_get_clamped_path_length(p)
        n == IF clamped.n >= 2 THEN clamped.n - 2 ELSE 0
    IN CASE p.mode = "static" ->
              IF clamped.n >= StaticLen
              THEN [val |-> <<FromBe(Octets(p, HeaderLen, StaticLen))>>,
                    reads |-> HeaderLen .. HeaderLen + StaticLen - 1]
              ELSE [val |-> <<0>>, reads |-> {}]
         [] p.mode = "interop" ->
              [val |-> Octets(p, HeaderLen + 2, n),
               reads |-> clamped.reads \cup (HeaderLen + 2 .. HeaderLen + 1 + n)]
         [] OTHER -> [val |-> <<>>, reads |-> {}]

\* The branches of Avtp_Vss_GetVssData for scalars and for arrays
GetScalar(p, at, w) ==
    IF vss_has_bytes(p, at, w)
    THEN [val |-> <<AsValue(p.dt, Octets(p, at, w))>>, reads |-> at .. at + w - 1]
    ELSE [val |-> <<>>, reads |-> {}]

GetArray(p, at, w) ==
    LET length == vss_read_clamped_length(p, at)
        count == length.n \div w
    IN [val |-> [i \in 1 .. count |-> AsValue(p.dt, Octets(p, at + 2 + (i - 1) * w, w))],
        reads |-> length.reads \cup (at + 2 .. at + 1 + count * w)]

\* Avtp_Vss_GetVssData
GetVssData(p) ==
    LET path == vss_get_clamped_path_length(p)
        at == HeaderLen + path.n
        got == CASE p.dt \in DOMAIN ScalarWidth -> GetScalar(p, at, ScalarWidth[p.dt])
                 [] p.dt \in DOMAIN ElementWidth -> GetArray(p, at, ElementWidth[p.dt])
                 [] OTHER -> [val |-> <<>>, reads |-> {}]
    IN [got EXCEPT !.reads = @ \cup path.reads]

---------------------------------------------------------------------------
(* Arrays of strings *)

\* Mutant: strings that do not fit are skipped.
SerializeStringArray_Skips(strings) ==
    LET Add(acc, s) ==
            IF Len(acc) + Len(s) + 2 > U16 - 1 THEN acc ELSE acc \o ToBe(Len(s), 2) \o s
    IN FoldLeft(Add, <<>>, strings)

\* Avtp_Vss_SerializeStringArray: stops at the first string that does not fit
SerializeStringArray(strings) ==
    LET Add(acc, s) ==
            IF acc.full \/ Len(acc.data) + Len(s) + 2 > U16 - 1
            THEN [acc EXCEPT !.full = TRUE]
            ELSE [acc EXCEPT !.data = @ \o ToBe(Len(s), 2) \o s]
    IN FoldLeft(Add, [data |-> <<>>, full |-> FALSE], strings).data

\* The string at a position of the array, if all of it is there
Entry(array, at) ==
    LET n == FromBe(SubSeq(array, at + 1, at + 2))
        fits == at + 2 <= Len(array) /\ at + 2 + n <= Len(array)
    IN IF fits THEN [next |-> at + 2 + n, string |-> SubSeq(array, at + 3, at + 2 + n)]
       ELSE [next |-> at, string |-> <<>>]

\* Avtp_Vss_DeserializeStringArray into `max' strings; with no other limit than
\* the array it makes the turns of Avtp_Vss_GetVSSDataStringArrayLength.
DeserializeStringArray(array, max) ==
    LET Turn(acc, i) ==
            LET e == Entry(array, acc.at)
            IN IF acc.done \/ e.next = acc.at THEN [acc EXCEPT !.done = TRUE]
               ELSE [acc EXCEPT !.at = e.next, !.strings = Append(@, e.string)]
    IN FoldLeft(Turn, [at |-> 0, strings |-> <<>>, done |-> FALSE], [i \in 1 .. max |-> i])

GetVSSDataStringArrayLength(array) ==
    Len(DeserializeStringArray(array, Len(array)).strings)

---------------------------------------------------------------------------
(* Setters *)

\* Avtp_Vss_Init, Avtp_Vss_SetAddrMode and Avtp_Vss_SetDatatype in a buffer
\* that may hold an earlier message
Prepare(mode, dt) ==
    /\ stage \in {"blank", "framed"}
    /\ pdu' = [pdu EXCEPT !.type = "vss", !.len = 0, !.pad = 0, !.mode = mode, !.dt = dt]
    /\ stage' = "header" /\ made' = Nothing /\ UNCHANGED world

\* Avtp_Vss_SetVssPath
SetVssPath(path) ==
    /\ stage = "header"
    /\ LET s == CASE pdu.mode = "static" -> ToBe(Head(path), StaticLen)
                  [] pdu.mode = "interop" -> ToBe(Len(path), 2) \o path
                  [] OTHER -> <<>>
       IN pdu' = Write(pdu, HeaderLen, s) /\ Len(s) <= Room
    /\ stage' = "path" /\ made' = [made EXCEPT !.path = path] /\ UNCHANGED world

\* Avtp_Vss_CalcVssPathLength: the octets of the path as written
CalcVssPathLength(p) ==
    CASE p.mode = "static" -> StaticLen
      [] p.mode = "interop" -> (FromBe(Octets(p, HeaderLen, 2)) + 2) % U16
      [] OTHER -> 0

\* Avtp_Vss_SetVssData; the caller's buffer is large enough
Encoded(dt, data) ==
    CASE dt \in DOMAIN ScalarWidth -> ToBe(Head(data), ScalarWidth[dt])
      [] dt \in DOMAIN ElementWidth ->
           ToBe(Len(data) * ElementWidth[dt], 2)
             \o FlattenSeq([i \in DOMAIN data |-> ToBe(data[i], ElementWidth[dt])])
      [] OTHER -> <<>>

SetVssData(data) ==
    LET at == HeaderLen + CalcVssPathLength(pdu)
        s == Encoded(pdu.dt, data)
    IN /\ stage \in {"path", "array"}
       /\ at + Len(s) <= HeaderLen + Room
       /\ pdu' = Write(pdu, at, s)
       /\ stage' = "data"
       /\ made' = [made EXCEPT !.data = data, !.end = at + Len(s)]
       /\ UNCHANGED world

\* An array of strings is serialised before it is set.
Serialize(texts) ==
    /\ stage = "path" /\ pdu.dt = "VSS_STRING_ARRAY"
    /\ made' = [made EXCEPT !.data = SerializeStringArray(texts), !.texts = texts]
    /\ stage' = "array" /\ UNCHANGED <<world, pdu>>

\* Mutant: the padding is not cleared.
SetPayloadLength_DirtyPad ==
    LET msgLen == made.end % U16
        pad == (Quadlet - (msgLen % Quadlet)) % Quadlet
    IN /\ stage = "data" /\ msgLen + pad <= HeaderLen + Room
       /\ pdu' = [pdu EXCEPT !.len = (((msgLen + pad) % U16) \div Quadlet) % LenMod, !.pad = pad]
       /\ stage' = "framed" /\ UNCHANGED <<world, made>>

\* Avtp_Vss_SetPayloadLength for path and data
SetPayloadLength ==
    LET msgLen == made.end % U16
        pad == (Quadlet - (msgLen % Quadlet)) % Quadlet
    IN /\ stage = "data" /\ msgLen + pad <= HeaderLen + Room
       /\ pdu' = [Write(pdu, msgLen, [i \in 1 .. pad |-> 0]) EXCEPT
                     !.len = (((msgLen + pad) % U16) \div Quadlet) % LenMod, !.pad = pad]
       /\ stage' = "framed" /\ UNCHANGED <<world, made>>

\* A message arrives whose declared length is smaller than what was written,
\* or one that nobody here has written.
Cut(len) ==
    /\ stage = "framed" /\ len < pdu.len
    /\ pdu' = [pdu EXCEPT !.len = len]
    /\ stage' = "cut" /\ UNCHANGED <<world, made>>

Foreign ==
    /\ stage = "blank"
    /\ \E mode \in Modes, dt \in Datatypes, len \in Lens, body \in Bodies :
           pdu' = [type |-> "vss", len |-> len, pad |-> 0, mode |-> mode, dt |-> dt,
                   body |-> body]
    /\ stage' = "foreign" /\ UNCHANGED <<world, made>>

PathsOf(mode) ==
    CASE mode = "static" -> {<<id>> : id \in Ids} [] mode = "interop" -> Paths [] OTHER -> {<<>>}

DataAt(s) ==
    CASE s = "path" -> Values[pdu.dt] [] s = "array" -> {made.data} [] OTHER -> {}

Next ==
    \/ \E mode \in Modes, dt \in Datatypes : Prepare(mode, dt)
    \/ \E path \in PathsOf(pdu.mode) : SetVssPath(path)
    \/ \E texts \in Texts : Serialize(texts)
    \/ \E data \in DataAt(stage) : SetVssData(data)
    \/ SetPayloadLength
    \/ \E len \in 0 .. LenMod - 1 : Cut(len)
    \/ Foreign

Spec == Init /\ [][Next]_vars

---------------------------------------------------------------------------
(* Properties *)

\* The variables have their types.
TypeOK ==
    /\ world \in DOMAIN Worlds
    /\ pdu.type \in {"other", "vss"} /\ pdu.len \in 0 .. LenMod - 1
    /\ pdu.pad \in 0 .. Quadlet - 1
    /\ pdu.body \in [1 .. Room -> 0 .. Octet - 1]
    /\ stage \in {"blank", "header", "path", "array", "data", "framed", "cut", "foreign"}

\* However the octets of an array of strings are laid out, the strings that
\* are taken from it are octets of the array, with nothing between them.
StringsCoverArray ==
    pdu.dt = "VSS_STRING_ARRAY" =>
        LET array == GetVssData(pdu).val
            got == DeserializeStringArray(array, Len(array))
        IN /\ got.at <= Len(array)
           /\ SerializeStringArray(got.strings) = SubSeq(array, 1, got.at)

\* Whatever lengths a message carries: once IsValid has compared its declared
\* length with the buffer, no getter reads outside of the buffer, and the
\* strings of an array are taken from the octets of the array.
GettersStayInside ==
    /\ TypeOK
    /\ \A size \in 0 .. HeaderLen + Room :
           IsValid(pdu, size) =>
               GetVssPath(pdu).reads \cup GetVssData(pdu).reads \subseteq HeaderLen .. size - 1
    /\ StringsCoverArray

\* No octet of an earlier message in the buffer is padding of this one.
PaddingIsZero == \A o \in 1 .. pdu.pad : Octets(pdu, made.end + o - 1, 1) = <<0>>

\* A message is read back as it was written, and is accepted in exactly the
\* buffers that hold all of it.  Of a message that is declared shorter than it
\* was written, a getter returns nothing but what was written: a prefix, the
\* whole, or no value.
RoundTrip ==
    /\ stage = "framed" =>
          /\ GetVssPath(pdu).val = made.path /\ GetVssData(pdu).val = made.data
          /\ \A size \in 0 .. HeaderLen + Room :
                 IsValid(pdu, size) <=> size >= made.end + pdu.pad
          /\ PaddingIsZero
    /\ stage = "cut" =>
          /\ IsPrefix(GetVssData(pdu).val, made.data)
          /\ \/ IsPrefix(GetVssPath(pdu).val, made.path)
             \/ pdu.mode = "static" /\ GetVssPath(pdu).val = <<0>>

\* Strings come back as they went in, all that fit in a 16-bit length; a caller
\* with places for fewer gets the first of them.
StringsRoundTrip ==
    (stage \in {"array", "framed"} /\ made.texts # <<>>) =>
        LET array == IF stage = "array" THEN made.data ELSE GetVssData(pdu).val
            strings == DeserializeStringArray(array, Len(made.texts)).strings
        IN /\ \A max \in 0 .. Len(strings) :
                  DeserializeStringArray(array, max).strings = SubSeq(made.texts, 1, max)
           /\ GetVSSDataStringArrayLength(array) = Len(strings)
           /\ Len(strings) < Len(made.texts) =>
                 Len(array) + Len(made.texts[Len(strings) + 1]) + 2 >= U16
=============================================================================
