----------------------------- MODULE AvtpHeader -----------------------------
(***************************************************************************)
(* A PDU buffer handled through the accessor API of Open1722, with the     *)
(* descriptor tables of every format at their real positions.  A caller    *)
(* initialises a header in a reused buffer and then calls setters in any   *)
(* order.  The same field can be written in up to three ways:              *)
(*                                                                         *)
(*   - Avtp_X_SetF, which picks the table by the version field of the PDU; *)
(*   - Avtp_X_SetF_V0 / _V1, pinned to one version, which for the common   *)
(*     fields go through the common header's table instead of X's own;     *)
(*   - Avtp_CommonStreamHeader_SetF, Avtp_AlternativeHeader_SetF or        *)
(*     Avtp_AcfCommon_SetF on a pointer to the common part.                *)
(*                                                                         *)
(* Formats    name -> format, of AvtpStreamLayout or AvtpAcfLayout         *)
(* Garbage    what the buffer holds before Avtp_X_Init                     *)
(* Values     the values callers pass, as sets of binary digits            *)
(* MaxWrites  bound on the number of setter calls of a behaviour           *)
(***************************************************************************)
EXTENDS AvtpStreamLayout, AvtpAcfLayout

CONSTANTS Formats, Garbage, Values, MaxWrites

\* The buffer: room for the longest header and two quadlets of payload.
BufferBits == 0 .. 32 * 12 - 1

ASSUME HeaderConstants ==
    /\ Garbage \subseteq SUBSET BufferBits
    /\ Values \subseteq SUBSET (0 .. 63)
    /\ MaxWrites \in Nat

VARIABLES
    fmt,        \* the format of the PDU
    ver,        \* the version it was initialised with
    before,     \* the buffer before Avtp_X_Init
    mem,        \* the buffer now
    rec,        \* history: what each field of the format holds according to the
                \* setter calls (the record of FieldRecord)
    seqBy,      \* who wrote the sequence number last: "format" or "common"
    writes

vars == <<fmt, ver, before, mem, rec, seqBy, writes>>

Format == Formats[fmt]
HeaderBits(f, v) == 0 .. 8 * f.length[v] - 1

\* A header without a common part.
NoAccessors == [none \in {} |-> [at |-> <<>>, type |-> 0]]

\* Mutant of CommonGetters: the version of the PDU is ignored.
CommonGetters_VersionIgnored(common, v) ==
    CASE common = "csh" -> CshGetters[1] [] common = "ah" -> AhGetters[1]
      [] common = "acf" -> AcfCommonGetters [] common = "none" -> NoAccessors

\* The accessors of the common part that a format shares.
CommonGetters(common, v) ==
    CASE common = "csh" -> CshGetters[v] [] common = "ah" -> AhGetters[v]
      [] common = "acf" -> AcfCommonGetters [] common = "none" -> NoAccessors

CommonSetters(common, v) ==
    CASE common = "csh" -> CshSetters[v] [] common = "ah" -> AhSetters[v]
      [] common = "acf" -> AcfCommonSetters [] common = "none" -> NoAccessors

\* Fields of the common part that mean the same in every format; the
\* format-specific data of the common stream header is not one of them.
CommonFields == {"SV", "MR", "TV", "TU", "SEQUENCE_NUM", "STREAM_ID", "AVTP_TIMESTAMP",
                 "PTP_GRANDMASTER_IDENTITY", "STREAM_DATA_LENGTH", "ACF_MSG_LENGTH"}

\* Fields the standard reserves; no accessor exists for them.
ReservedFields == {"RESERVED", "RESERVED1", "RESERVED2", "RESERVED3", "RESERVED_2",
                   "RSV", "RSV1", "RSV2", "RSV3", "R"}

\* Avtp_CommonHeader_GetVersion(pdu) == AVTPDU_VERSION_1, the dispatch of every
\* version-agnostic accessor.
Dispatch(m) ==
    IF 1 \in Format.versions /\ GetBits(m, CommonHeaderDesc.VERSION) = {0} THEN 1 ELSE 0

Read(m, accessor) == Cast(GetBits(m, accessor.at[1]), accessor.type)

\* A setter converts its argument to the parameter's type and stores it through
\* each of its descriptors.
Apply(m, accessor, value) ==
    LET v == Cast(value, accessor.type)
        first == SetBits(m, accessor.at[1], v)
    IN IF Len(accessor.at) = 1 THEN first ELSE SetBits(first, accessor.at[2], v)

\* What the getters of the format return.
Fields ==
    [n \in DOMAIN Format.setters[ver] |-> Read(mem, Format.getters[Dispatch(mem)][n])]

\* The part of a value that a field keeps: FieldRecord's Store.
Keep(setter, value) == Cast(value, setter.type) \cap (0 .. setter.at[1][3] - 1)

---------------------------------------------------------------------------
(* Actions *)

\* Avtp_X_Init(pdu, version) clears and fills the header, not the payload.
Init ==
    /\ fmt \in DOMAIN Formats
    /\ ver \in Format.versions
    /\ before \in Garbage
    /\ mem = (before \ HeaderBits(Format, ver)) \cup Format.init[ver]
    /\ rec = Fields
    /\ seqBy = "format"
    /\ writes = 0

Written(name, value, accessor) ==
    /\ writes < MaxWrites
    /\ mem' = Apply(mem, accessor, value)
    /\ rec' = IF name \in DOMAIN rec
              THEN [rec EXCEPT ![name] = Keep(Format.setters[ver][name], value)] ELSE rec
    /\ writes' = writes + 1
    /\ UNCHANGED <<fmt, ver, before>>

\* Avtp_X_SetF
Set(name, value) ==
    /\ Written(name, value, Format.setters[Dispatch(mem)][name])
    /\ seqBy' = IF name = "SEQUENCE_NUM" THEN "format" ELSE seqBy

\* Avtp_X_SetF_V0 or Avtp_X_SetF_V1, by a caller that knows the version
SetOf(name, value) ==
    /\ Written(name, value, Format.settersOf[ver][name])
    /\ seqBy' = IF name = "SEQUENCE_NUM" THEN "format" ELSE seqBy

\* The field of the format that a setter of the common part writes.  One that the
\* version lacks is a no-op, and the message length of an ACF header belongs to no
\* accessor of the format.
CommonName(f, setter, field) ==
    IF setter.at[1][3] = 0 \/ f.common = "acf" THEN "none" ELSE field

\* The setter of the common part
SetCommon(field, value) ==
    LET setter == CommonSetters(Format.common, Dispatch(mem))[field]
        name == CommonName(Format, setter, field)
    IN /\ Written(name, value, setter)
       /\ seqBy' = IF name = "SEQUENCE_NUM" THEN "common" ELSE seqBy

Next ==
    \E value \in Values :
        \/ \E name \in DOMAIN Format.setters[ver] : Set(name, value)
        \/ \E name \in DOMAIN Format.settersOf[ver] : SetOf(name, value)
        \/ \E field \in CommonFields \cap DOMAIN CommonSetters(Format.common, ver) :
              SetCommon(field, value)

Spec == Init /\ [][Next]_vars

---------------------------------------------------------------------------
(* Properties *)

\* The header stays a header of one of the formats, in one of its versions.
TypeOK ==
    /\ fmt \in DOMAIN Formats /\ ver \in Format.versions
    /\ mem \subseteq BufferBits /\ writes \in 0 .. MaxWrites
    /\ seqBy \in {"format", "common"}

\* What no setter may reach: the subtype and version of an AVTPDU, which are
\* described by the common header's table, and the type of an ACF message.
Identity(f) ==
    CASE f.common \in {"csh", "ah"} -> {CommonHeaderDesc.SUBTYPE, CommonHeaderDesc.VERSION}
      [] f.common = "acf" -> {AcfCommonDesc.ACF_MSG_TYPE}
      [] f.common = "none" -> {}

\* The identity is still the one that Avtp_X_Init wrote, so every reader
\* dispatches to the format and version the writer meant.
IdentityKept ==
    /\ \A d \in Identity(Format) : GetBits(mem, d) = GetBits(Format.init[ver], d)
    /\ Dispatch(mem) = ver

\* The tables are "complete and in absolute coordinates": every bit of the
\* header belongs to exactly one field of the format's table for this version,
\* or to the common header's if it is an AVTPDU.
TablesTile(f, v) ==
    LET fields == {<<n, f.desc[v][n]>> : n \in DOMAIN f.desc[v]}
                    \cup (IF f.common \in {"csh", "ah"}
                          THEN {<<n, CommonHeaderDesc[n]>> : n \in {"SUBTYPE", "VERSION"}}
                          ELSE {})
    IN \A b \in HeaderBits(f, v) : Cardinality({d \in fields : b \in FieldBits(d[2])}) = 1

Reserved(f, v) == {f.desc[v][n] : n \in ReservedFields \cap DOMAIN f.desc[v]}

KeptBits(f, v) == UNION {FieldBits(d) : d \in Identity(f) \cup Reserved(f, v)}

IsDesc(d) == d[1] \in Nat /\ d[2] \in Nat /\ d[3] \in Nat

\* Avtp_X_Init writes the version, no reserved bit and nothing behind the header.
InitFits(f, v) ==
    /\ v \in Versions /\ f.common \in {"csh", "ah", "acf", "none"}
    /\ HeaderBits(f, v) \subseteq BufferBits
    /\ f.init[v] \subseteq HeaderBits(f, v) /\ KeptBits(f, v) \subseteq HeaderBits(f, v)
    /\ \A d \in Reserved(f, v) : IsDesc(d) /\ FieldBits(d) \cap f.init[v] = {}
    /\ 1 \in f.versions =>
          /\ f.common \in {"csh", "ah"}
          /\ v = 1 <=> GetBits(f.init[v], CommonHeaderDesc.VERSION) = {0}

\* An accessor has one descriptor or two apart.
IsAccessor(a) ==
    /\ a.type \in Nat /\ Len(a.at) \in {1, 2} /\ \A i \in 1 .. Len(a.at) : IsDesc(a.at[i])
    /\ Len(a.at) = 2 => FieldBits(a.at[1]) \cap FieldBits(a.at[2]) = {}

Touched(a) == UNION {FieldBits(a.at[i]) : i \in 1 .. Len(a.at)}

\* The C type of a getter holds its field.
Holds(g) == IsAccessor(g) /\ g.type >= g.at[1][3] /\ g.type > 0

\* Two parameter types cut a value alike before it is cut to the field.
SameCut(t, u, bits) == t = u \/ (t > 1 /\ u > 1 /\ t >= bits /\ u >= bits)

\* A setter writes the field that the getter of its name reads, and no bit that
\* the getter of another name reads.
SetterFits(f, v, name, s) ==
    /\ IsAccessor(s)
    /\ Touched(s) \subseteq HeaderBits(f, v) \ KeptBits(f, v)
    /\ \A n \in DOMAIN f.setters[v] \ {name} :
          Touched(s) \cap FieldBits(f.getters[v][n].at[1]) = {}
    /\ name \in DOMAIN f.setters[v] =>
          /\ s.at[1] = f.getters[v][name].at[1]
          /\ SameCut(s.type, f.setters[v][name].type, s.at[1][3])

\* Every way to write a field of the format: <<name, setter>>.
AllSetters(f, v) ==
    LET common == CommonSetters(f.common, v)
    IN {<<n, f.setters[v][n]>> : n \in DOMAIN f.setters[v]}
         \cup {<<n, f.settersOf[v][n]>> : n \in DOMAIN f.settersOf[v]}
         \cup {<<CommonName(f, common[n], n), common[n]>> : n \in CommonFields \cap DOMAIN common}

SettersFit(f, v) ==
    /\ \A n \in DOMAIN f.setters[v] : n \in DOMAIN f.getters[v]
    /\ \A n \in DOMAIN f.getters[v] : Holds(f.getters[v][n])
    /\ \A s \in AllSetters(f, v) : SetterFits(f, v, s[1], s[2])

\* The getters of one field, also those of the common part, read the same bits.
GettersFit(f, v) ==
    LET get == f.getters[v]
        common == CommonGetters(f.common, v)
        own == f.desc[v]
    IN /\ \A n \in DOMAIN get :
             LET g == f.gettersOf[v][n] IN Holds(g) /\ g.at[1] = get[n].at[1]
       /\ \A n \in DOMAIN common \cap DOMAIN own :
             common[n].at[1][3] > 0 => Holds(common[n]) /\ common[n].at[1] = own[n]

\* Only the format's setters of the sequence number write the copy of its low
\* bits, and they write both; or the copy is the number.
LsbFits(f, v) ==
    LET lsb == f.getters[v]["SEQUENCE_NUM_LSB"].at[1]
        num == f.getters[v]["SEQUENCE_NUM"].at[1]
    IN "SEQUENCE_NUM_LSB" \in DOMAIN f.getters[v] =>
        /\ {"SEQUENCE_NUM"} \subseteq DOMAIN f.setters[v] \cap DOMAIN f.settersOf[v]
        /\ FieldBits(lsb) \cup FieldBits(num) \subseteq HeaderBits(f, v)
        /\ lsb[3] = 8 /\ GetBits(f.init[v], lsb) = GetBits(f.init[v], num) \cap (0 .. 7)
        /\ \/ lsb = num
           \/ /\ num[3] >= 8
              /\ \A s \in {f.setters[v], f.settersOf[v]} : s["SEQUENCE_NUM"].at = <<num, lsb>>
              /\ \A s \in AllSetters(f, v) :
                    s[1] # "SEQUENCE_NUM" => Touched(s[2]) \cap FieldBits(lsb) = {}

\* What the tables must be like for the accessors to work.
TablesSound(f, v) ==
    TablesTile(f, v) /\ InitFits(f, v) /\ SettersFit(f, v) /\ GettersFit(f, v) /\ LsbFits(f, v)

\* Reserved bits go out as zero whatever the buffer held before and whichever
\* setters are called, and the octets after the header are left alone.
ReservedAndPayloadKept ==
    /\ \A d \in Reserved(Format, ver) : GetBits(mem, d) = {}
    /\ mem \ HeaderBits(Format, ver) = before \ HeaderBits(Format, ver)

\* All getters of a field tell the same: the dispatching one, the one pinned to
\* the version (through the common header's table for common fields) and the
\* one of the common header; and the format's table places the fields of the
\* common part where the common table does.
ViewsAgree ==
    LET dispatched == Format.getters[Dispatch(mem)]
        pinned == Format.gettersOf[ver]
        common == CommonGetters(Format.common, ver)
        own == Format.desc[ver]
    IN /\ \A n \in DOMAIN dispatched : Read(mem, dispatched[n]) = Read(mem, pinned[n])
       /\ \A n \in DOMAIN common \cap DOMAIN own :
             common[n].at[1][3] > 0 => Read(mem, common[n]) = GetBits(mem, own[n])

\* In version 1 sequence_num_lsb is the copy of the low 8 bits of sequence_num
\* (CRF-25, TSCF-4, NTSCF-6), in version 0 it is the sequence number, as long as
\* the number was written by the setter of the format: the setters of the common
\* header do not know of the copy.
LsbIsCopy ==
    LET get == Format.getters[ver] IN
    "SEQUENCE_NUM_LSB" \in DOMAIN get /\ seqBy = "format" =>
        Read(mem, get["SEQUENCE_NUM_LSB"]) = Read(mem, get["SEQUENCE_NUM"]) \cap (0 .. 7)

\* Through any mix of the three kinds of setter the header is a record of
\* independent fields, as FieldRecord has it: the getters return what was last
\* written, cut to the field, and writing one field changes no other.
FieldsIndependent == Fields = rec

\* Through any mix of setters the header stays one: its type and version, the
\* tables that tile it, its reserved bits and the payload behind it.
HeaderInv ==
    /\ TypeOK /\ IdentityKept /\ ReservedAndPayloadKept
    /\ writes = 0 => TablesSound(Format, ver)
=============================================================================
