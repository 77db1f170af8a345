-------------------------- MODULE AvtpHeaderProof --------------------------
(***************************************************************************)
(* Proofs about AvtpHeader for every set of formats with sound tables, any *)
(* contents of the reused buffer, any values and any number of setter      *)
(* calls.  Sound is a condition on constants only: it says nothing about   *)
(* memories, values or sequences of calls.  HeaderInv checks it for the    *)
(* tables of the library, the theorems say what follows from it.           *)
(***************************************************************************)
EXTENDS AvtpHeader, TLAPS

\* The tables of every format in every version.
Sound == \A f \in DOMAIN Formats : \A v \in Formats[f].versions : TablesSound(Formats[f], v)

---------------------------------------------------------------------------
(* Reading and writing one descriptor *)

\* The digits of a field and, from digit to bit and back, their places.
Digits(d) == 0 .. d[3] - 1
Mirror(d, x) == FirstBit(d) + d[3] - 1 - x

\* Digits and bits of a field correspond one to one.
LEMMA MirrorFacts ==
    ASSUME NEW d, IsDesc(d)
    PROVE  /\ \A x \in Digits(d) : Mirror(d, x) \in FieldBits(d) /\ Mirror(d, Mirror(d, x)) = x
           /\ \A b \in FieldBits(d) : Mirror(d, b) \in Digits(d) /\ Mirror(d, Mirror(d, b)) = b
<1>1. FirstBit(d) \in Nat /\ d[3] \in Nat  BY DEF IsDesc, FirstBit
<1>2. ASSUME NEW x \in Digits(d)
      PROVE  Mirror(d, x) \in FieldBits(d) /\ Mirror(d, Mirror(d, x)) = x
  BY <1>1 DEF Digits, Mirror, FieldBits
<1>3. ASSUME NEW b \in FieldBits(d)
      PROVE  Mirror(d, b) \in Digits(d) /\ Mirror(d, Mirror(d, b)) = b
  BY <1>1 DEF Digits, Mirror, FieldBits
<1> QED  BY <1>2, <1>3

\* GetBits and SetBits in these terms.
LEMMA BitsAsMirror ==
    ASSUME NEW m, NEW d, IsDesc(d), NEW v
    PROVE  /\ GetBits(m, d) = {Mirror(d, b) : b \in FieldBits(d) \cap m}
           /\ SetBits(m, d, v) = (m \ FieldBits(d)) \cup {Mirror(d, i) : i \in v \cap Digits(d)}
<1>1. FirstBit(d) \in Nat /\ d[3] \in Nat  BY DEF IsDesc, FirstBit
<1>2. GetBits(m, d) = {Mirror(d, b) : b \in FieldBits(d) \cap m}
  BY <1>1 DEF GetBits, Mirror, FieldBits
<1>3. SetBits(m, d, v) = (m \ FieldBits(d)) \cup {Mirror(d, i) : i \in v \cap Digits(d)}
  BY <1>1 DEF SetBits, Mirror, Digits
<1> QED  BY <1>2, <1>3

\* The digits that Avtp_GetField returns.
LEMMA InGet ==
    ASSUME NEW m, NEW d, IsDesc(d), NEW x
    PROVE  x \in GetBits(m, d) <=> x \in Digits(d) /\ Mirror(d, x) \in m
<1>1. x \in GetBits(m, d) => x \in Digits(d) /\ Mirror(d, x) \in m
  BY MirrorFacts, BitsAsMirror
<1>2. x \in Digits(d) /\ Mirror(d, x) \in m => x \in GetBits(m, d)
  <2> SUFFICES ASSUME x \in Digits(d), Mirror(d, x) \in m PROVE x \in GetBits(m, d)
    OBVIOUS
  <2>1. Mirror(d, x) \in FieldBits(d) \cap m /\ Mirror(d, Mirror(d, x)) = x  BY MirrorFacts
  <2> QED  BY <2>1, BitsAsMirror
<1> QED  BY <1>1, <1>2

\* The memory that Avtp_SetField leaves.
LEMMA InSet ==
    ASSUME NEW m, NEW d, IsDesc(d), NEW v, NEW b
    PROVE  /\ b \in FieldBits(d) => (b \in SetBits(m, d, v) <=> Mirror(d, b) \in v)
           /\ b \notin FieldBits(d) => (b \in SetBits(m, d, v) <=> b \in m)
BY MirrorFacts, BitsAsMirror

\* A getter returns digits of its field.
LEMMA GetRange ==
    ASSUME NEW m, NEW d, IsDesc(d)
    PROVE  GetBits(m, d) \subseteq Digits(d)
BY InGet

\* The getter of a field does not see the other bits.
LEMMA GetLocal ==
    ASSUME NEW m, NEW n, NEW d, IsDesc(d), \A b \in FieldBits(d) : b \in m <=> b \in n
    PROVE  GetBits(m, d) = GetBits(n, d)
<1>1. ASSUME NEW x PROVE x \in GetBits(m, d) <=> x \in GetBits(n, d)
  BY MirrorFacts, InGet
<1> QED  BY <1>1

\* What was written is read, cut to the field.
LEMMA GetSet ==
    ASSUME NEW m, NEW d, IsDesc(d), NEW v
    PROVE  GetBits(SetBits(m, d, v), d) = v \cap Digits(d)
<1>1. ASSUME NEW x PROVE x \in GetBits(SetBits(m, d, v), d) <=> x \in v \cap Digits(d)
  BY MirrorFacts, InGet, InSet
<1> QED  BY <1>1

\* Casts that cut alike.
LEMMA CastAlike ==
    ASSUME NEW v, NEW t \in Nat, NEW u \in Nat, NEW bits \in Nat, SameCut(t, u, bits)
    PROVE  Cast(v, t) \cap (0 .. bits - 1) = Cast(v, u) \cap (0 .. bits - 1)
BY DEF SameCut, Cast

\* The same for the digits of a field.
LEMMA CastAlikeOn ==
    ASSUME NEW v, NEW t \in Nat, NEW u \in Nat, NEW d, d[3] \in Nat, SameCut(t, u, d[3])
    PROVE  Cast(v, t) \cap Digits(d) = Cast(v, u) \cap Digits(d)
<1> DEFINE bits == d[3]
<1>1. bits \in Nat /\ SameCut(t, u, bits)  OBVIOUS
<1>2. Digits(d) = 0 .. bits - 1  BY DEF Digits
<1> HIDE DEF bits
<1> QED  BY <1>1, <1>2, CastAlike

\* The digits of an octet, and of a field of at least an octet.
LEMMA OctetDigits ==
    ASSUME NEW d, d[3] \in Nat, d[3] >= 8
    PROVE  0 .. 7 \subseteq Digits(d) /\ (d[3] = 8 => Digits(d) = 0 .. 7)
BY DEF Digits

---------------------------------------------------------------------------
(* Accessors *)

\* The types of an accessor.
LEMMA AccessorTypes ==
    ASSUME NEW a, IsAccessor(a)
    PROVE  a.type \in Nat /\ IsDesc(a.at[1]) /\ a.at[1][3] \in Nat
<1>1. IsDesc(a.at[1])  BY DEF IsAccessor
<1> QED  BY <1>1 DEF IsAccessor, IsDesc

\* A getter whose C type holds its field loses nothing.
LEMMA ReadWhole ==
    ASSUME NEW m, NEW g, Holds(g)
    PROVE  Read(m, g) = GetBits(m, g.at[1])
<1>1. IsDesc(g.at[1]) /\ g.type \in Nat /\ g.type > 0 /\ g.type >= g.at[1][3]
  BY DEF Holds, IsAccessor
<1>2. GetBits(m, g.at[1]) \subseteq 0 .. g.at[1][3] - 1 /\ g.at[1][3] \in Nat
  BY <1>1, GetRange DEF IsDesc, Digits
<1>3. CASE g.type = 1
  <2>1. GetBits(m, g.at[1]) \subseteq {0}  BY <1>1, <1>2, <1>3
  <2> QED  BY <2>1, <1>3 DEF Read, Cast
<1>4. CASE g.type # 1
  <2>1. GetBits(m, g.at[1]) \subseteq 0 .. g.type - 1  BY <1>1, <1>2
  <2> QED  BY <2>1, <1>4 DEF Read, Cast
<1> QED  BY <1>3, <1>4

\* A setter changes no bit outside its descriptors.
LEMMA ApplyOutside ==
    ASSUME NEW m, NEW s, NEW value, IsAccessor(s), NEW b, b \notin Touched(s)
    PROVE  b \in Apply(m, s, value) <=> b \in m
<1>1. CASE Len(s.at) = 1
  <2>1. IsDesc(s.at[1]) /\ b \notin FieldBits(s.at[1])  BY <1>1 DEF IsAccessor, Touched
  <2> QED  BY <1>1, <2>1, InSet DEF Apply
<1>2. CASE Len(s.at) = 2
  <2>1. /\ IsDesc(s.at[1]) /\ b \notin FieldBits(s.at[1])
        /\ IsDesc(s.at[2]) /\ b \notin FieldBits(s.at[2])
    BY <1>2 DEF IsAccessor, Touched
  <2> QED  BY <1>2, <2>1, InSet DEF Apply
<1> QED  BY <1>1, <1>2 DEF IsAccessor

\* A setter stores its argument, converted and cut, in its first descriptor.
LEMMA ApplyFirst ==
    ASSUME NEW m, NEW s, NEW value, IsAccessor(s)
    PROVE  GetBits(Apply(m, s, value), s.at[1]) = Cast(value, s.type) \cap Digits(s.at[1])
<1> DEFINE first == SetBits(m, s.at[1], Cast(value, s.type))
<1>1. IsDesc(s.at[1])  BY DEF IsAccessor
<1>2. GetBits(first, s.at[1]) = Cast(value, s.type) \cap Digits(s.at[1])
  BY <1>1, GetSet
<1>3. CASE Len(s.at) = 1  BY <1>2, <1>3 DEF Apply
<1>4. CASE Len(s.at) = 2
  <2>1. IsDesc(s.at[2]) /\ FieldBits(s.at[1]) \cap FieldBits(s.at[2]) = {}
    BY <1>4 DEF IsAccessor
  <2>2. \A b \in FieldBits(s.at[1]) :
           b \in SetBits(first, s.at[2], Cast(value, s.type)) <=> b \in first
    BY <2>1, InSet
  <2>3. Apply(m, s, value) = SetBits(first, s.at[2], Cast(value, s.type))
    BY <1>4 DEF Apply
  <2> HIDE DEF first
  <2> QED  BY <1>1, <1>2, <2>2, <2>3, GetLocal
<1> QED  BY <1>3, <1>4 DEF IsAccessor

\* One with two descriptors stores it in the second as well.
LEMMA ApplySecond ==
    ASSUME NEW m, NEW s, NEW value, IsAccessor(s), Len(s.at) = 2
    PROVE  GetBits(Apply(m, s, value), s.at[2]) = Cast(value, s.type) \cap Digits(s.at[2])
<1>1. IsDesc(s.at[2])  BY DEF IsAccessor
<1> QED  BY <1>1, GetSet DEF Apply

\* A setter is invisible to the getters of fields it does not touch.
LEMMA ApplyElsewhere ==
    ASSUME NEW m, NEW s, NEW value, IsAccessor(s), NEW d, IsDesc(d),
           Touched(s) \cap FieldBits(d) = {}
    PROVE  GetBits(Apply(m, s, value), d) = GetBits(m, d)
<1>1. \A b \in FieldBits(d) : b \in Apply(m, s, value) <=> b \in m  BY ApplyOutside
<1> QED  BY <1>1, GetLocal

---------------------------------------------------------------------------
(* One call of a setter, with sound tables *)

\* What identifies the PDU and what is reserved are fields.
LEMMA KeptAreFields ==
    ASSUME NEW f, NEW v, TablesSound(f, v), NEW d \in Identity(f) \cup Reserved(f, v)
    PROVE  IsDesc(d) /\ FieldBits(d) \subseteq KeptBits(f, v)
<1>1. InitFits(f, v)  BY DEF TablesSound
<1>2. FieldBits(d) \subseteq KeptBits(f, v)  BY DEF KeptBits
<1>3. CASE d \in Reserved(f, v)  BY <1>1, <1>2, <1>3 DEF InitFits
<1>4. CASE d \in Identity(f)
  <2>1. d \in {CommonHeaderDesc.SUBTYPE, CommonHeaderDesc.VERSION, AcfCommonDesc.ACF_MSG_TYPE}
    BY <1>1, <1>4 DEF InitFits, Identity
  <2> QED  BY <2>1, <1>2 DEF IsDesc, CommonHeaderDesc, AcfCommonDesc
<1> QED  BY <1>3, <1>4

\* A setter is one that the tables were checked for.
LEMMA SetterFacts ==
    ASSUME NEW f, NEW v, TablesSound(f, v), NEW p \in AllSetters(f, v)
    PROVE  IsAccessor(p[2]) /\ SetterFits(f, v, p[1], p[2])
BY DEF TablesSound, SettersFit, SetterFits

\* A getter of a field that has a setter.
LEMMA GetterFacts ==
    ASSUME NEW f, NEW v, TablesSound(f, v), NEW n \in DOMAIN f.setters[v]
    PROVE  /\ n \in DOMAIN f.getters[v] /\ Holds(f.getters[v][n])
           /\ IsDesc(f.getters[v][n].at[1])
<1>1. n \in DOMAIN f.getters[v] /\ Holds(f.getters[v][n])  BY DEF TablesSound, SettersFit
<1> QED  BY <1>1 DEF Holds, IsAccessor

\* A setter stays inside the header.
LEMMA WriteInside ==
    ASSUME NEW f, NEW v, TablesSound(f, v), NEW p \in AllSetters(f, v), NEW m, NEW value
    PROVE  /\ \A b : b \notin HeaderBits(f, v) => (b \in Apply(m, p[2], value) <=> b \in m)
           /\ m \subseteq BufferBits => Apply(m, p[2], value) \subseteq BufferBits
<1>1. IsAccessor(p[2]) /\ Touched(p[2]) \subseteq HeaderBits(f, v)
  BY SetterFacts DEF SetterFits
<1>2. HeaderBits(f, v) \subseteq BufferBits  BY DEF TablesSound, InitFits
<1>3. \A b : b \notin HeaderBits(f, v) => (b \in Apply(m, p[2], value) <=> b \in m)
  BY <1>1, ApplyOutside
<1>4. m \subseteq BufferBits => Apply(m, p[2], value) \subseteq BufferBits  BY <1>2, <1>3
<1> QED  BY <1>3, <1>4

\* A setter reaches neither the identity of the PDU nor a reserved field.
LEMMA WriteKeeps ==
    ASSUME NEW f, NEW v, TablesSound(f, v), NEW p \in AllSetters(f, v), NEW m, NEW value,
           NEW d \in Identity(f) \cup Reserved(f, v)
    PROVE  GetBits(Apply(m, p[2], value), d) = GetBits(m, d)
<1>1. IsAccessor(p[2]) /\ Touched(p[2]) \cap KeptBits(f, v) = {}
  BY SetterFacts DEF SetterFits
<1>2. IsDesc(d) /\ FieldBits(d) \subseteq KeptBits(f, v)  BY KeptAreFields
<1>3. Touched(p[2]) \cap FieldBits(d) = {}  BY <1>1, <1>2
<1> QED  BY <1>1, <1>2, <1>3, ApplyElsewhere

\* The getters of the other fields do not see it.
LEMMA WriteElsewhere ==
    ASSUME NEW f, NEW v, TablesSound(f, v), NEW p \in AllSetters(f, v), NEW m, NEW value,
           NEW n \in DOMAIN f.setters[v] \ {p[1]}
    PROVE  Read(Apply(m, p[2], value), f.getters[v][n]) = Read(m, f.getters[v][n])
<1>1. IsAccessor(p[2]) /\ Touched(p[2]) \cap FieldBits(f.getters[v][n].at[1]) = {}
  BY SetterFacts DEF SetterFits
<1>2. GetBits(Apply(m, p[2], value), f.getters[v][n].at[1])
         = GetBits(m, f.getters[v][n].at[1])
  BY <1>1, GetterFacts, ApplyElsewhere
<1> QED  BY <1>2 DEF Read

\* The getter of the field returns what the setter of its name keeps of the
\* value, whichever of the three kinds of setter was called.
LEMMA WriteRead ==
    ASSUME NEW f, NEW v, TablesSound(f, v), NEW p \in AllSetters(f, v), NEW m, NEW value,
           p[1] \in DOMAIN f.setters[v]
    PROVE  Read(Apply(m, p[2], value), f.getters[v][p[1]]) = Keep(f.setters[v][p[1]], value)
<1> DEFINE s == p[2]
           own == f.setters[v][p[1]]
           g == f.getters[v][p[1]]
<1>1. IsAccessor(s) /\ s.at[1] = g.at[1] /\ SameCut(s.type, own.type, s.at[1][3])
  BY SetterFacts DEF SetterFits
<1>2. <<p[1], own>> \in AllSetters(f, v)  BY DEF AllSetters
<1>3. IsAccessor(own) /\ own.at[1] = g.at[1]
  <2>1. SetterFits(f, v, p[1], own)  BY <1>2 DEF TablesSound, SettersFit
  <2> QED  BY <2>1 DEF SetterFits
<1>4. GetBits(Apply(m, s, value), s.at[1]) = Cast(value, s.type) \cap Digits(s.at[1])
  BY <1>1, ApplyFirst
<1>5. Cast(value, s.type) \cap Digits(s.at[1]) = Cast(value, own.type) \cap Digits(s.at[1])
  <2> DEFINE t == s.type
             u == own.type
             d == s.at[1]
  <2>1. t \in Nat /\ u \in Nat /\ d[3] \in Nat
    BY <1>1, <1>3, AccessorTypes
  <2>2. SameCut(t, u, d[3])  BY <1>1
  <2> HIDE DEF t, u, d
  <2>3. Cast(value, t) \cap Digits(d) = Cast(value, u) \cap Digits(d)
    BY <2>1, <2>2, CastAlikeOn
  <2> QED  BY <2>3 DEF t, u, d
<1>6. Keep(own, value) = Cast(value, own.type) \cap Digits(s.at[1])
  BY <1>1, <1>3 DEF Keep, Digits
<1>7. Read(Apply(m, s, value), g) = GetBits(Apply(m, s, value), g.at[1])
  BY GetterFacts, ReadWhole
<1> QED  BY <1>1, <1>4, <1>5, <1>6, <1>7

\* Reading the version of a PDU whose identity was kept gives its version.
LEMMA DispatchFacts ==
    ASSUME NEW f, NEW v \in f.versions, TablesSound(f, v), NEW m,
           \A d \in Identity(f) : GetBits(m, d) = GetBits(f.init[v], d)
    PROVE  (IF 1 \in f.versions /\ GetBits(m, CommonHeaderDesc.VERSION) = {0} THEN 1 ELSE 0) = v
<1>1. InitFits(f, v) /\ v \in {0, 1}  BY DEF TablesSound, InitFits, Versions
<1>2. CASE 1 \in f.versions
  <2>1. CommonHeaderDesc.VERSION \in Identity(f)  BY <1>1, <1>2 DEF InitFits, Identity
  <2>2. GetBits(m, CommonHeaderDesc.VERSION) = GetBits(f.init[v], CommonHeaderDesc.VERSION)
    BY <2>1
  <2> QED  BY <1>1, <1>2, <2>2 DEF InitFits
<1>3. CASE 1 \notin f.versions  BY <1>1, <1>3
<1> QED  BY <1>2, <1>3

\* Avtp_X_Init leaves the fields of the header as it wrote them.
LEMMA InitReads ==
    ASSUME NEW f, NEW v, TablesSound(f, v), NEW m, NEW d, IsDesc(d),
           FieldBits(d) \subseteq HeaderBits(f, v)
    PROVE  GetBits((m \ HeaderBits(f, v)) \cup f.init[v], d) = GetBits(f.init[v], d)
BY GetLocal

---------------------------------------------------------------------------
(* The invariant *)

HInv == TypeOK /\ IdentityKept /\ ReservedAndPayloadKept /\ FieldsIndependent /\ LsbIsCopy

\* The tables of the PDU in the buffer.
LEMMA FormatSound ==
    ASSUME Sound, TypeOK
    PROVE  TablesSound(Format, ver)
BY DEF Sound, TypeOK, Format

\* The copy of the sequence number is its low digits, in terms of the tables.
LsbCopied(f, v, m) ==
    GetBits(m, f.getters[v]["SEQUENCE_NUM_LSB"].at[1])
      = GetBits(m, f.getters[v]["SEQUENCE_NUM"].at[1]) \cap (0 .. 7)

\* The getters of both numbers lose nothing.
LEMMA LsbReads ==
    ASSUME NEW f, NEW v, TablesSound(f, v), "SEQUENCE_NUM_LSB" \in DOMAIN f.getters[v], NEW m
    PROVE  /\ IsDesc(f.getters[v]["SEQUENCE_NUM_LSB"].at[1])
           /\ "SEQUENCE_NUM" \in DOMAIN f.setters[v]
           /\ IsDesc(f.getters[v]["SEQUENCE_NUM"].at[1])
           /\ LsbCopied(f, v, m) <=>
                 Read(m, f.getters[v]["SEQUENCE_NUM_LSB"])
                   = Read(m, f.getters[v]["SEQUENCE_NUM"]) \cap (0 .. 7)
<1>1. Holds(f.getters[v]["SEQUENCE_NUM_LSB"])  BY DEF TablesSound, SettersFit
<1>2. "SEQUENCE_NUM" \in DOMAIN f.setters[v]  BY DEF TablesSound, LsbFits
<1>3. Holds(f.getters[v]["SEQUENCE_NUM"])  BY <1>2, GetterFacts
<1>4. /\ IsDesc(f.getters[v]["SEQUENCE_NUM_LSB"].at[1])
      /\ IsDesc(f.getters[v]["SEQUENCE_NUM"].at[1])
  BY <1>1, <1>3, AccessorTypes DEF Holds
<1> QED  BY <1>1, <1>2, <1>3, <1>4, ReadWhole DEF LsbCopied

\* A setter keeps the copy true unless it is one of the common header that
\* writes the sequence number.
LEMMA WriteCopies ==
    ASSUME NEW f, NEW v, TablesSound(f, v), "SEQUENCE_NUM_LSB" \in DOMAIN f.getters[v],
           NEW p \in AllSetters(f, v), NEW m, NEW value,
           \/ p[1] # "SEQUENCE_NUM" /\ LsbCopied(f, v, m)
           \/ p[2] \in {f.setters[v]["SEQUENCE_NUM"], f.settersOf[v]["SEQUENCE_NUM"]}
    PROVE  LsbCopied(f, v, Apply(m, p[2], value))
<1> DEFINE lsb == f.getters[v]["SEQUENCE_NUM_LSB"].at[1]
           num == f.getters[v]["SEQUENCE_NUM"].at[1]
           m2 == Apply(m, p[2], value)
<1>1. IsDesc(lsb) /\ IsDesc(num) /\ "SEQUENCE_NUM" \in DOMAIN f.setters[v]  BY LsbReads
<1>2. /\ lsb[3] = 8
      /\ \/ lsb = num
         \/ /\ num[3] >= 8
            /\ \A s \in {f.setters[v], f.settersOf[v]} : s["SEQUENCE_NUM"].at = <<num, lsb>>
            /\ \A s \in AllSetters(f, v) :
                  s[1] # "SEQUENCE_NUM" => Touched(s[2]) \cap FieldBits(lsb) = {}
  BY DEF TablesSound, LsbFits
<1>3. IsAccessor(p[2])  BY SetterFacts
<1>4. SUFFICES GetBits(m2, lsb) = GetBits(m2, num) \cap (0 .. 7)  BY DEF LsbCopied
<1>8. Digits(lsb) = 0 .. 7
  <2>1. lsb[3] = 8  BY <1>2
  <2> HIDE DEF lsb
  <2> QED  BY <2>1, OctetDigits
<1>5. CASE lsb = num
  <2>1. GetBits(m2, lsb) \subseteq 0 .. 7  BY <1>1, <1>8, GetRange
  <2> QED  BY <1>5, <2>1
<1>6. CASE lsb # num /\ p[1] # "SEQUENCE_NUM" /\ LsbCopied(f, v, m)
  <2>1. Touched(p[2]) \cap FieldBits(lsb) = {}  BY <1>2, <1>6
  <2>2. Touched(p[2]) \cap FieldBits(num) = {}  BY <1>1, <1>6, SetterFacts DEF SetterFits
  <2>3. GetBits(m2, lsb) = GetBits(m, lsb) /\ GetBits(m2, num) = GetBits(m, num)
    BY <1>1, <1>3, <2>1, <2>2, ApplyElsewhere
  <2> QED  BY <1>6, <2>3 DEF LsbCopied
<1>7. CASE lsb # num /\ p[2] \in {f.setters[v]["SEQUENCE_NUM"], f.settersOf[v]["SEQUENCE_NUM"]}
  <2>1. p[2].at = <<num, lsb>>  BY <1>2, <1>7
  <2>2. Len(p[2].at) = 2 /\ p[2].at[1] = num /\ p[2].at[2] = lsb  BY <2>1
  <2>3. GetBits(m2, num) = Cast(value, p[2].type) \cap Digits(num)  BY <1>3, <2>2, ApplyFirst
  <2>4. GetBits(m2, lsb) = Cast(value, p[2].type) \cap Digits(lsb)  BY <1>3, <2>2, ApplySecond
  <2>5. Digits(lsb) = 0 .. 7 /\ 0 .. 7 \subseteq Digits(num)
    <3>1. num[3] >= 8  BY <1>2, <1>7
    <3>2. num[3] \in Nat  BY <1>1 DEF IsDesc
    <3> QED  BY <1>8, <3>1, <3>2, OctetDigits
  <2> QED  BY <2>3, <2>4, <2>5
<1> QED  BY <1>5, <1>6, <1>7

---------------------------------------------------------------------------
(* The initial state *)

\* A header that was just initialised satisfies the invariant.
LEMMA InitHolds ==
    ASSUME Sound, Init
    PROVE  HInv
<1> USE HeaderConstants
<1>1. fmt \in DOMAIN Formats /\ ver \in Format.versions  BY DEF Init
<1>2. TablesSound(Format, ver)  BY <1>1 DEF Sound, Format
<1>3. /\ HeaderBits(Format, ver) \subseteq BufferBits
      /\ Format.init[ver] \subseteq HeaderBits(Format, ver)
      /\ KeptBits(Format, ver) \subseteq HeaderBits(Format, ver)
      /\ \A d \in Reserved(Format, ver) : FieldBits(d) \cap Format.init[ver] = {}
  BY <1>2 DEF TablesSound, InitFits
<1>4. TypeOK
  <2>1. before \subseteq BufferBits  BY DEF Init, HeaderConstants
  <2>2. mem \subseteq BufferBits  BY <1>3, <2>1 DEF Init
  <2> QED  BY <1>1, <2>2 DEF Init, TypeOK, HeaderConstants
<1>5. ASSUME NEW d \in Identity(Format) \cup Reserved(Format, ver)
      PROVE  GetBits(mem, d) = GetBits(Format.init[ver], d)
  <2>1. IsDesc(d) /\ FieldBits(d) \subseteq HeaderBits(Format, ver)
    BY <1>2, <1>3, KeptAreFields
  <2> QED  BY <1>2, <2>1, InitReads DEF Init
<1>6. IdentityKept
  <2>1. \A d \in Identity(Format) : GetBits(mem, d) = GetBits(Format.init[ver], d)  BY <1>5
  <2> QED  BY <1>1, <1>2, <2>1, DispatchFacts DEF IdentityKept, Dispatch
<1>7. ReservedAndPayloadKept
  <2>1. ASSUME NEW d \in Reserved(Format, ver) PROVE GetBits(mem, d) = {}
    <3>1. GetBits(Format.init[ver], d) = {}  BY <1>3 DEF GetBits
    <3> QED  BY <1>5, <3>1
  <2>2. mem \ HeaderBits(Format, ver) = before \ HeaderBits(Format, ver)
    BY <1>3 DEF Init
  <2> QED  BY <2>1, <2>2 DEF ReservedAndPayloadKept
<1>8. FieldsIndependent  BY DEF Init, FieldsIndependent
<1>9. LsbIsCopy
  <2>1. SUFFICES ASSUME "SEQUENCE_NUM_LSB" \in DOMAIN Format.getters[ver]
        PROVE  LsbCopied(Format, ver, mem)
    BY <1>2, LsbReads DEF LsbIsCopy
  <2> DEFINE lsb == Format.getters[ver]["SEQUENCE_NUM_LSB"].at[1]
             num == Format.getters[ver]["SEQUENCE_NUM"].at[1]
  <2>2. /\ IsDesc(lsb) /\ FieldBits(lsb) \subseteq HeaderBits(Format, ver)
        /\ IsDesc(num) /\ FieldBits(num) \subseteq HeaderBits(Format, ver)
    <3>1. FieldBits(lsb) \cup FieldBits(num) \subseteq HeaderBits(Format, ver)
      BY <1>2, <2>1 DEF TablesSound, LsbFits
    <3> QED  BY <1>2, <2>1, <3>1, LsbReads
  <2>3. GetBits(Format.init[ver], lsb) = GetBits(Format.init[ver], num) \cap (0 .. 7)
    BY <1>2, <2>1 DEF TablesSound, LsbFits
  <2>4. /\ GetBits(mem, lsb) = GetBits(Format.init[ver], lsb)
        /\ GetBits(mem, num) = GetBits(Format.init[ver], num)
    BY <1>2, <2>2, InitReads DEF Init
  <2> QED  BY <2>3, <2>4 DEF LsbCopied
<1> QED  BY <1>4, <1>6, <1>7, <1>8, <1>9 DEF HInv

---------------------------------------------------------------------------
(* A step *)

\* A setter call through any of the three interfaces, but for the copy of the
\* sequence number.
LEMMA WrittenStep ==
    ASSUME Sound, HInv, NEW p \in AllSetters(Format, ver), NEW value,
           Written(p[1], value, p[2]), seqBy' \in {"format", "common"}
    PROVE  TypeOK' /\ IdentityKept' /\ ReservedAndPayloadKept' /\ FieldsIndependent'
<1>1. TablesSound(Format, ver)  BY FormatSound DEF HInv
<1>2. /\ mem' = Apply(mem, p[2], value) /\ fmt' = fmt /\ ver' = ver /\ before' = before
      /\ writes < MaxWrites /\ writes' = writes + 1
      /\ rec' = IF p[1] \in DOMAIN rec
                THEN [rec EXCEPT ![p[1]] = Keep(Format.setters[ver][p[1]], value)] ELSE rec
      /\ Format' = Format
  BY DEF Written, Format
<1>3. TypeOK'
  <2>1. mem' \subseteq BufferBits  BY <1>1, <1>2, WriteInside DEF HInv, TypeOK
  <2>2. writes' \in 0 .. MaxWrites  BY <1>2, HeaderConstants DEF HInv, TypeOK, HeaderConstants
  <2> QED  BY <1>2, <2>1, <2>2 DEF HInv, TypeOK
<1>4. /\ \A d \in Identity(Format) : GetBits(mem', d) = GetBits(Format.init[ver], d)
      /\ \A d \in Reserved(Format, ver) : GetBits(mem', d) = {}
  BY <1>1, <1>2, WriteKeeps DEF HInv, IdentityKept, ReservedAndPayloadKept
<1>5. Dispatch(mem)' = ver
  <2>1. ver \in Format.versions  BY DEF HInv, TypeOK
  <2> QED  BY <1>1, <1>2, <1>4, <2>1, DispatchFacts DEF Dispatch
<1>6. IdentityKept'  BY <1>2, <1>4, <1>5 DEF IdentityKept
<1>7. ReservedAndPayloadKept'
  <2>1. \A b : b \notin HeaderBits(Format, ver) => (b \in mem' <=> b \in mem)
    BY <1>1, <1>2, WriteInside
  <2>2. mem' \ HeaderBits(Format, ver) = mem \ HeaderBits(Format, ver)  BY <2>1
  <2> QED  BY <1>2, <1>4, <2>2 DEF HInv, ReservedAndPayloadKept
<1>8. FieldsIndependent'
  <2> DEFINE D == DOMAIN Format.setters[ver]
             get == Format.getters[ver]
  <2>1. rec = [n \in D |-> Read(mem, get[n])]
    BY DEF HInv, IdentityKept, FieldsIndependent, Fields
  <2>2. Fields' = [n \in D |-> Read(mem', get[n])]
    BY <1>2, <1>5 DEF Fields
  <2>3. ASSUME NEW n \in D, n # p[1] PROVE Read(mem', get[n]) = rec'[n]
    <3>1. Read(mem', get[n]) = Read(mem, get[n])  BY <1>1, <1>2, <2>3, WriteElsewhere
    <3>2. rec'[n] = rec[n]  BY <1>2, <2>1, <2>3
    <3> QED  BY <2>1, <3>1, <3>2
  <2>4. ASSUME p[1] \in D PROVE Read(mem', get[p[1]]) = rec'[p[1]]
    <3>1. Read(mem', get[p[1]]) = Keep(Format.setters[ver][p[1]], value)
      BY <1>1, <1>2, <2>4, WriteRead
    <3>2. rec'[p[1]] = Keep(Format.setters[ver][p[1]], value)  BY <1>2, <2>1, <2>4
    <3> QED  BY <3>1, <3>2
  <2>5. rec' = [n \in D |-> rec'[n]]  BY <1>2, <2>1
  <2>6. ASSUME NEW n \in D PROVE Read(mem', get[n]) = rec'[n]  BY <2>3, <2>4
  <2> HIDE DEF D, get
  <2>7. rec' = [n \in D |-> Read(mem', get[n])]  BY <2>5, <2>6
  <2> QED  BY <2>2, <2>7 DEF FieldsIndependent
<1> QED  BY <1>3, <1>6, <1>7, <1>8

\* The copy of the sequence number after a setter call.
LEMMA WrittenLsb ==
    ASSUME Sound, HInv, NEW p \in AllSetters(Format, ver), NEW value,
           Written(p[1], value, p[2]),
           seqBy' = "format" =>
              \/ p[1] # "SEQUENCE_NUM" /\ seqBy = "format"
              \/ p[2] \in {Format.setters[ver]["SEQUENCE_NUM"],
                           Format.settersOf[ver]["SEQUENCE_NUM"]}
    PROVE  LsbIsCopy'
<1>1. TablesSound(Format, ver)  BY FormatSound DEF HInv
<1>2. mem' = Apply(mem, p[2], value) /\ ver' = ver /\ Format' = Format
  BY DEF Written, Format
<1>3. SUFFICES ASSUME "SEQUENCE_NUM_LSB" \in DOMAIN Format.getters[ver], seqBy' = "format"
      PROVE  LsbCopied(Format, ver, mem')
  BY <1>1, <1>2, LsbReads DEF LsbIsCopy
<1>4. seqBy = "format" => LsbCopied(Format, ver, mem)
  BY <1>1, <1>3, LsbReads DEF HInv, LsbIsCopy
<1> QED  BY <1>1, <1>2, <1>3, <1>4, WriteCopies

\* Every setter call keeps the invariant.
LEMMA NextHolds ==
    ASSUME Sound, HInv, Next
    PROVE  HInv'
<1>1. PICK value \in Values :
        \/ \E name \in DOMAIN Format.setters[ver] : Set(name, value)
        \/ \E name \in DOMAIN Format.settersOf[ver] : SetOf(name, value)
        \/ \E field \in CommonFields \cap DOMAIN CommonSetters(Format.common, ver) :
              SetCommon(field, value)
  BY DEF Next
<1>2. Dispatch(mem) = ver /\ seqBy \in {"format", "common"}  BY DEF HInv, IdentityKept, TypeOK
<1>3. ASSUME NEW name \in DOMAIN Format.setters[ver], Set(name, value) PROVE HInv'
  <2> DEFINE p == <<name, Format.setters[ver][name]>>
  <2>1. p \in AllSetters(Format, ver)  BY DEF AllSetters
  <2>2. /\ Written(p[1], value, p[2])
        /\ seqBy' = IF p[1] = "SEQUENCE_NUM" THEN "format" ELSE seqBy
    BY <1>2, <1>3 DEF Set
  <2>3. p[1] = "SEQUENCE_NUM" => p[2] = Format.setters[ver]["SEQUENCE_NUM"]  OBVIOUS
  <2> HIDE DEF p
  <2> QED  BY <1>2, <2>1, <2>2, <2>3, WrittenStep, WrittenLsb DEF HInv
<1>4. ASSUME NEW name \in DOMAIN Format.settersOf[ver], SetOf(name, value) PROVE HInv'
  <2> DEFINE p == <<name, Format.settersOf[ver][name]>>
  <2>1. p \in AllSetters(Format, ver)  BY DEF AllSetters
  <2>2. /\ Written(p[1], value, p[2])
        /\ seqBy' = IF p[1] = "SEQUENCE_NUM" THEN "format" ELSE seqBy
    BY <1>4 DEF SetOf
  <2>3. p[1] = "SEQUENCE_NUM" => p[2] = Format.settersOf[ver]["SEQUENCE_NUM"]  OBVIOUS
  <2> HIDE DEF p
  <2> QED  BY <1>2, <2>1, <2>2, <2>3, WrittenStep, WrittenLsb DEF HInv
<1>5. ASSUME NEW field \in CommonFields \cap DOMAIN CommonSetters(Format.common, ver),
             SetCommon(field, value)
      PROVE  HInv'
  <2> DEFINE setter == CommonSetters(Format.common, ver)[field]
             p == <<CommonName(Format, setter, field), setter>>
  <2>1. p \in AllSetters(Format, ver)  BY DEF AllSetters
  <2>2. /\ Written(p[1], value, p[2])
        /\ seqBy' = IF p[1] = "SEQUENCE_NUM" THEN "common" ELSE seqBy
    BY <1>2, <1>5 DEF SetCommon
  <2> HIDE DEF p
  <2> QED  BY <1>2, <2>1, <2>2, WrittenStep, WrittenLsb DEF HInv
<1> QED  BY <1>1, <1>3, <1>4, <1>5

---------------------------------------------------------------------------
(* The theorems *)

\* The invariant for every behaviour: Avtp_X_Init in any reused buffer and any
\* number of calls of any of the three kinds of setter.
THEOREM HeaderInvariance ==
    Sound => (Spec => []HInv)
<1> SUFFICES ASSUME Sound PROVE Spec => []HInv  OBVIOUS
<1>1. Init => HInv  BY InitHolds
<1>2. HInv /\ [Next]_vars => HInv'
  <2>1. ASSUME HInv, UNCHANGED vars PROVE HInv'
    BY <2>1 DEF vars, HInv, TypeOK, IdentityKept, ReservedAndPayloadKept, FieldsIndependent,
                LsbIsCopy, Fields, Dispatch, Format
  <2> QED  BY <2>1, NextHolds
<1> QED  BY <1>1, <1>2, PTL DEF Spec

\* With sound tables no sequence of setter calls, whichever of the three
\* interfaces it mixes, reaches the subtype, the version, a reserved bit or the
\* payload behind the header.
THEOREM HeaderStaysHeader ==
    Sound => (Spec => []HeaderInv)
<1> SUFFICES ASSUME Sound PROVE Spec => []HeaderInv  OBVIOUS
<1>1. HInv => HeaderInv  BY FormatSound DEF HInv, HeaderInv
<1> QED  BY <1>1, HeaderInvariance, PTL

\* The getters return what was last written, cut to the field: the calls of the
\* three kinds of setter act on one record of independent fields.
THEOREM FieldsAreIndependent ==
    Sound => (Spec => []FieldsIndependent)
<1> SUFFICES ASSUME Sound PROVE Spec => []FieldsIndependent  OBVIOUS
<1>1. HInv => FieldsIndependent  BY DEF HInv
<1> QED  BY <1>1, HeaderInvariance, PTL

\* The copy of the low digits of the sequence number follows it as long as the
\* setters of the common header are not used for it.
THEOREM LsbFollows ==
    Sound => (Spec => []LsbIsCopy)
<1> SUFFICES ASSUME Sound PROVE Spec => []LsbIsCopy  OBVIOUS
<1>1. HInv => LsbIsCopy  BY DEF HInv
<1> QED  BY <1>1, HeaderInvariance, PTL

\* The dispatching getter, the one pinned to the version and the one of the
\* common header tell the same of a field after any calls.
THEOREM AllViewsAgree ==
    Sound => (Spec => []ViewsAgree)
<1> SUFFICES ASSUME Sound PROVE Spec => []ViewsAgree  OBVIOUS
<1>1. ASSUME HInv PROVE ViewsAgree
  <2> DEFINE get == Format.getters[ver]
             pinned == Format.gettersOf[ver]
             common == CommonGetters(Format.common, ver)
             own == Format.desc[ver]
  <2>1. TablesSound(Format, ver) /\ Dispatch(mem) = ver
    BY <1>1, FormatSound DEF HInv, IdentityKept
  <2>2. ASSUME NEW n \in DOMAIN get PROVE Read(mem, get[n]) = Read(mem, pinned[n])
    <3>1. Holds(get[n]) /\ Holds(pinned[n]) /\ pinned[n].at[1] = get[n].at[1]
      BY <2>1 DEF TablesSound, SettersFit, GettersFit
    <3> QED  BY <3>1, ReadWhole
  <2>3. ASSUME NEW n \in DOMAIN common \cap DOMAIN own, common[n].at[1][3] > 0
        PROVE  Read(mem, common[n]) = GetBits(mem, own[n])
    <3>1. Holds(common[n]) /\ common[n].at[1] = own[n]
      BY <2>1, <2>3 DEF TablesSound, GettersFit
    <3> QED  BY <3>1, ReadWhole
  <2> QED  BY <2>1, <2>2, <2>3 DEF ViewsAgree
<1> QED  BY <1>1, HeaderInvariance, PTL
=============================================================================
