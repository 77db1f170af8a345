----------------------------- MODULE AvtpField -----------------------------
(***************************************************************************)
(* The field access engine of Open1722: Avtp_GetField and Avtp_SetField of *)
(* include/avtp/Utils.h on top of the byte swapping of Byteorder.h.  A     *)
(* field is described by the quadlet it starts in, its bit offset in that  *)
(* quadlet (0 is the most significant bit) and its width.  The engine      *)
(* walks the quadlets the field spans, reads each one as a native integer, *)
(* converts it from big endian, and masks and shifts the part of the field *)
(* that lies in it.                                                        *)
(*                                                                         *)
(* The same sequence of calls is made on two hosts, one of each byte       *)
(* order; mem[h] is the octets of the PDU in the memory of host h.         *)
(*                                                                         *)
(* ByteBits   bits of an octet: 8 in the code.  Every constant of the      *)
(*            engine (32, 4 octets per quadlet, the swap's 8 and 24) is    *)
(*            written in terms of it, so that narrow octets can be         *)
(*            checked exhaustively.                                        *)
(* Quadlets   length of the PDU in quadlets                                *)
(* Tables     the descriptor tables a caller may pass: sequences of        *)
(*            [quadlet, offset, bits]                                      *)
(* Values     what callers write                                           *)
(* Images     initial contents of the PDU                                  *)
(* MaxWrites  bound on the number of writes of a behaviour                 *)
(***************************************************************************)
EXTENDS Integers, Sequences, FiniteSets

CONSTANTS ByteBits, Quadlets, Tables, Values, Images, MaxWrites

Hosts == {"little", "big"}
QuadletSize == 4
QuadletBits == QuadletSize * ByteBits
Octets == 0 .. QuadletSize * Quadlets - 1
Octet == 0 .. 2^ByteBits - 1

ASSUME FieldConstants ==
    /\ ByteBits \in Nat \ {0} /\ Quadlets \in Nat \ {0} /\ MaxWrites \in Nat
    /\ Values \subseteq Nat /\ Images \subseteq [Octets -> Octet]
    /\ \A t \in Tables : \A i \in DOMAIN t :
          t[i].offset \in 0 .. QuadletBits - 1 /\ t[i].quadlet \in Nat /\ t[i].bits \in Nat

VARIABLES
    table,      \* the descriptor table of the PDU's format
    mem,        \* host -> octet address -> octet
    call,       \* the last call of Avtp_SetField: <<field, value>>
    writes      \* number of writes so far

vars == <<table, mem, call, writes>>

---------------------------------------------------------------------------
(* Memory access and byte order *)

\* The native 4-octet load of *quadletPtr on host h.
Load32(h, m, q) ==
    LET b(i) == m[QuadletSize * q + i] IN
    IF h = "big"
    THEN b(0) * 2^(3 * ByteBits) + b(1) * 2^(2 * ByteBits) + b(2) * 2^ByteBits + b(3)
    ELSE b(3) * 2^(3 * ByteBits) + b(2) * 2^(2 * ByteBits) + b(1) * 2^ByteBits + b(0)

\* The native 4-octet store.
Store32(h, m, q, x) ==
    LET byte(i) == (x \div 2^(i * ByteBits)) % 2^ByteBits IN
    [a \in DOMAIN m |->
        IF a \div QuadletSize # q THEN m[a]
        ELSE IF h = "big" THEN byte(3 - (a % QuadletSize)) ELSE byte(a % QuadletSize)]

Avtp_Bswap32(x) ==
    LET byte(i) == (x \div 2^(i * ByteBits)) % 2^ByteBits IN
    byte(3) + byte(2) * 2^ByteBits + byte(1) * 2^(2 * ByteBits) + byte(0) * 2^(3 * ByteBits)

Avtp_BeToCpu32(h, x) == IF h = "little" THEN Avtp_Bswap32(x) ELSE x

\* Mutant of Avtp_CpuToBe32: the conversion is missing.
Avtp_CpuToBe32_Missing(h, x) == x

Avtp_CpuToBe32(h, x) == IF h = "little" THEN Avtp_Bswap32(x) ELSE x

---------------------------------------------------------------------------
(* The chunks of a field: one iteration of the while loop per quadlet *)

Avtp_MinU8(a, b) == IF a < b THEN a ELSE b

\* Mutant of Chunk: the shift in the first quadlet ignores the offset.
Chunk_NoOffset(d, k) ==
    LET processed == IF k = 0 THEN 0 ELSE k * QuadletBits - d.offset
        n == Avtp_MinU8(IF k = 0 THEN QuadletBits - d.offset ELSE QuadletBits,
                        d.bits - processed)
    IN [quadlet |-> d.quadlet + k, bits |-> n, shift |-> QuadletBits - n,
        low |-> d.bits - processed - n]

\* Iteration k of the loop (from 0): the quadlet it visits, how many bits of the
\* field lie in it and where, and how many bits of the value are below them.
Chunk(d, k) ==
    LET processed == IF k = 0 THEN 0 ELSE k * QuadletBits - d.offset
        n == Avtp_MinU8(IF k = 0 THEN QuadletBits - d.offset ELSE QuadletBits,
                        d.bits - processed)
    IN [quadlet |-> d.quadlet + k,
        bits    |-> n,
        shift   |-> IF k = 0 THEN QuadletBits - n - d.offset ELSE QuadletBits - n,
        low     |-> d.bits - processed - n]

\* Iterations until processedBits reaches the width of the field.
Iterations(d) ==
    IF d.bits = 0 THEN 0 ELSE (d.offset + d.bits + QuadletBits - 1) \div QuadletBits

\* partialValue of Avtp_GetField, at its place in the result.
Partial(h, m, c) ==
    ((Avtp_BeToCpu32(h, Load32(h, m, c.quadlet)) \div 2^c.shift) % 2^c.bits) * 2^c.low

\* Mutant of Merge: the value is not masked to the width of the field.
Merge_Unmasked(old, c, value) ==
    old - ((old \div 2^c.shift) % 2^c.bits) * 2^c.shift + (value \div 2^c.low) * 2^c.shift

\* quadletHostOrder & ~quadletMask | (partialValue << quadletShift) & quadletMask
Merge(old, c, value) ==
    LET under == (old \div 2^c.shift) % 2^c.bits
        part  == (value \div 2^c.low) % 2^c.bits
    IN old - under * 2^c.shift + part * 2^c.shift

Update(h, m, c, value) ==
    LET old == Avtp_BeToCpu32(h, Load32(h, m, c.quadlet))
    IN Store32(h, m, c.quadlet, Avtp_CpuToBe32(h, Merge(old, c, value)))

---------------------------------------------------------------------------
(* The two entry points.  `field' counts from 0, as in the code; a field at *)
(* or beyond numFields reads as 0 and is not written.                       *)

Avtp_GetField(h, t, m, field) ==
    IF field >= Len(t) THEN 0
    ELSE LET d == t[field + 1]
             result[k \in 0 .. Iterations(d)] ==
                IF k = 0 THEN 0 ELSE result[k - 1] + Partial(h, m, Chunk(d, k - 1))
         IN result[Iterations(d)]

Avtp_SetField(h, t, m, field, value) ==
    IF field >= Len(t) THEN m
    ELSE LET d == t[field + 1]
             after[k \in 0 .. Iterations(d)] ==
                IF k = 0 THEN m ELSE Update(h, after[k - 1], Chunk(d, k - 1), value)
         IN after[Iterations(d)]

---------------------------------------------------------------------------
(* The state machine: callers write fields in any order *)

Init ==
    /\ table \in Tables
    /\ \E image \in Images : mem = [h \in Hosts |-> image]
    /\ call = <<>>
    /\ writes = 0

SetField(field, value) ==
    /\ writes < MaxWrites
    /\ mem' = [h \in Hosts |-> Avtp_SetField(h, table, mem[h], field, value)]
    /\ call' = <<field, value>>
    /\ writes' = writes + 1
    /\ UNCHANGED table

\* `field' runs one past the table: the bound check of the engine.
Next == \E field \in 0 .. Len(table), value \in Values : SetField(field, value)

Spec == Init /\ [][Next]_vars

---------------------------------------------------------------------------
(* Properties *)

\* Every octet of both memories stays an octet, and the table is one of the
\* tables callers pass.
TypeOK ==
    /\ table \in Tables
    /\ mem \in [Hosts -> [Octets -> Octet]]
    /\ writes \in 0 .. MaxWrites

\* Bit i of the PDU as transmitted, bit 0 being the most significant bit of the
\* first octet (the convention of IEEE 1722 figures and of the tables).
WireBit(m, i) == (m[i \div ByteBits] \div 2^(ByteBits - 1 - (i % ByteBits))) % 2

\* The unsigned number in `bits' wire bits from bit `start'.
WireNumber(m, start, bits) ==
    LET acc[i \in 0 .. bits] ==
            IF i = 0 THEN 0 ELSE 2 * acc[i - 1] + WireBit(m, start + i - 1)
    IN acc[bits]

\* Avtp_GetField reads exactly the big-endian number in the bits the descriptor
\* names, on hosts of both byte orders and for fields that start and end
\* anywhere in up to three quadlets.
GetReadsWireBits ==
    /\ TypeOK
    /\ \A h \in Hosts, i \in DOMAIN table :
           Avtp_GetField(h, table, mem[h], i - 1)
               = WireNumber(mem[h], table[i].quadlet * QuadletBits + table[i].offset,
                            table[i].bits)

\* Two hosts of different byte order that make the same Avtp_SetField calls
\* produce the same octets on the wire.
HostsAgree == mem["little"] = mem["big"]

\* The engine implements the record of independent fields: on a host of either
\* byte order, the values Avtp_GetField returns for all the fields of the table
\* change exactly as FieldRecord says, wherever the fields lie: the field written
\* reads back modulo two to its width, all others keep their value, and a call
\* with an index at or past numFields changes nothing.
Fields == {i - 1 : i \in DOMAIN table}
Shape == [f \in Fields |-> table[f + 1].bits]
ReadAll(h) == [f \in Fields |-> Avtp_GetField(h, table, mem[h], f)]
Modulo(bits, v) == v % 2^bits

Little == INSTANCE FieldRecord WITH
    Store <- Modulo, shape <- Shape, rec <- ReadAll("little")
Big == INSTANCE FieldRecord WITH
    Store <- Modulo, shape <- Shape, rec <- ReadAll("big")

ImplementsRecord == Little!Spec /\ Big!Spec
=============================================================================
