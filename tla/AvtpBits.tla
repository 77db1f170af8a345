------------------------------ MODULE AvtpBits ------------------------------
(***************************************************************************)
(* Headers at their real size, seen bit by bit.  A memory is the set of    *)
(* the wire bits that are 1 (bit 0 is the most significant bit of the      *)
(* first octet) and a value is the set of its binary digits that are 1     *)
(* (digit 0 is the least significant), so 64-bit fields need no integers.  *)
(* GetBits and SetBits say what Avtp_GetField and Avtp_SetField do to such *)
(* a memory; that the chunk and mask arithmetic of the code does this, on  *)
(* hosts of both byte orders, is what module AvtpField checks.             *)
(***************************************************************************)
EXTENDS Integers, Sequences, FiniteSets

\* The versions of an AVTPDU header.
Versions == {0, 1}

\* A descriptor is <<quadlet, offset, bits>>.
FirstBit(d) == 32 * d[1] + d[2]

FieldBits(d) == FirstBit(d) .. FirstBit(d) + d[3] - 1

GetBits(m, d) ==
    LET last == FirstBit(d) + d[3] - 1
    IN {last - b : b \in FieldBits(d) \cap m}

\* Mutant of SetBits: the old bits of the field are not cleared.
SetBits_Or(m, d, value) ==
    m \cup {FirstBit(d) + d[3] - 1 - i : i \in value \cap (0 .. d[3] - 1)}

SetBits(m, d, value) ==
    LET last == FirstBit(d) + d[3] - 1
    IN (m \ FieldBits(d)) \cup {last - i : i \in value \cap (0 .. d[3] - 1)}

\* The binary digits of a small number.
NumBits(n) == {i \in 0 .. 15 : (n \div 2^i) % 2 = 1}

\* A value converted to an unsigned C type of w bits (bool: any value but 0 is 1).
Cast(value, w) ==
    IF w = 1 THEN (IF value = {} THEN {} ELSE {0}) ELSE value \cap (0 .. w - 1)

\* The named accessors of one header: the fields whose accessors have the C
\* types bool, uint8_t, uint16_t, uint32_t (or an enumeration) and uint64_t.
Named(desc, bools, u8, u16, u32, u64) ==
    [n \in bools \cup u8 \cup u16 \cup u32 \cup u64 |->
        [at   |-> <<desc[n]>>,
         type |-> CASE n \in bools -> 1 [] n \in u8 -> 8 [] n \in u16 -> 16
                    [] n \in u32 -> 32 [] n \in u64 -> 64]]
=============================================================================
