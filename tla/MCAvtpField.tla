---------------------------- MODULE MCAvtpField ----------------------------
(***************************************************************************)
(* AvtpField on a PDU of three quadlets of four one-bit octets: every way  *)
(* to cut the twelve bits into two or three adjacent fields of at most two *)
(* quadlets (the 64 bits of the code), and one field that the version of   *)
(* the header does not have.                                               *)
(***************************************************************************)
EXTENDS AvtpField

MCByteBits == 1
MCQuadlets == 3
MCMaxWrites == 2

Descriptor(start, end) ==
    [quadlet |-> start \div 4, offset |-> start % 4, bits |-> end - start]

Absent == [quadlet |-> 0, offset |-> 0, bits |-> 0]

MCTables ==
    {<<Descriptor(0, a), Absent, Descriptor(a, b), Descriptor(b, 12)>> :
        <<a, b>> \in {p \in (1 .. 8) \X (4 .. 12) :
                        p[1] < p[2] /\ p[2] - p[1] <= 8 /\ 12 - p[2] <= 8}}

\* Narrow, full-width and over-wide values, and one with a pattern.
MCValues == {0, 1, 165, 255}

MCImages ==
    {[a \in 0 .. 11 |-> 0], [a \in 0 .. 11 |-> 1], [a \in 0 .. 11 |-> (a \div 3) % 2]}
=============================================================================
