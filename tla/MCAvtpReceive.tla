--------------------------- MODULE MCAvtpReceive ---------------------------
(***************************************************************************)
(* AvtpReceive with the real header sizes: payloads around the raw header  *)
(* of RVF (8), the timestamps of CRF, the 11 bits of the NTSCF length and  *)
(* the CAN limits; PDUs cut at and around the end of a header, of a        *)
(* message and of the data, and padded.                                    *)
(***************************************************************************)
EXTENDS AvtpReceive

Can == [hdr |-> 16, type |-> 1, kind |-> "padded", ret |-> 256, max |-> 8, maxFd |-> 64]
CanBriefV2 == [hdr |-> 8, type |-> 34, kind |-> "padded", ret |-> 256, max |-> 8, maxFd |-> 64]

\* ACF headers of other senders: of `type' or of an unknown type.
Headers(type, lens) ==
    {[type |-> t, len |-> l, pad |-> p, fdf |-> fd, num |-> 0, sz |-> 0, big |-> b] :
        t \in {type, 127}, l \in lens, p \in {0, 3}, fd \in BOOLEAN, b \in BOOLEAN}

\* Classic CAN over Ethernet, and CAN FD with brief headers over UDP.
MCLinks ==
    {[api |-> Can, udp |-> FALSE, fd |-> FALSE, lengths |-> {0, 3, 8},
      messages |-> Headers(1, {0, 3, 4, 6})],
     [api |-> CanBriefV2, udp |-> TRUE, fd |-> TRUE, lengths |-> {0, 5, 8, 64},
      messages |-> Headers(34, {0, 1, 2, 3, 4, 5, 19})]}

\* Stream headers of other senders, and one of another stream.
MCForeign ==
    LET with(subs, vers, lens) ==
            {[Blank EXCEPT !.sub = s, !.ver = v, !.len = l] : s \in subs, v \in vers, l \in lens}
    IN with({"TSCF", "AAF", "CVF", "RVF", "CRF"}, {0, 1, 2}, {0, 7, 8, 16, 20, 48, 65535})
       \cup with({"NTSCF"}, {0, 1, 7}, {0, 8, 16, 20, 48, 2047})
       \cup {[Blank EXCEPT !.sub = "NTSCF", !.len = 16, !.mine = FALSE]}
       \cup {[Blank EXCEPT !.sub = "AAF", !.format = f, !.channels = c, !.depth = d] :
                 f \in 0 .. 5, c \in {0, 2}, d \in {0, 16, 24, 25, 32, 33}}

\* Octets cut off the end, or padding.
MCExtra == {-60, -44, -41, -40, -29, -28, -25, -24, -13, -12, -9, -8, -4, -1, 0, 1, 34}
=============================================================================
