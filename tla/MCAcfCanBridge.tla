--------------------------- MODULE MCAcfCanBridge ---------------------------
(***************************************************************************)
(* AcfCanBridge with counters of 4 and a version 0 field of 2 values, so   *)
(* that both wrap within a few PDUs, and two slots.                        *)
(***************************************************************************)
EXTENDS AcfCanBridge

MCCtrMod == 4
MCSeqMod == 2
MCMaxFrames == 2
MCStdMax == 1
MCStreams == {StreamId, "other"}

CanFrame(id, eff, rtr, flags) ==
    [id |-> id, eff |-> eff, rtr |-> rtr, fdf |-> flags, brs |-> flags, esi |-> flags]

Plain == {CanFrame(1, FALSE, FALSE, FALSE)}

\* A plain standard frame and an extended frame with all its flags set.
Mixed == {CanFrame(1, FALSE, FALSE, FALSE), CanFrame(2, TRUE, TRUE, TRUE)}

\* Zeros, flags, and a length that no CAN frame has.
Debris == {Blank, [Blank EXCEPT !.id = 2, !.rtr = TRUE], [Blank EXCEPT !.data = Oversized]}
Zeros == {Blank}

AcfMsg(id, eff) ==
    [id |-> id, eff |-> eff, rtr |-> TRUE, fdf |-> TRUE, brs |-> TRUE, esi |-> TRUE,
     ok |-> TRUE, data |-> 0]

Other(kind, sid, msgs) ==
    [udp |-> 3, ver |-> 0, kind |-> kind, sid |-> sid, msgs |-> msgs, seq |-> 1,
     from |-> 0, k |-> 0]

Foreign == {Other("cf", "other", <<AcfMsg(1, FALSE)>>), Other("invalid", StreamId, <<>>),
            Other("short", StreamId, <<>>), Other("shortudp", StreamId, <<>>)}

\* PDUs of the listener's stream that it gives up after the first message: an
\* identifier without its EFF bit, and one message too many.
GivenUp == {Other("cf", StreamId, <<AcfMsg(2, TRUE), AcfMsg(2, FALSE)>>),
            Other("cf", StreamId, <<AcfMsg(2, TRUE), AcfMsg(2, TRUE), AcfMsg(1, FALSE)>>)}

SomeStrays == GivenUp \cup {Other("other", StreamId, <<>>)}

\* A PDU of the stream without any message.
OneStray == {Other("cf", StreamId, <<>>)}

Config(nums, fds, udps, vers, apps, traffic, leftovers, strays, faults, bound) ==
    [num : nums, fd : fds, udp : udps, ver : vers, app : apps, traffic : {traffic},
     leftovers : {leftovers}, strays : {strays}, faults : {faults}, reads : {bound}]

\* Nothing happens to the stream; all counters wrap.
Clean ==
    Config({1, 2}, {TRUE}, BOOLEAN, {0, 1}, {"bridge", "listener"}, Plain, Zeros, Foreign,
           {"stray"}, 6)

\* The network loses, damages and mixes in PDUs; system calls fail.
Lossy ==
    Config({2}, {TRUE}, {FALSE}, {0}, {"bridge"}, Mixed, Zeros, SomeStrays,
           {"lose", "damage", "stray", "send", "write"}, 4)

\* It also repeats and reorders them; programs are restarted.
Faulty ==
    Config({1}, {FALSE}, {TRUE}, {0}, {"listener"}, Plain, Debris, OneStray,
           {"read", "lose", "duplicate", "reorder", "stray", "restart"}, 2)

MCConfigs == Clean \cup Lossy \cup Faulty
=============================================================================
