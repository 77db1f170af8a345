----------------------------- MODULE MCVssCodec -----------------------------
(***************************************************************************)
(* Octets of two bits and quadlets of two octets: a length in front of an  *)
(* array reaches from 0 to 15, a message has at most 12 octets.            *)
(***************************************************************************)
EXTENDS VssCodec

Unsigned(w) == {0, 1, Octet ^ w - 1}
Singles(S) == {<<v>> : v \in S}
ListsOf(S, n) == UNION {[1 .. k -> S] : k \in 0 .. n}

SomeValues ==
    [VSS_UINT8 |-> Singles(Unsigned(1)), VSS_INT16 |-> {<<-1>>, <<1 - Octet ^ 2 \div 2>>},
     VSS_UINT32 |-> {<<1>>, <<Octet ^ 4 - 1>>},
     VSS_STRING |-> ListsOf({1, 3}, 2), VSS_INT16_ARRAY |-> ListsOf({-1}, 2),
     VSS_STRING_ARRAY |-> {<<>>}, unknown |-> {<<>>}]
SomePaths == {<<>>, <<2>>, <<2, 2, 2>>}
SomeIds == Unsigned(2)

\* The bodies of the first two worlds differ in the octets that can be lengths,
\* and in some that are data.
Everything ==
    [modes |-> {"static", "interop", "reserved"}, values |-> SomeValues,
     texts |-> ListsOf({<<3>>}, 1),
     bodies |-> {b \o <<3, 3, 3, 3>> : b \in [1 .. Room - 4 -> {0, 1, 3}]}, lens |-> 0 .. 5]
StringArrays ==
    [modes |-> {"reserved"}, values |-> [VSS_STRING_ARRAY |-> {<<>>}],
     texts |-> ListsOf(ListsOf({1}, 4), 4),
     bodies |-> {b \o <<1, 1>> : b \in [1 .. Room - 2 -> {0, 1, 2}]},
     lens |-> 2 .. (HeaderLen + Room) \div Quadlet]

\* Each of the 24 codes with a value that shows width, sign and order of its
\* octets (3, .., 3, 2 or 2, 0, .., 1); the room is that of an array of one
\* 64-bit number.
ValuesOf(dt) ==
    LET Numbers(w) ==
            IF dt \in Signed THEN {1 - Octet ^ w \div 2} ELSE {Octet ^ w - 2} IN
    IF dt \in DOMAIN ScalarWidth THEN Singles(Numbers(ScalarWidth[dt]))
    ELSE IF dt = "VSS_STRING_ARRAY" THEN {<<>>}
    ELSE ListsOf(Numbers(ElementWidth[dt]), 2)
EveryCode ==
    [modes |-> {"static", "reserved"},
     values |-> [dt \in DOMAIN ScalarWidth \cup DOMAIN ElementWidth |-> ValuesOf(dt)],
     texts |-> ListsOf({<<3>>}, 1),
     bodies |-> [1 .. Room -> {0}] \cup [1 .. Room -> {1}] \cup [1 .. Room -> {Octet - 1}],
     lens |-> 0 .. (HeaderLen + Room) \div Quadlet]

ThreeWorlds == [everything |-> Everything, strings |-> StringArrays, codes |-> EveryCode]
=============================================================================
