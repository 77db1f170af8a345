---------------------------- MODULE MCAcfMessage ----------------------------
(***************************************************************************)
(* AcfMessage with the seventeen formats of the library at their real      *)
(* sizes; payloads, headers and buffers around every limit: the padding,   *)
(* 8 and 64 (CAN), 254 (FlexRay), 255/256 (uint8_t) and the 2044 octets    *)
(* that 9 bits of quadlets can express.                                    *)
(***************************************************************************)
EXTENDS AcfMessage

MCFormats == [
    Can |-> Can, CanBrief |-> CanBrief, CanV2 |-> CanV2, CanBriefV2 |-> CanBriefV2,
    CanXl |-> CanXl, CanXlBrief |-> CanXlBrief, FlexRay |-> FlexRay, Lin |-> Lin,
    Most |-> Most, Gbb |-> Gbb, Abb |-> Abb, Gisf |-> Gisf, Sensor |-> Sensor,
    SensorBrief |-> SensorBrief, Gpc |-> Gpc, I2C |-> I2C, I2CBrief |-> I2CBrief]

\* MCAcfMessageLength: one of the formats whose payloads outgrow the result type.
GbbOnly == [Gbb |-> Gbb]

MCPayloads ==
    (0 .. 5) \cup {7, 8, 9, 63, 64, 65, 254, 255, 256, 257, 1500}
        \cup (2018 .. 2022) \cup {2044, 2045, 2048, 65535}

MCSensors == {<<0, 0>>, <<1, 3>>, <<3, 0>>, <<127, 3>>}

MCForged ==
    LET lens == {0, 1, 2, 4, 5, 6, 20, 67, 129, 511} IN
    [type : {127}, len : lens, pad : {0, 3}, fdf : BOOLEAN, num : {1}, sz : {1}]
        \cup [type : {127}, len : lens, pad : {0}, fdf : {FALSE}, num : {0, 3}, sz : {0, 3}]

MCSizes == {0, 4, 8, 15, 16, 20, 24, 80, 276, 516, 1500, 2048}
=============================================================================
