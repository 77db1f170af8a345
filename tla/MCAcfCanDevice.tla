--------------------------- MODULE MCAcfCanDevice ---------------------------
(***************************************************************************)
(* The Readme's example: ecu1 and ecu2 on the two ends mon1 and mon2 of a  *)
(* virtual cable, and (for the life cycle) both on mon1.                   *)
(***************************************************************************)
EXTENDS AcfCanDevice

Cable == [e \in {"mon1", "mon2"} |-> IF e = "mon1" THEN "mon2" ELSE "mon1"]

Unset == [eth |-> "", tx |-> "aaaa", rx |-> "bbbb"]
OnMon1 == [eth |-> "mon1", tx |-> "cafe", rx |-> "dead"]
OnMon2 == [eth |-> "mon2", tx |-> "dead", rx |-> "cafe"]
OldOnMon2 == [eth |-> "mon2", tx |-> "dead", rx |-> "bbbb"]
AnySetting == [d \in {"ecu1", "ecu2"} |-> {Unset, OnMon1, OnMon2}]
OwnSetting == [d \in {"ecu1", "ecu2"} |->
                 IF d = "ecu1" THEN {Unset, OnMon1} ELSE {Unset, OnMon2, OldOnMon2}]

Frame(id, eff, fd) == [id |-> id, eff |-> eff, rtr |-> ~fd, fd |-> fd, brs |-> fd, esi |-> FALSE]
OneFrame == {Frame(1, TRUE, FALSE)}
SomeFrames == {Frame(1, TRUE, FALSE), Frame(1, FALSE, TRUE)}

\* Devices set up and down while stores and frames are under way and Ethernet
\* devices go away; the whole life of devices; two hosts that only talk.
MCWorlds ==
    {[settings |-> AnySetting, traffic |-> OneFrame, allowed |-> {"overlap", "unplug"},
      sent |-> 1],
     [settings |-> AnySetting, traffic |-> OneFrame,
      allowed |-> {"newlink", "delete", "unload", "lose"}, sent |-> 2],
     [settings |-> OwnSetting, traffic |-> SomeFrames, allowed |-> {"lose"}, sent |-> 3]}
=============================================================================
