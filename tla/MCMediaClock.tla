---------------------------- MODULE MCMediaClock ----------------------------
(***************************************************************************)
(* A network without faults, long enough for three CRF PDUs to be used up, *)
(* one that loses PDUs, and one that also brings another sender's frame.   *)
(***************************************************************************)
EXTENDS MediaClock

MCWorlds ==
    {[strays |-> {}, lossy |-> FALSE, crf |-> 3, aaf |-> 9],
     [strays |-> {}, lossy |-> TRUE, crf |-> 3, aaf |-> 4],
     [strays |-> {[kind |-> "other", ts |-> 0, no |-> 0]}, lossy |-> TRUE, crf |-> 1, aaf |-> 3]}
=============================================================================
