---------------------------- MODULE MCNalBuffer ----------------------------
(***************************************************************************)
(* PDUs for units of four octets, one octet more than a start code, and a  *)
(* buffer of eight: streams longer than the buffer, and shorter ones from  *)
(* a pipe that may give a single octet first or fail once.                 *)
(***************************************************************************)
EXTENDS NalBuffer

SomePipes ==
    {[first |-> 2, fails |-> 0, most |-> 9], [first |-> 2, fails |-> 1, most |-> 7],
     [first |-> 1, fails |-> 0, most |-> 7]}
=============================================================================
