--------------------------- MODULE MCZephyrBridge ---------------------------
(***************************************************************************)
(* Batches of two out of a queue of three: the queue and the controller    *)
(* fill up, and the sequence number wraps after three PDUs.                *)
(***************************************************************************)
EXTENDS ZephyrBridge

Quiet == [upAt |-> {"can", "filter", "wait"}, faults |-> {}]
Faulty == [upAt |-> Places, faults |-> {"lose", "send", "start"}]
TwoWorlds == {Quiet, Faulty}
=============================================================================
