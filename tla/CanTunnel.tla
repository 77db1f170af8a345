----------------------------- MODULE CanTunnel -----------------------------
(***************************************************************************)
(* What a CAN bus bridged over an AVTP network promises: frames come out   *)
(* of the far end in the order in which they went in, each at most once.   *)
(* Frames may be missing; none is invented, repeated or overtaken.  There  *)
(* are no PDUs, batches, sequence numbers or threads at this level.        *)
(***************************************************************************)
EXTENDS Naturals, Sequences

VARIABLES
    offered,    \* how many frames went in; the i-th is called i
    delivered   \* the frames that came out, in order

Init == offered = 0 /\ delivered = <<>>

Newest == IF delivered = <<>> THEN 0 ELSE delivered[Len(delivered)]

Offer == offered' = offered + 1 /\ UNCHANGED delivered

Deliver ==
    /\ \E i \in Newest + 1 .. offered : delivered' = Append(delivered, i)
    /\ UNCHANGED offered

Next == Offer \/ Deliver

Spec == Init /\ [][Next]_<<offered, delivered>>
=============================================================================
