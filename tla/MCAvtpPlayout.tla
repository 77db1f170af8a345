--------------------------- MODULE MCAvtpPlayout ---------------------------
(***************************************************************************)
(* The AAF listener with failing calls, on both sides of the wrap of the   *)
(* time, and the CVF listener behind a network that reorders.              *)
(***************************************************************************)
EXTENDS AvtpPlayout

MCApps ==
    {[fixedSize |-> TRUE, strays |-> {"foreign", "short"},
      faults |-> {"lose", "schedule", "present", "rearm"}, starts |-> {2, 3}],
     [fixedSize |-> FALSE, strays |-> {"badFormat", "short"},
      faults |-> {"lose", "reorder"}, starts |-> {3}]}
=============================================================================
