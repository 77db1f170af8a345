---------------------------- MODULE FieldRecord ----------------------------
(***************************************************************************)
(* What the field access layer of Open1722 promises to its callers: a      *)
(* header is a record of independent unsigned fields.  Writing a field     *)
(* stores the part of the value that the field can hold and leaves every   *)
(* other field as it was; writing something the header does not have       *)
(* changes nothing.  There are no bytes, quadlets, masks, byte orders,     *)
(* header versions or second descriptor tables at this level.              *)
(*                                                                         *)
(* Store(s, v)  the part of the value v that a field of shape s keeps      *)
(***************************************************************************)
CONSTANT Store(_, _)

VARIABLES
    shape,      \* field -> what it can hold
    rec,        \* field -> its value
    call        \* the last call: <<field, value>>

Init == DOMAIN rec = DOMAIN shape /\ \A f \in DOMAIN rec : rec[f] = Store(shape[f], rec[f])

Write ==
    /\ call'[1] \in DOMAIN shape
    /\ rec' = [rec EXCEPT ![call'[1]] = Store(shape[call'[1]], call'[2])]

Ignore == call'[1] \notin DOMAIN shape /\ rec' = rec

Next == shape' = shape /\ (Write \/ Ignore)

Spec == Init /\ [][Next]_<<shape, rec, call>>
=============================================================================
