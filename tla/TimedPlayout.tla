---------------------------- MODULE TimedPlayout ----------------------------
(***************************************************************************)
(* What a listener with presentation times promises: every sample it has   *)
(* taken is presented at most once, never before its time, and never after *)
(* a sample whose time is later.  No packets, no timer, no queue.          *)
(***************************************************************************)
EXTENDS Naturals, Sequences

VARIABLES
    now,        \* the common clock
    pending,    \* samples taken: records with a presentation time `at'
    played      \* samples presented, in order

Init == now \in Nat /\ pending = {} /\ played = <<>>

Tick == now' = now + 1 /\ UNCHANGED <<pending, played>>

Take ==
    /\ \E x \in pending' : pending' = pending \cup {x}
    /\ UNCHANGED <<now, played>>

Present(x) ==
    /\ x.at <= now
    /\ \A y \in pending : x.at <= y.at
    /\ pending' = pending \ {x}
    /\ played' = Append(played, x)
    /\ UNCHANGED now

Next == Tick \/ Take \/ \E x \in pending : Present(x)

Spec == Init /\ [][Next]_<<now, pending, played>>
=============================================================================
