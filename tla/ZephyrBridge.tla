---------------------------- MODULE ZephyrBridge ----------------------------
(***************************************************************************)
(* The CAN bridge for Zephyr (examples/acf-can/zephyr/acf-can-bridge.c):   *)
(* main starts the CAN controller, waits for the network interface and     *)
(* creates the two threads; the driver puts received CAN frames into a     *)
(* queue of fixed length; can_to_avtp_runnable takes them from it in       *)
(* batches; avtp_to_can_runnable of the bridge at the other end hands the  *)
(* frames of a PDU to its controller and does not wait for it.             *)
(*                                                                         *)
(* Frames are numbered in the order in which they appear on the CAN bus;   *)
(* what becomes of their contents is the subject of AcfCanPdu.  A PDU is   *)
(* its sequence number and its frames.                                     *)
(*                                                                         *)
(* Batch      num_acf_msgs                                                 *)
(* QueueLen   length of rx_msgq (20)                                       *)
(* Mailboxes  frames the CAN controller takes before it has to send        *)
(* SeqNums    range of the sequence number on the wire                     *)
(* Worlds     the surroundings: records of                                 *)
(*              upAt    where main may be when the interface comes up      *)
(*              faults  what may go wrong: "lose", "send", "start"         *)
(* MaxFrames  bound: frames on the CAN bus                                 *)
(***************************************************************************)
EXTENDS Integers, Sequences, FiniteSets, SequencesExt

CONSTANTS Batch, QueueLen, Mailboxes, SeqNums, Worlds, MaxFrames

Places == {"can", "filter", "check", "register", "wait", "socket"}

ASSUME ZephyrAssumption ==
    /\ Batch \in Nat \ {0} /\ QueueLen \in Nat \ {0} /\ Mailboxes \in Nat \ {0}
    /\ SeqNums \in Nat \ {0, 1} /\ MaxFrames \in Nat
    /\ Worlds \subseteq [upAt : SUBSET Places, faults : SUBSET {"lose", "send", "start"}]

VARIABLES
    world,       \* the surroundings of this behaviour (they do not change)
    main,        \* where main is: a place, "asleep" (bridging) or "returned"
    up,          \* net_if_is_up
    event,       \* NET_EVENT_IF_UP was raised and its callbacks are still to run
    listening,   \* iface_up_cb is registered
    iface_up,    \* the semaphore
    taken,       \* frames that appeared on the bus since the filter is set
    rx_msgq,
    can_frames,  \* frames the talker thread has taken for the next PDU
    cf_seq_num,
    net,         \* PDUs on the way, in order
    exp_cf_seqnum,
    alarm,       \* "Incorrect sequence num." was logged for the last PDU
    out,         \* frames of the last PDU still to be handed to the controller
    mailbox,     \* frames the controller holds
    written,     \* frames handed to it, in order, history
    refused,     \* frames the queue or the controller had no room for, history
    gap          \* a PDU was not sent or was lost, history

start == <<world, main, up, event, listening, iface_up>>
talker == <<taken, rx_msgq, can_frames, cf_seq_num>>
listener == <<exp_cf_seqnum, alarm, out, mailbox>>
history == <<written, refused, gap>>
vars == <<start, talker, net, listener, history>>

Init ==
    /\ world \in Worlds
    /\ main = "can" /\ up = FALSE /\ event = FALSE /\ listening = FALSE /\ iface_up = 0
    /\ taken = 0 /\ rx_msgq = << >> /\ can_frames = << >> /\ cf_seq_num = 0
    /\ net = << >>
    /\ exp_cf_seqnum = 0 /\ alarm = FALSE /\ out = << >> /\ mailbox = 0
    /\ written = << >> /\ refused = {} /\ gap = FALSE

-----------------------------------------------------------------------------
(* main *)

Goto(from, to) ==
    /\ main = from /\ main' = to
    /\ UNCHANGED <<world, talker, net, listener, history>>

InitCanDev == Goto("can", "filter") /\ UNCHANGED <<up, event, listening, iface_up>>

InitCanRx == Goto("filter", "check") /\ UNCHANGED <<up, event, listening, iface_up>>

\* The device is not ready, there is no filter, or no socket.
StartFails ==
    /\ "start" \in world.faults
    /\ \E from \in {"can", "filter", "socket"} : Goto(from, "returned")
    /\ UNCHANGED <<up, event, listening, iface_up>>

\* wait_for_interface, in the steps between which the interface can change
IsUp ==
    /\ Goto("check", IF up THEN "socket" ELSE "register")
    /\ UNCHANGED <<up, event, listening, iface_up>>

AddCallback ==
    /\ Goto("register", "wait") /\ listening' = TRUE
    /\ UNCHANGED <<up, event, iface_up>>

SemTake ==
    /\ Goto("wait", "socket") /\ iface_up = 1
    /\ iface_up' = 0 /\ listening' = FALSE
    /\ UNCHANGED <<up, event>>

CreateThreads == Goto("socket", "asleep") /\ UNCHANGED <<up, event, listening, iface_up>>

-----------------------------------------------------------------------------
(* The network interface and Zephyr's event thread *)

InterfaceUp ==
    /\ ~up /\ main \in world.upAt
    /\ up' = TRUE /\ event' = TRUE
    /\ UNCHANGED <<world, main, listening, iface_up, talker, net, listener, history>>

\* Mutant: the semaphore is not given.
iface_up_handler_Idle == iface_up

\* k_sem_give on a semaphore whose limit is 1
iface_up_handler == 1

RunCallbacks ==
    /\ event /\ event' = FALSE
    /\ iface_up' = IF listening THEN iface_up_handler ELSE iface_up
    /\ UNCHANGED <<world, main, up, listening, talker, net, listener, history>>

-----------------------------------------------------------------------------
(* The CAN driver and the talker thread *)

HasRoom == Len(rx_msgq) < QueueLen

\* can_add_rx_filter_msgq: a received frame is put without waiting.
CanFrame ==
    /\ main \notin {"can", "filter", "returned"} /\ taken < MaxFrames
    /\ taken' = taken + 1
    /\ rx_msgq' = IF HasRoom THEN Append(rx_msgq, taken') ELSE rx_msgq
    /\ refused' = IF HasRoom THEN refused ELSE refused \cup {taken'}
    /\ UNCHANGED <<start, can_frames, cf_seq_num, net, listener, written, gap>>

\* Mutant: the frame stays in the queue.
GetFrame_Peeks ==
    /\ main = "asleep" /\ Len(can_frames) < Batch /\ rx_msgq # << >>
    /\ can_frames' = Append(can_frames, Head(rx_msgq))
    /\ UNCHANGED <<start, taken, rx_msgq, cf_seq_num, net, listener, history>>

\* k_msgq_get with K_FOREVER, until the batch is complete
GetFrame ==
    /\ main = "asleep" /\ Len(can_frames) < Batch /\ rx_msgq # << >>
    /\ can_frames' = Append(can_frames, Head(rx_msgq))
    /\ rx_msgq' = Tail(rx_msgq)
    /\ UNCHANGED <<start, taken, cf_seq_num, net, listener, history>>

\* can_to_avtp and sendto; a PDU that is not sent has used its number.
SendPdu(ok) ==
    /\ Len(can_frames) = Batch
    /\ net' = IF ok THEN Append(net, [seq |-> cf_seq_num % SeqNums, frames |-> can_frames])
              ELSE net
    /\ gap' = (gap \/ ~ok)
    /\ cf_seq_num' = cf_seq_num + 1 /\ can_frames' = << >>
    /\ UNCHANGED <<start, taken, rx_msgq, listener, written, refused>>

Send == SendPdu(TRUE)

SendFails == "send" \in world.faults /\ SendPdu(FALSE)

Lose ==
    /\ "lose" \in world.faults
    /\ \E i \in DOMAIN net : net' = RemoveAt(net, i)
    /\ gap' = TRUE
    /\ UNCHANGED <<start, talker, listener, written, refused>>

-----------------------------------------------------------------------------
(* The listener thread at the other end *)

\* Mutant: the increment after avtp_to_can is missing.
NextExpected_Same(seq) == seq

\* Set to the number received by avtp_to_can if it is another, then incremented
NextExpected(seq) == IF seq = exp_cf_seqnum % SeqNums THEN exp_cf_seqnum + 1 ELSE seq + 1

Receive ==
    /\ out = << >> /\ net # << >>
    /\ alarm' = (Head(net).seq # exp_cf_seqnum % SeqNums)
    /\ exp_cf_seqnum' = NextExpected(Head(net).seq)
    /\ out' = Head(net).frames /\ net' = Tail(net)
    /\ UNCHANGED <<start, talker, mailbox, history>>

AfterRefusal == Tail(out)

\* can_send with K_NO_WAIT
CanSend ==
    /\ out # << >>
    /\ IF mailbox < Mailboxes
       THEN /\ written' = Append(written, Head(out)) /\ mailbox' = mailbox + 1
            /\ out' = Tail(out) /\ UNCHANGED refused
       ELSE /\ refused' = refused \cup {Head(out)}
            /\ out' = AfterRefusal /\ UNCHANGED <<written, mailbox>>
    /\ UNCHANGED <<start, talker, net, exp_cf_seqnum, alarm, gap>>

BusTakes ==
    /\ mailbox > 0 /\ mailbox' = mailbox - 1
    /\ UNCHANGED <<start, talker, net, exp_cf_seqnum, alarm, out, history>>

-----------------------------------------------------------------------------
Main == InitCanDev \/ InitCanRx \/ IsUp \/ AddCallback \/ SemTake \/ CreateThreads
Talker == GetFrame \/ Send
Listener == Receive \/ CanSend

Next ==
    \/ Main \/ StartFails
    \/ InterfaceUp \/ RunCallbacks
    \/ CanFrame \/ BusTakes
    \/ Talker \/ SendFails
    \/ Lose
    \/ Listener

(* The scheduler runs every thread that can go on, and Zephyr its event    *)
(* thread; the interface comes up where the world lets it.                      *)
Fairness ==
    /\ WF_vars(Main) /\ WF_vars(InterfaceUp) /\ WF_vars(RunCallbacks)
    /\ WF_vars(Talker) /\ WF_vars(Listener)

Spec == Init /\ [][Next]_vars /\ Fairness

-----------------------------------------------------------------------------
\* The variables have their types; the queue and the controller their limits.
TypeOK ==
    /\ world \in Worlds /\ main \in Places \cup {"asleep", "returned"}
    /\ up \in BOOLEAN /\ event \in BOOLEAN /\ listening \in BOOLEAN /\ iface_up \in 0 .. 1
    /\ taken \in 0 .. MaxFrames /\ Len(rx_msgq) <= QueueLen /\ Len(can_frames) <= Batch
    /\ mailbox \in 0 .. Mailboxes /\ alarm \in BOOLEAN /\ gap \in BOOLEAN
    /\ refused \subseteq 1 .. taken

(* A wrong sequence number is logged only when a PDU is really missing,    *)
(* also when the number on the wire has wrapped (exp_cf_seqnum in          *)
(* avtp_to_can_runnable).                                                  *)
NoFalseAlarm == TypeOK /\ (alarm => gap)

Tunnel == INSTANCE CanTunnel WITH offered <- taken, delivered <- written

(* Whatever the full queue, the network and the full controller drop, the  *)
(* frames that come out are in the order of the bus and none comes twice.  *)
ImplementsTunnel == Tunnel!Spec

\* The interface does not come up between the check and the callback.
Prompt == world.upAt \cap {"check", "register"} = {}

Forwarded(i) == i \in Range(written) \cup refused \cup Range(can_frames)

(* Once the interface is up the bridge starts, if it did not come up       *)
(* between the two steps of wait_for_interface.  A frame is given up only  *)
(* where there was no room for it: all others are handed to the controller *)
(* at the other end, but for a last batch that is not complete (the loops  *)
(* of the two threads).                                                    *)
AllForwarded ==
    /\ Prompt => (up ~> main \in {"asleep", "returned"})
    /\ Prompt /\ world.faults = {} => <>[](\A i \in 1 .. taken : Forwarded(i))
=============================================================================
