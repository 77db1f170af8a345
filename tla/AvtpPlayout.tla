---------------------------- MODULE AvtpPlayout ----------------------------
(***************************************************************************)
(* The AAF and CVF examples: a talker stamps each PDU with the low part of *)
(* the time at which it is to be presented, now + max_transit_time; the    *)
(* listener rebuilds the full time, queues the sample, and presents the    *)
(* head of the queue when a one-shot timer for it expires.  One poll()     *)
(* loop serves the socket and the timer, both from one poll() result.      *)
(* Talker and listener share a clock (PTP).                                *)
(*                                                                         *)
(* Wrap           2^32: the low part of a time is what the PDU carries     *)
(* SeqWrap        256                                                      *)
(* MaxTransit     max_transit_time of the talker                           *)
(* Latency        how long a PDU really takes to be handled                *)
(* Apps           listeners and their surroundings, as records:            *)
(*                  fixedSize  a short PDU ends the program (the AAF       *)
(*                             listener) or is dropped as invalid (CVF)    *)
(*                  strays     kinds of PDUs that others send              *)
(*                  faults     what may go wrong                           *)
(*                  starts     clock values at start                       *)
(* MaxSent, MaxStrays, MaxTime   bounds                                    *)
(***************************************************************************)
EXTENDS Integers, Sequences, FiniteSets, SequencesExt

CONSTANTS Wrap, SeqWrap, MaxTransit, Latency, Apps, MaxSent, MaxStrays, MaxTime

ASSUME PlayoutConstants ==
    /\ Wrap \in Nat \ {0} /\ SeqWrap \in Nat \ {0}
    /\ MaxTransit \in Nat /\ Latency \in Nat
    /\ \A a \in Apps :
          /\ a.fixedSize \in BOOLEAN
          /\ a.strays \subseteq {"foreign", "badFormat", "short"}
          /\ a.faults \subseteq {"lose", "reorder", "schedule", "present", "rearm"}
          /\ a.starts \subseteq Nat
    /\ MaxSent \in Nat /\ MaxStrays \in Nat /\ MaxTime \in Nat

\* max_transit_time is what its name says, and it can be told from 32 bits of
\* a time in nanoseconds.
ASSUME TransitAssumption == Latency <= MaxTransit /\ MaxTransit < Wrap

Off == -1

VARIABLES
    app,        \* the listener
    now,        \* CLOCK_REALTIME
    seqNum,     \* talker: seq_num
    sent,       \* talker: PDUs sent, history
    strays,     \* PDUs of others sent, history
    net,        \* PDUs under way
    sock,       \* PDUs waiting in the listener's socket
    revents,    \* what the last poll() reported and is not yet served
    status,     \* "run", "exit" (main returned), "abort" (an assert failed),
                \* "stuck" (read() of a timer that has not expired)
    queue,      \* samples / nals
    timer,      \* the time the timer fd is armed for, or Off
    expected,   \* expected_seq
    mismatch,   \* "Sequence number mismatch" has been logged
    played,     \* samples presented, in order, history
    happened    \* faults so far, history

talker == <<seqNum, sent, strays>>
listener == <<revents, status, queue, timer, expected, mismatch>>
vars == <<app, now, talker, net, sock, listener, played, happened>>

Sample == [id : Nat, due : Nat, at : Nat]

Init ==
    /\ app \in Apps /\ now \in app.starts
    /\ seqNum = 0 /\ sent = 0 /\ strays = 0
    /\ net = <<>> /\ sock = <<>> /\ revents = {} /\ status = "run"
    /\ queue = <<>> /\ timer = Off /\ expected = 0 /\ mismatch = FALSE
    /\ played = <<>> /\ happened = {}

---------------------------------------------------------------------------
(* Talker and network *)

\* calculate_avtp_time: the low part of the presentation time.
calculate_avtp_time == (now + MaxTransit) % Wrap

\* One turn of the talker's loop; `due', `id' and `born' are history.
TalkerSend ==
    /\ sent < MaxSent /\ now + MaxTransit <= MaxTime
    /\ net' = Append(net, [kind |-> "data", seq |-> seqNum, stamp |-> calculate_avtp_time,
                           due |-> now + MaxTransit, id |-> sent + 1, born |-> now])
    /\ seqNum' = (seqNum + 1) % SeqWrap
    /\ sent' = sent + 1
    /\ UNCHANGED <<app, now, strays, sock, listener, played, happened>>

\* A PDU that is not of this stream or not of this format; only the latter
\* has a sequence number anyone looks at.
SeqsOf(kind) == IF kind = "badFormat" THEN 0 .. SeqWrap - 1 ELSE {0}

StraySend(kind, seq) ==
    /\ strays < MaxStrays
    /\ net' = Append(net, [kind |-> kind, seq |-> seq, stamp |-> 0, due |-> 0, id |-> 0,
                           born |-> now])
    /\ strays' = strays + 1
    /\ UNCHANGED <<app, now, seqNum, sent, sock, listener, played, happened>>

\* The i-th PDU under way reaches the socket; an overtaking one only where the
\* network reorders.
Deliver(i) ==
    /\ i > 1 => "reorder" \in app.faults
    /\ sock' = Append(sock, net[i])
    /\ net' = RemoveAt(net, i)
    /\ happened' = IF i > 1 THEN happened \cup {"reorder"} ELSE happened
    /\ UNCHANGED <<app, now, talker, listener, played>>

Lose(i) ==
    /\ "lose" \in app.faults
    /\ net' = RemoveAt(net, i)
    /\ happened' = happened \cup {"lose"}
    /\ UNCHANGED <<app, now, talker, sock, listener, played>>

\* Time passes; Latency bounds how long a PDU waits to be handled.
Tick ==
    /\ now < MaxTime
    /\ \A p \in Range(net) \cup Range(sock) : now < p.born + Latency
    /\ now' = now + 1
    /\ UNCHANGED <<app, talker, net, sock, listener, played, happened>>

---------------------------------------------------------------------------
(* Listener *)

\* Mutant: the wrap of the low part is not seen.
get_presentation_time_NoCarry(stamp, clock) == (clock - (clock % Wrap)) + stamp

\* get_presentation_time: the high part of the clock with the stamp as low
\* part, one wrap later if that has passed.
get_presentation_time(stamp, clock) ==
    LET ptime == (clock - (clock % Wrap)) + stamp
    IN IF ptime < clock THEN ptime + Wrap ELSE ptime

\* Mutant: a sample is put in front of those that wait.
schedule_InFront(sample) ==
    /\ queue' = <<sample>> \o queue
    /\ timer' = sample.at

\* schedule_sample / schedule_nal: append, and arm the timer for a sample
\* that is alone in the queue.
schedule(sample) ==
    /\ queue' = Append(queue, sample)
    /\ timer' = IF queue = <<>> THEN sample.at ELSE timer

\* timerfd: readable once the time it is armed for has come.
Expired == timer # Off /\ timer <= now

Poll ==
    /\ status = "run" /\ revents = {}
    /\ revents' = (IF sock # <<>> THEN {"socket"} ELSE {})
                     \cup (IF Expired THEN {"timer"} ELSE {})
    /\ revents' # {}
    /\ UNCHANGED <<app, now, talker, net, sock, status, queue, timer, expected, mismatch,
                   played, happened>>

\* is_valid_packet: the sequence number is taken over before the format is
\* looked at, and not at all for what fails an earlier check.
SequenceCheck(p) ==
    IF p.kind \in {"data", "badFormat"}
    THEN /\ mismatch' = (mismatch \/ p.seq # expected)
         /\ expected' = (p.seq + 1) % SeqWrap
    ELSE UNCHANGED <<mismatch, expected>>

\* new_packet for a PDU that is kept, for one that is dropped and for one
\* that ends the program: a short PDU (AAF), or no memory or timer for it.
NewPacket ==
    /\ status = "run" /\ "socket" \in revents
    /\ revents' = revents \ {"socket"}
    /\ sock' = Tail(sock)
    /\ LET p == Head(sock)
           sample == [id |-> p.id, due |-> p.due, at |-> get_presentation_time(p.stamp, now)]
       IN /\ SequenceCheck(p)
          /\ \/ p.kind = "data" /\ schedule(sample) /\ UNCHANGED <<status, happened>>
             \/ /\ p.kind = "data" /\ "schedule" \in app.faults
                /\ status' = "exit" /\ happened' = happened \cup {"schedule"}
                /\ UNCHANGED <<queue, timer>>
             \/ /\ p.kind = "short" /\ app.fixedSize
                /\ status' = "exit" /\ UNCHANGED <<queue, timer, happened>>
             \/ /\ p.kind # "data" /\ ~(p.kind = "short" /\ app.fixedSize)
                /\ UNCHANGED <<status, queue, timer, happened>>
    /\ UNCHANGED <<app, now, talker, net, played>>

\* Mutant: the timer is not armed for the next sample.
NextHead_NoRearm ==
    /\ played' = Append(played, Head(queue))
    /\ queue' = Tail(queue)
    /\ timer' = Off
    /\ UNCHANGED <<status, happened>>

\* The end of timeout(): the head has been presented; remove it and arm the
\* timer for the next one.  Where arm_timer fails the program ends.
NextHead ==
    /\ played' = Append(played, Head(queue))
    /\ queue' = Tail(queue)
    /\ \/ /\ timer' = IF Tail(queue) = <<>> THEN Off ELSE Head(Tail(queue)).at
          /\ UNCHANGED <<status, happened>>
       \/ /\ "rearm" \in app.faults /\ Tail(queue) # <<>>
          /\ timer' = Off /\ status' = "exit" /\ happened' = happened \cup {"rearm"}

\* timeout(): read() of a timer that has not expired would block; an empty
\* queue fails the assert; present_data may fail.
Timeout ==
    /\ status = "run" /\ revents = {"timer"}
    /\ revents' = {}
    /\ IF ~Expired \/ queue = <<>>
       THEN /\ status' = IF Expired THEN "abort" ELSE "stuck"
            /\ timer' = IF Expired THEN Off ELSE timer
            /\ UNCHANGED <<queue, played, happened>>
       ELSE \/ NextHead
            \/ /\ "present" \in app.faults
               /\ status' = "exit" /\ happened' = happened \cup {"present"}
               /\ timer' = Off /\ UNCHANGED <<queue, played>>
    /\ UNCHANGED <<app, now, talker, net, sock, expected, mismatch>>

Next ==
    \/ TalkerSend
    \/ \E kind \in app.strays : \E seq \in SeqsOf(kind) : StraySend(kind, seq)
    \/ \E i \in DOMAIN net : Deliver(i) \/ Lose(i)
    \/ Tick \/ Poll \/ NewPacket \/ Timeout

\* The kernel delivers what has arrived, the clock runs, and the loop goes on
\* while one of its descriptors is ready.
Fairness ==
    /\ WF_vars(\E i \in DOMAIN net : Deliver(i))
    /\ WF_vars(Tick) /\ WF_vars(Poll) /\ WF_vars(NewPacket) /\ WF_vars(Timeout)

Spec == Init /\ [][Next]_vars /\ Fairness

---------------------------------------------------------------------------
(* Properties *)

\* The variables have their types.
TypeOK ==
    /\ app \in Apps
    /\ now \in Nat /\ seqNum \in 0 .. SeqWrap - 1 /\ expected \in 0 .. SeqWrap - 1
    /\ sent \in 0 .. MaxSent /\ strays \in 0 .. MaxStrays
    /\ \A p \in Range(net) \cup Range(sock) :
          /\ p.kind \in {"data"} \cup app.strays
          /\ p.seq \in 0 .. SeqWrap - 1 /\ p.stamp \in 0 .. Wrap - 1
    /\ revents \subseteq {"socket", "timer"}
    /\ status \in {"run", "exit", "abort", "stuck"}
    /\ queue \in Seq(Sample) /\ played \in Seq(Sample)
    /\ timer \in Nat \cup {Off} /\ mismatch \in BOOLEAN /\ happened \subseteq app.faults

\* While the listener runs, the timer is armed for the head of the queue, and
\* off only while nothing is queued: schedule_sample arms it for the first
\* entry only, timeout() for the one that becomes first.
TimerServesHead ==
    status = "run" =>
        timer = IF queue = <<>> THEN Off ELSE Head(queue).at

\* The assert on the head of the queue in timeout() never fails, and its
\* read() never blocks, although poll() was asked before new_packet() ran.
NeverAborts == status \notin {"abort", "stuck"}

\* The time the listener rebuilds from 32 bits is the one the talker meant.
TimeRecovered ==
    \A x \in Range(queue) \cup Range(played) : x.at = x.due

\* Where the network loses nothing, keeps the order and no PDU of this stream
\* with another format comes in, no sequence number mismatch is logged.
SilentWithoutLoss ==
    (happened \cap {"lose", "reorder"} = {} /\ "badFormat" \notin app.strays) => ~mismatch

\* Every sample in the queue is presented, or the listener ends.
QueuedIsPresented ==
    \A i \in 1 .. MaxSent :
        (\E x \in Range(queue) : x.id = i)
            ~> (status # "run" \/ \E x \in Range(played) : x.id = i)

Ordered == "reorder" \notin app.faults

Playout == INSTANCE TimedPlayout WITH
    pending <- IF Ordered THEN Range(queue) ELSE {},
    played <- IF Ordered THEN played ELSE <<>>

\* The listener is a timed playout: nothing twice, nothing early, nothing
\* before a sample that was due earlier (of a network that reorders it claims
\* nothing).
ImplementsPlayout == Playout!Spec

\* The listener's loop is safe, part by part as above: its timer serves the head
\* of the queue, a stale poll() result does no harm, presentation times survive
\* the wrap of their 32 bits, and no mismatch is logged without a cause.
PlayoutInv == TypeOK /\ TimerServesHead /\ NeverAborts /\ TimeRecovered /\ SilentWithoutLoss
=============================================================================
