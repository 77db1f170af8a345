----------------------------- MODULE MediaClock -----------------------------
(***************************************************************************)
(* The CRF examples.  crf-talker sends the time of the media clock every   *)
(* PerCrf periods.  crf-listener keeps a queue of timestamps recovered     *)
(* from it and free-runs when the queue is empty; it runs once as AAF      *)
(* talker, which stamps its PDUs with the recovered clock, and once as AAF *)
(* listener, which compares the stamps of the AAF PDUs with its own        *)
(* recovered clock.  The sequence numbers are compared for a log message   *)
(* only and left out.                                                      *)
(*                                                                         *)
(* Period      MCLK_PERIOD = AAF_PERIOD                                    *)
(* PerCrf      MCLKLIST_TS_PER_CRF, timestamps made from a CRF PDU         *)
(* Mtt         rounded_mtt, a multiple of Period                           *)
(* Low, Full   2^32 and 2^64                                               *)
(* Start       the first CRF timestamp                                     *)
(* Tolerance   a quarter of the sample period                              *)
(* Worlds      networks, as records: strays, the PDUs others send; lossy,  *)
(*             whether PDUs are lost; crf and aaf, bounds of the CRF and   *)
(*             AAF PDUs sent                                               *)
(* MaxStrays   bound: PDUs of others                                       *)
(***************************************************************************)
EXTENDS Integers, Sequences

CONSTANTS Period, PerCrf, Mtt, Low, Full, Start, Tolerance, Worlds, MaxStrays

Programs == {"talker", "listener"}

\* A frame as the listening programs tell it apart: of the size of a CRF PDU
\* but nothing they accept, a CRF PDU, an AAF PDU.  no is its number in its
\* stream, which no program reads (history).
Pdu == [kind : {"other", "crf", "aaf"}, ts : Nat, no : Nat]

\* The validity checks want the stream IDs of the examples, under which nobody
\* else sends: others at best reach the size of a CRF PDU.
Foreign == {p \in Pdu : p.kind = "other"}

ASSUME ClockConstants ==
    /\ Period \in Nat \ {0} /\ PerCrf \in Nat \ {0, 1}
    /\ Mtt \in Nat /\ Mtt % Period = 0
    /\ Low \in Nat \ {0} /\ Full \in Nat \ {0} /\ Full % Low = 0
    /\ Start \in Nat \ {0} /\ Tolerance \in Nat
    /\ \A w \in Worlds :
          w.strays \subseteq Foreign /\ w.lossy \in BOOLEAN /\ w.crf \in Nat /\ w.aaf \in Nat
    /\ MaxStrays \in Nat

\* 2^64 nanoseconds are 584 years: the media clock does not come to their end.
ASSUME NoWrap ==
    \A w \in Worlds : Start + Mtt + (w.crf * PerCrf + w.aaf) * Period < Full

None == -1

VARIABLES
    world,      \* the network
    crfSent,    \* CRF PDUs sent
    strays,     \* strays sent
    net,        \* frames on their way to each program
    status,     \* of each program: "run", "exit" or "crash"
    queue,      \* of each program: mclk_timestamps
    prev,       \* of each program: prev_mclk_timestamp
    need,       \* of each program: need_mclk_lookup
    first,      \* talker: first_aaf_pdu
    expired,    \* talker: expirations of its timer not yet read
    burst,      \* talker: expirations left of those read
    looking,    \* listener: the stamp mclk_lookup is looking for, or None
    aaf,        \* stamps the talker has sent, in order, history
    verdicts,   \* what is_ts_aligned said so far, history
    lost        \* kinds of frames lost so far, history

clocks == <<queue, prev, need>>
talker == <<first, expired, burst>>
vars == <<world, crfSent, strays, net, status, clocks, talker, looking, aaf, verdicts, lost>>

Init ==
    /\ world \in Worlds /\ crfSent = 0 /\ strays = 0 /\ net = [m \in Programs |-> <<>>]
    /\ status = [m \in Programs |-> "run"]
    /\ queue = [m \in Programs |-> <<>>] /\ prev = [m \in Programs |-> 0]
    /\ need = [m \in Programs |-> TRUE]
    /\ first = TRUE /\ expired = 0 /\ burst = 0 /\ looking = None
    /\ aaf = <<>> /\ verdicts = {} /\ lost = {}

---------------------------------------------------------------------------
(* crf-talker and the network *)

\* calculate_crf_timestamp for the PDU's first timestamp, the only one a
\* listener uses; the clock source advances by TX_INTERVAL per PDU.
CrfTime(k) == Start + k * PerCrf * Period

CrfSend ==
    /\ crfSent < world.crf
    /\ net' = [m \in Programs |-> Append(net[m], [kind |-> "crf", ts |-> CrfTime(crfSent),
                                                  no |-> crfSent])]
    /\ crfSent' = crfSent + 1
    /\ UNCHANGED <<world, strays, status, clocks, talker, looking, aaf, verdicts, lost>>

StraySend(m, p) ==
    /\ strays < MaxStrays
    /\ net' = [net EXCEPT ![m] = Append(@, p)]
    /\ strays' = strays + 1
    /\ UNCHANGED <<world, crfSent, status, clocks, talker, looking, aaf, verdicts, lost>>

Lose(m) ==
    /\ world.lossy /\ net[m] # <<>>
    /\ lost' = lost \cup {Head(net[m]).kind}
    /\ net' = [net EXCEPT ![m] = Tail(@)]
    /\ UNCHANGED <<world, crfSent, strays, status, clocks, talker, looking, aaf, verdicts>>

---------------------------------------------------------------------------
(* The recovered clock *)

\* The talker stamps what will be presented a maximum transit time later.
Delay(m) == IF m = "talker" THEN Mtt ELSE 0

\* The timestamps until the next CRF PDU.
Entries(m, ts) == [i \in 1 .. PerCrf |-> (ts + (i - 1) * Period + Delay(m)) % Full]

\* The loop of recover_mclk: entries the clock has passed are not queued.
Enqueue(q, entries, passed) ==
    LET after[i \in 0 .. Len(entries)] ==
            IF i = 0 THEN q
            ELSE IF entries[i] <= passed THEN after[i - 1] ELSE Append(after[i - 1], entries[i])
    IN after[Len(entries)]

\* Mutant: timestamps the clock has passed are not dropped.
recover_mclk_KeepsPassed(m, ts) == queue[m] \o Entries(m, ts)

recover_mclk(m, ts) == Enqueue(queue[m], Entries(m, ts), prev[m])

\* Mutant: the clock stands still when the queue is empty.
NextStamp_Stands(m) == IF queue[m] = <<>> THEN prev[m] ELSE Head(queue[m])

\* get_next_mclk_timestamp
NextStamp(m) ==
    IF queue[m] = <<>> THEN (prev[m] + Period) % Full ELSE Head(queue[m])

get_next_mclk_timestamp(m) ==
    /\ prev' = [prev EXCEPT ![m] = NextStamp(m)]
    /\ queue' = [queue EXCEPT ![m] = IF @ = <<>> THEN @ ELSE Tail(@)]

\* It sets need_mclk_lookup when the clock free-runs.
NeedAfter(m) == need[m] \/ queue[m] = <<>>

---------------------------------------------------------------------------
(* AAF talker *)

\* aaf_talker_recv_pdu: the first frame of the right size starts the timer,
\* with a timestamp of the queue, which is not looked at for being empty.
TalkerRecv ==
    LET p == Head(net["talker"])
        q == IF p.kind = "crf" THEN recover_mclk("talker", p.ts) ELSE queue["talker"]
    IN /\ status["talker"] = "run" /\ burst = 0 /\ net["talker"] # <<>>
       /\ net' = [net EXCEPT !["talker"] = Tail(@)]
       /\ IF p.kind # "aaf" /\ first /\ q = <<>>
          THEN /\ status' = [status EXCEPT !["talker"] = "crash"]
               /\ UNCHANGED <<queue, first>>
          ELSE /\ queue' = [queue EXCEPT !["talker"] =
                               IF p.kind # "aaf" /\ first THEN Tail(q) ELSE q]
               /\ first' = (first /\ p.kind = "aaf")
               /\ UNCHANGED status
       /\ UNCHANGED <<world, crfSent, strays, prev, need, expired, burst, looking, aaf, verdicts, lost>>

\* The periodic timer expires.
TimerExpires ==
    /\ ~first
    /\ Len(aaf) + burst + expired < world.aaf
    /\ expired' = expired + 1
    /\ UNCHANGED <<world, crfSent, strays, net, status, clocks, first, burst, looking, aaf,
                   verdicts, lost>>

\* aaf_talker_tx_timeout: read() of the timer, then one PDU per expiration.
TxTimeout ==
    /\ status["talker"] = "run" /\ burst = 0 /\ expired > 0
    /\ burst' = expired /\ expired' = 0
    /\ UNCHANGED <<world, crfSent, strays, net, status, clocks, first, looking, aaf, verdicts, lost>>

TxSend ==
    /\ status["talker"] = "run" /\ burst > 0
    /\ get_next_mclk_timestamp("talker")
    /\ need' = [need EXCEPT !["talker"] = NeedAfter("talker")]
    /\ net' = [net EXCEPT !["listener"] =
                  Append(@, [kind |-> "aaf", ts |-> NextStamp("talker") % Low,
                             no |-> Len(aaf) + 1])]
    /\ aaf' = Append(aaf, NextStamp("talker"))
    /\ burst' = burst - 1
    /\ UNCHANGED <<world, crfSent, strays, status, first, expired, looking, verdicts, lost>>

---------------------------------------------------------------------------
(* AAF listener *)

\* is_ts_aligned: the 32-bit difference as a signed number.
is_ts_aligned(mclk, stamp) ==
    LET offset == (stamp - mclk) % Low
    IN offset <= Tolerance \/ Low - offset <= Tolerance

\* aaf_listener_recv_pdu takes the frame; the cases of what it is follow.
Arrived == Head(net["listener"])

ListenerRecv ==
    /\ status["listener"] = "run" /\ looking = None /\ net["listener"] # <<>>
    /\ net' = [net EXCEPT !["listener"] = Tail(@)]
    /\ UNCHANGED <<world, crfSent, strays, status, talker, aaf, lost>>

\* A CRF PDU, or a frame that is dropped.
ListenerCrf ==
    /\ ListenerRecv /\ Arrived.kind # "aaf"
    /\ queue' = IF Arrived.kind = "crf"
                THEN [queue EXCEPT !["listener"] = recover_mclk("listener", Arrived.ts)]
                ELSE queue
    /\ UNCHANGED <<prev, need, looking, verdicts>>

\* handle_aaf_pdu in step with the stream.
ListenerAaf ==
    /\ ListenerRecv /\ Arrived.kind = "aaf" /\ ~need["listener"]
    /\ get_next_mclk_timestamp("listener")
    /\ need' = [need EXCEPT !["listener"] = NeedAfter("listener")]
    /\ verdicts' = verdicts \cup {is_ts_aligned(NextStamp("listener"), Arrived.ts)}
    /\ UNCHANGED looking

\* handle_aaf_pdu out of step: mclk_lookup begins.
ListenerLook ==
    /\ ListenerRecv /\ Arrived.kind = "aaf" /\ need["listener"]
    /\ looking' = Arrived.ts
    /\ UNCHANGED <<clocks, verdicts>>

\* A turn of the loop of mclk_lookup; at its end need_mclk_lookup is cleared
\* even if the last turn set it.
LookupStep ==
    /\ status["listener"] = "run" /\ looking # None
    /\ get_next_mclk_timestamp("listener")
    /\ IF NextStamp("listener") % Low = looking
       THEN /\ looking' = None
            /\ need' = [need EXCEPT !["listener"] = FALSE]
            /\ verdicts' = verdicts \cup {is_ts_aligned(NextStamp("listener"), looking)}
       ELSE UNCHANGED <<looking, need, verdicts>>
    /\ UNCHANGED <<world, crfSent, strays, net, status, talker, aaf, lost>>

\* malloc or sendto fails: the program ends.
Fails(m) ==
    /\ status[m] = "run"
    /\ IF m = "talker" THEN burst > 0 \/ net[m] # <<>> ELSE looking = None /\ net[m] # <<>>
    /\ status' = [status EXCEPT ![m] = "exit"]
    /\ UNCHANGED <<world, crfSent, strays, net, clocks, talker, looking, aaf, verdicts, lost>>

Next ==
    \/ CrfSend
    \/ \E m \in Programs, p \in world.strays : StraySend(m, p)
    \/ \E m \in Programs : Lose(m) \/ Fails(m)
    \/ TalkerRecv \/ TimerExpires \/ TxTimeout \/ TxSend
    \/ ListenerCrf \/ ListenerAaf \/ ListenerLook \/ LookupStep

\* The programs go on with what they have begun.
Fairness == WF_vars(TxSend) /\ WF_vars(LookupStep)

Spec == Init /\ [][Next]_vars /\ Fairness

---------------------------------------------------------------------------
(* Properties *)

\* The variables have their types; timestamps have 64 bits, stamps 32.
TypeOK ==
    /\ world \in Worlds
    /\ crfSent \in 0 .. world.crf /\ strays \in 0 .. MaxStrays
    /\ net \in [Programs -> Seq(Pdu)]
    /\ status \in [Programs -> {"run", "exit", "crash"}]
    /\ queue \in [Programs -> Seq(0 .. Full - 1)] /\ prev \in [Programs -> 0 .. Full - 1]
    /\ need \in [Programs -> BOOLEAN]
    /\ first \in BOOLEAN /\ expired \in 0 .. world.aaf /\ burst \in 0 .. world.aaf
    /\ looking \in 0 .. Low - 1 \cup {None}
    /\ aaf \in Seq(0 .. Full - 1) /\ verdicts \subseteq BOOLEAN
    /\ lost \subseteq {"other", "crf", "aaf"}

\* While no CRF PDU is lost, however late they are, the AAF talker's stamps
\* are the media clock: one period apart, no period left out where the clock
\* free-ran and caught up with the CRF stream again (recover_mclk).
ClockContinues ==
    "crf" \notin lost => \A i \in DOMAIN aaf : aaf[i] = Start + Mtt + i * Period

\* Also with CRF PDUs lost the stamps go up in whole periods: recover_mclk
\* drops what the free-running clock has passed.
StampsIncrease ==
    \A i \in 2 .. Len(aaf) :
        aaf[i] > aaf[i - 1] /\ (aaf[i] - aaf[i - 1]) % Period = 0

\* While nothing is lost, the listener never says that the aligned AAF stream
\* is not aligned with the media clock (handle_aaf_pdu).
NoFalseVerdict == lost = {} => FALSE \notin verdicts

\* mclk_dequeue_ts is never called for an empty queue as long as only CRF PDUs
\* reach the AAF talker.  (Of other frames aaf_talker_recv_pdu does not see that
\* they were dropped.)
NeverDequeuesEmpty == strays = 0 => status["talker"] # "crash"

\* The AAF talker's recovered clock, part by part as above: it repeats and leaves
\* out no period, only moves forward, and takes no stamp from an empty queue.
ClockInv == TypeOK /\ ClockContinues /\ StampsIncrease /\ NeverDequeuesEmpty

\* While nothing is lost mclk_lookup ends, so every AAF PDU received is checked
\* for alignment.
LookupEnds == (looking # None) ~> (looking = None \/ lost # {})
=============================================================================
