------------------------------ MODULE NalBuffer ------------------------------
(***************************************************************************)
(* The buffer of the CVF talker (examples/cvf/cvf-talker.c): an H.264      *)
(* byte-stream is read from standard input in pieces of whatever size the  *)
(* pipe gives, cut at the start codes 00 00 01, and every NAL unit is sent *)
(* in one PDU.                                                             *)
(*                                                                         *)
(* An octet is one of the three classes the code tells apart: 0, 1, and    *)
(* Other (any value above one).  The array buffer[] is a sequence of its   *)
(* first buffer_level octets.  A scan that leaves these octets stops in    *)
(* pc = "stray": from there the program reads whatever lies behind, and    *)
(* nothing is claimed of what it does next.                                *)
(***************************************************************************)
EXTENDS Integers, Sequences, SequencesExt, FiniteSetsExt

CONSTANTS
    DataLen,      \* DATA_LEN: the longest NAL unit that fits into a PDU
    HeaderLen,    \* AVTP_FULL_HEADER_LEN
    Pipes         \* how standard input may behave: records of
                  \*   first  the least number of octets the first read gives
                  \*   fails  bound: the number of failing reads and sends
                  \*   most   bound: the longest byte-stream

ASSUME NalAssumption ==
    /\ DataLen \in Nat \ {0} /\ HeaderLen \in Nat
    /\ Pipes \subseteq [first : {1, 2}, fails : Nat, most : Nat]

Other == 2
Octet == {0, 1, Other}
Streams(p) == UNION {[1 .. n -> Octet] : n \in {0} \cup p.first .. p.most}

\* sizeof(buffer)
Capacity == 2 * (HeaderLen + DataLen)

VARIABLES
    pipe,      \* how standard input behaves (it does not change)
    stream,    \* the whole input (it does not change)
    fed,       \* how many octets of it were read
    buffer,    \* the first buffer_level octets of buffer[]
    end,       \* main's flag: read returned 0
    sent,      \* the NAL units sent so far
    fails,     \* how many reads and sends failed
    pc         \* "fill", "process", "done", "error", "stray"

given == <<pipe, stream>>
vars == <<given, fed, buffer, end, sent, fails, pc>>

Init ==
    /\ pipe \in Pipes /\ stream \in Streams(pipe)
    /\ fed = 0 /\ buffer = << >> /\ end = FALSE /\ sent = << >> /\ fails = 0
    /\ pc = "fill"

-----------------------------------------------------------------------------
(* fill_buffer: a read gives at least one octet while the writer has not   *)
(* closed the pipe and there is room; zero otherwise, also for no room.    *)
Least == IF fed = 0 THEN pipe.first ELSE 1

\* What one call of fill_buffer may give: the pipe decides.
Pieces ==
    LET most == Min({Len(stream) - fed, Capacity - Len(buffer)})
    IN  IF most = 0 THEN {0} ELSE Min({Least, most}) .. most

\* main takes a read of nothing for the end of the input.
AtEnd(n) == n = 0

Fill ==
    /\ pc = "fill"
    /\ \E n \in Pieces :
          /\ buffer' = buffer \o SubSeq(stream, fed + 1, fed + n)
          /\ fed' = fed + n
          /\ end' = AtEnd(n)
    /\ pc' = "process"
    /\ UNCHANGED <<given, sent, fails>>

(* A failing read is reported and its -1 added to buffer_level all the     *)
(* same.  For an empty buffer buffer_level becomes SIZE_MAX.               *)
FillFails ==
    /\ pc = "fill" /\ fails < pipe.fails
    /\ fails' = fails + 1
    /\ IF buffer = << >> THEN pc' = "stray" /\ UNCHANGED buffer
                         ELSE pc' = "process" /\ buffer' = Front(buffer)
    /\ end' = FALSE
    /\ UNCHANGED <<given, fed, sent>>

-----------------------------------------------------------------------------
(* start_code_position: offsets count from 0; NotFound is -1.              *)
NotFound == -1

At(i) == buffer[i + 1]

\* Mutant: a step too far when the third octet is 0.
NextOffset_Two(o) == IF At(o + 2) = 0 THEN o + 2 ELSE o + 3

\* An earlier start code ends in 1, so nothing can start inside the three.
NextOffset(o) == IF At(o + 2) = 0 THEN o + 1 ELSE o + 3

IsCode(o) == At(o) = 0 /\ At(o + 1) = 0 /\ At(o + 2) = 1

start_code_position(offset) ==
    LET scan[o \in 0 .. Len(buffer) + 2] ==
            IF o >= Len(buffer) - 2 THEN NotFound
            ELSE IF IsCode(o) THEN o ELSE scan[NextOffset(o)]
    IN  scan[offset]

\* The bound buffer_level - 2 is unsigned: below two it is no bound.
Wraps == Len(buffer) < 2

-----------------------------------------------------------------------------
(* process_nal followed by sendto: one turn of main's inner loop.          *)
\* Leaving the inner loop: to the next read, or out after the last one.
Leave == pc' = (IF end THEN "done" ELSE "fill")

UnitStart == start_code_position(0)

\* Mutant: process_last is ignored.
UnitEnd_NeverLast == start_code_position(UnitStart + 1)

UnitEnd ==
    LET next == start_code_position(UnitStart + 1)
    IN  IF next = NotFound /\ end THEN Len(buffer) ELSE next

Empty ==
    /\ pc = "process" /\ buffer = << >>
    /\ Leave
    /\ UNCHANGED <<given, fed, buffer, end, sent, fails>>

\* The scan is entered with one octet: it does not stop before SIZE_MAX - 1.
Overruns ==
    /\ pc = "process" /\ buffer # << >> /\ Wraps
    /\ pc' = "stray"
    /\ UNCHANGED <<given, fed, buffer, end, sent, fails>>

ProcessNone ==
    /\ pc = "process" /\ ~Wraps
    /\ UnitStart = NotFound \/ UnitEnd = NotFound
    /\ Leave
    /\ UNCHANGED <<given, fed, buffer, end, sent, fails>>

\* What stays in the buffer after the unit that ends at e: the memmove.
Remaining(e) == SubSeq(buffer, e + 1, Len(buffer))

Oversize(len) == len > DataLen

ProcessOk ==
    /\ pc = "process" /\ ~Wraps
    /\ UnitStart # NotFound /\ UnitEnd # NotFound
    /\ ~Oversize(UnitEnd - UnitStart)
    /\ sent' = Append(sent, SubSeq(buffer, UnitStart + 1, UnitEnd))
    /\ buffer' = Remaining(UnitEnd)
    /\ UNCHANGED <<given, fed, end, fails, pc>>

ProcessError ==
    /\ pc = "process" /\ ~Wraps
    /\ UnitStart # NotFound /\ UnitEnd # NotFound
    /\ Oversize(UnitEnd - UnitStart)
    /\ pc' = "error"
    /\ UNCHANGED <<given, fed, buffer, end, sent, fails>>

\* The clock (in prepare_packet) or the socket fails: main gives up.
SendFails ==
    /\ pc = "process" /\ ~Wraps /\ fails < pipe.fails
    /\ UnitStart # NotFound /\ UnitEnd # NotFound
    /\ ~Oversize(UnitEnd - UnitStart)
    /\ fails' = fails + 1
    /\ pc' = "error"
    /\ UNCHANGED <<given, fed, buffer, end, sent>>

Next ==
    \/ Fill
    \/ FillFails
    \/ Empty
    \/ Overruns
    \/ ProcessNone
    \/ ProcessOk
    \/ ProcessError
    \/ SendFails

(* One thread; the writer of the pipe ends its stream.                     *)
Spec == Init /\ [][Next]_vars /\ WF_vars(Next)

-----------------------------------------------------------------------------
(* The byte-stream format: what the units of the input are.                *)
Codes(s) == {i \in 1 .. Len(s) - 2 : s[i] = 0 /\ s[i + 1] = 0 /\ s[i + 2] = 1}

Units(s) ==
    LET starts == SetToSortSeq(Codes(s), <)
        stop(k) == IF k = Len(starts) THEN Len(s) ELSE starts[k + 1] - 1
    IN  [k \in 1 .. Len(starts) |-> SubSeq(s, starts[k], stop(k))]

\* What stands before the first unit leaves room for one unit and the code
\* that ends it.
Junk(s) == IF Codes(s) = {} THEN 0 ELSE Min(Codes(s)) - 1
Framed(s) == Junk(s) + DataLen + 3 <= Capacity

\* And every unit fits into a PDU.
Sendable(s) == Framed(s) /\ \A k \in DOMAIN Units(s) : Len(Units(s)[k]) <= DataLen

\* The variables have their types, the buffer and the units their limits.
TypeOK ==
    /\ pipe \in Pipes /\ stream \in Seq(Octet) /\ fed \in 0 .. Len(stream)
    /\ buffer \in Seq(Octet) /\ Len(buffer) <= Capacity
    /\ end \in BOOLEAN /\ fails \in 0 .. pipe.fails
    /\ sent \in Seq(Seq(Octet)) /\ \A k \in DOMAIN sent : Len(sent[k]) <= DataLen
    /\ pc \in {"fill", "process", "done", "error", "stray"}

(* The skipping scan finds exactly the first start code at or after its    *)
(* offset, over every content the buffer can have (start_code_position).   *)
ScanFindsFirst ==
    ~Wraps => \A o \in 0 .. Len(buffer) - 1 :
        start_code_position(o) =
            LET codes == {i \in Codes(buffer) : i > o}
            IN  IF codes = {} THEN NotFound ELSE Min(codes) - 1

\* s is t with some elements left out.
Omits(s, t) ==
    FoldLeft(LAMBDA k, x : IF k < Len(s) /\ s[k + 1] = x THEN k + 1 ELSE k, 0, t)
        = Len(s)

(* Reads that fail can only take octets away: what is sent in all is the   *)
(* input with some octets left out, none twice and none reordered.         *)
OnlyOmits == Omits(FlattenSeq(sent), SubSeq(stream, 1, fed))

\* No call has failed, and the pipe never gave a lone first octet.
Regular == pipe.first = 2 /\ fails = 0

(* However the pipe cuts the input, the scan finds what it looks for and   *)
(* stays among the octets that were read; what was sent is the first units *)
(* of the byte-stream, each whole, once and in order, and a unit that is   *)
(* too long is never sent in part (process_nal, memmove, the read of zero  *)
(* octets into a full buffer).  After a read that failed, octets may be    *)
(* missing, and nothing else changes.                                      *)
NalInv ==
    /\ TypeOK /\ ScanFindsFirst /\ OnlyOmits
    /\ Regular => pc # "stray"
    /\ Regular /\ Framed(stream) => IsPrefix(sent, Units(stream))

(* The talker ends once its input does: a full buffer without a complete   *)
(* unit is not read into for ever.  A byte-stream whose units fit into a   *)
(* PDU is then sent to its last unit (main, the process_last path of       *)
(* process_nal).                                                           *)
StreamIsSent ==
    /\ <>(pc \in {"done", "error", "stray"})
    /\ pipe.first = 2 /\ pipe.fails = 0 /\ Sendable(stream) =>
          <>(pc = "done" /\ sent = Units(stream))
=============================================================================
