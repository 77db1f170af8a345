# A TLA+ verification project for Open1722

Open1722 is a C library for IEEE 1722 (AVTP): header-only accessors for every
stream and ACF header, helpers that build and validate ACF messages, and example
programs (CAN bridge for Linux, Zephyr and the Linux kernel, AAF/CVF/CRF talkers
and listeners, VSS, hello-world).  This directory holds TLA+ models of it, the
TLC configurations that check them on small instances, and TLAPS proofs of the
results that hold for every instance.  Source paths below are relative to the
repository; `PROJECT.json` maps every definition to the lines it models.

## 1. Inventory

### The library

| Component | State | Operations | What makes it correct |
|---|---|---|---|
| Field access engine (`include/avtp/Utils.h`, `Byteorder.h`) | the octets of a PDU | `Avtp_GetField`, `Avtp_SetField` through a descriptor *(quadlet, offset, bits)* | reads exactly the wire bits the descriptor names; writes them and nothing else; same octets on hosts of either byte order; the callers see a record of independent fields |
| Stream headers (`CommonHeader.h`, `CommonStreamHeader.h`, `AlternativeHeader.h`, AAF, PCM, CVF, RVF, CRF, TSCF, NTSCF) | the header, in version 0 or 1 | `Init`, dispatching accessors, accessors pinned to a version, accessors of the common part, `IsValid` | the descriptor tables tile the header; the three families of accessors agree; identity, reserved bits and payload are left alone; the copy of the sequence number is kept |
| ACF and payload headers (17 formats under `acf/`, plus UDP, H.264, JPEG 2000, MJPEG) | the header | `Init` and accessors | as above |
| ACF messages (same files) | header fields, payload and padding in a buffer that is reused | `CreateAcfMessage`, `SetPayload`, `SetPayloadLength`, `GetPayloadLength`, `IsValid` | what `IsValid` accepts can be read without leaving the buffer; lengths round-trip; no stale octets are sent |
| VSS codec (`src/avtp/acf/custom`) | a message buffer | serialise and parse paths and values of about 25 types | every read is clamped to the declared length; parse inverts serialise |

The library keeps no state of its own; all the state is in the caller's buffer.
It is therefore not concurrent, and its hard cases are numeric (field and type
widths, wrap-around, underflow of lengths taken from the wire) and sequential
(long mixes of setters through different tables, reused buffers).

### The programs

| Component | State | Operations | Hard behaviour |
|---|---|---|---|
| CAN ↔ AVTP conversion (`examples/acf-can/acf-can-common.c`) | expected sequence numbers and frame array of the caller | `can_to_avtp`, `avtp_to_can` | early returns in the middle of a PDU with part of the array overwritten; two numbers of different width; resynchronisation |
| Linux bridge, talker, listener (`examples/acf-can/linux`) | batch, index and two counters per talker; frame array and two expected numbers per listener | read a frame, send a batch, receive a PDU, write a frame | two threads and a network: loss, duplication, reordering, damage, other senders; failing system calls; restarts |
| Zephyr bridge (`examples/acf-can/zephyr`) | the same, plus a `k_msgq` filled by the CAN interrupt | the same, with counting of expected numbers split differently | queue full; frames dropped |
| Kernel module (`examples/acf-can/linux-kernel-mod`) | per device: configuration, Ethernet device reference, sequence number; a global list of devices | `newlink`, `open`, `stop`, `dellink`, sysfs stores, transmit, packet handler | reference counts over up/down/delete; list used by two contexts; buffer ownership on error paths |
| AAF and CVF listeners (`examples/aaf`, `examples/cvf`, `examples/common`) | a queue of samples with presentation times, a timer | receive, present on timer | presentation time rebuilt from 32 bits; timer armed only for the head |
| CVF talker | a byte buffer with start codes | fill, cut NAL units, send | unsigned underflow, buffer full |
| CRF talker and listener | a queue of media clock timestamps, AAF sequence state | receive CRF, recover clock, send AAF | dequeue of an empty queue, lookup that must end |
| VSS, hello-world | a sequence number | send or receive one message | thin loops around the library; reused buffers |

Components interact in three ways: the programs call the library on a buffer they
own; a talker and a listener exchange PDUs over a network; and inside the bridge
two threads run side by side with no state in common except the configuration.

What is left out is listed in section 6.

## 2. Modules and how they correspond to the code

```
FieldRecord   <--implements--  AvtpField                            Utils.h, Byteorder.h
AvtpHeader    EXTENDS AvtpStreamLayout, AvtpAcfLayout, AvtpBits     all headers
AcfMessage                                                          acf/*.h
AvtpReceive   --INSTANCE-->    AcfMessage                           IsValid of the streams, acf-can-common.c
VssCodec                                                            acf/custom/Vss.c
CanTunnel     <--implements--  AcfCanBridge EXTENDS AcfCanPdu       examples/acf-can/linux
              +--implements--  ZephyrBridge                         examples/acf-can/zephyr
              +--implements--  AcfCanDevice                         examples/acf-can/linux-kernel-mod
TimedPlayout  <--implements--  AvtpPlayout                          examples/aaf, cvf, common
MediaClock                                                          examples/crf
NalBuffer                                                           examples/cvf/cvf-talker.c
```

Eight of them have a module of theorems that EXTENDS them: AcfMessageProof,
AvtpHeaderProof, AvtpReceiveProof, AcfCanBridgeProof, ZephyrBridgeProof,
AcfCanDeviceProof, AvtpPlayoutProof and MediaClockProof.

Each model `X` has a module `MCX` that gives its constants values for TLC.  A model
whose surroundings differ (a network with or without faults, an AAF or a CVF
listener, a pipe that fails) has a variable for them (`cfg`, `link`, `app`, `world`,
`pipe`) that is chosen in `Init` from a constant set and never changes; one run then
covers all the surroundings, and a property that needs a particular one says so.

**FieldRecord** is the abstract specification of the accessor layer: a record of
independent fields, each of which keeps the part of a written value it can hold.

**AvtpField** is the engine itself, loop by loop: `Chunk(d, k)` is iteration *k*
of the `while` loop, `Load32`/`Store32` the native access of a host of either
byte order, `Avtp_Bswap32` the swap, `Merge` the masking.  The same calls are made
on a little and a big endian host.  The octet width `ByteBits` is a constant,
because everything in the engine (32, 8, 24) is a multiple of it.

**AvtpBits** gives the two entry points at the level of wire bits, for headers of
real size with 64-bit fields: a memory is the set of the bits that are 1.
`GetReadsWireBits` and `ImplementsRecord` of AvtpField are what justify it.
**AvtpStreamLayout** and **AvtpAcfLayout** are the descriptor tables and the named
accessors of every header, with the descriptor each accessor really goes through
(a version-pinned accessor of a common field uses the common header's table, and
`SetSequenceNum` of CRF, TSCF and NTSCF writes two fields in version 1) and the C
type it converts its argument to.  **AvtpHeader** is a caller: `Init` on a dirty
buffer, then setters of any family in any order.  It keeps the record that
FieldRecord would be in (`rec`), to which `FieldsIndependent` compares the getters.
The accessors of the common header are those that `CommonStreamHeader.h` (or
`AlternativeHeader.h`, `AcfCommon.h`) really defines, with the table they go through in
each version (`CommonGetters`, `CommonSetters`, `CommonName`).  `TablesSound` says what
makes the tables of a format a layout: they tile the header, a setter writes inside its
field and clear of reserved bits and identity, getter and setter of a name cut at the
same place, the low bits of a sequence number have their place.  `HeaderInv` has it as a
conjunct, so the run checks it of every format and version.

**AcfMessage** is the arithmetic of message lengths with the widths of the C types
(9-bit quadlet count, 2-bit pad, `uint16_t` sums, `uint8_t` or `uint16_t` results).
A record per format holds header size, message type, how the payload length is
stored, the result type and the limits of `IsValid`.  A writer makes messages in a
buffer it reuses; a reader validates a message, whole or cut short, or a header
with any contents.

**AcfCanPdu** is `can_to_avtp` and `avtp_to_can` as operators.  The octets of an
ACF message are abstracted to whether it passes `IsValid` (AcfMessage is about
that); what a PDU does to the expected numbers, to the frame array and to the
result is kept for every early return.  **AcfCanBridge** is the two loops, one
action per system call: `ReadFrame`/`ReadFails`, `Send`/`SendFails`,
`Take`/`TakeStray`/`TakeCopy` (recv, conversion and counting are one action: the
listener thread owns all the state involved), `Write`/`WriteFails`, and the network
and the restarts as actions of the environment.  `cfg.app` selects the counting
condition of the bridge (`> 0`) or of the listener program (`>= 0`).  Frames carry
their position in the input as payload, so the properties can tell them apart.
**CanTunnel** is what a bridge promises: a lossy FIFO.

**AvtpReceive** replaces what AcfCanPdu abstracts to `ok` and `kind` by octet lengths:
`can_to_avtp` message by message (`can_to_avtp`, `prepare_acf_packet`,
`update_cf_length`, with its `uint16_t` sum), `IsValid` of the seven stream formats, and
the walk of `avtp_to_can` over the messages of a PDU, one action per message, with the lengths the headers declare, the octets the
sender put there and the octets that arrived as three separate numbers.  `at` remembers
where each message of an own PDU begins, so the reader meets a message only where one is.
It uses the operators of AcfMessage for each message.

**VssCodec** is all of `Vss.c`: getters return a value together with the offsets they
read, so that "stays inside" can be stated; setters are actions in the order in which a
caller needs them, in a buffer that held another message.  Octets have two bits and a
quadlet two octets, so 16-bit lengths reach from 0 to 15 and their limits are met.

**ZephyrBridge** is `main` with its wait for the interface (in the steps between which
the interface can change), the message queue the CAN driver fills, the talker thread and
the listener thread with the controller's mailboxes.  What frames and PDUs contain is
left to AcfCanPdu, whose code the Zephyr bridge shares.

**AcfCanDevice** is the kernel module.  Operations under the network core's lock are one
action each; a sysfs store is two (`StoreCheck`, `StoreWrite`), and the packet handler
looks at one list entry per action (`HandlerStart`, `HandlerWalk`, `HandlerDeliver`,
`HandlerDrop`), because neither takes that lock.  `Unplug` is an Ethernet device that goes
away once nobody holds a reference.  The tunnel it implements leads from one device to
another: `Arrivals` picks the frames of the one out of what the other received.

**AvtpPlayout** is the AAF and CVF talkers' time stamps and the listeners' poll loop:
`Poll` records what is ready, `NewPacket` and `Timeout` serve it, with the clock and the
network running between them.  Failing calls take the paths the code has for them.
**TimedPlayout** is what such a listener promises: nothing twice, early or out of order.

**MediaClock** is the CRF talker and `crf-listener.c` in both modes at once: the AAF
talker free-runs and catches up, the AAF listener looks its place up (one action per turn
of the loop in `mclk_lookup`) and gives verdicts.  `Enqueue` is the loop of `recover_mclk`
that drops the timestamps the clock has passed.  Frames carry their number in their
stream, which no program reads.  Other senders (`Foreign`) use other stream IDs, which is
what the programs' checks look at; and the media clock does not reach the end of 64-bit
nanoseconds, 584 years (`NoWrap`).

**NalBuffer** is the CVF talker's buffer: `Fill` reads what the pipe gives,
`start_code_position` is the skipping scan, `ProcessOk` sends one unit and moves the
rest.  Octets are 0, 1 or something else, which is all the code tells apart.

In every module that TLC mutates, `X_Something`, placed before `X`, is the form `X`
would have with a plausible bug; PROJECT.json says which property each one breaks.
They are used nowhere else.

## 3. Runs

Every run uses the configuration `MCX.cfg` of its module `MCX`, except
`acf_message_length`, which is MCAcfMessage with `MCAcfMessageLength.cfg`: the GBB
format alone.

| Run | Module | What it shows |
|---|---|---|
| `field` | AvtpField | For every way to cut a PDU of three quadlets into adjacent fields of up to two quadlets: the engine reads the wire bits, hosts of both byte orders write the same octets, and the getters implement FieldRecord. |
| `header` | AvtpHeader | All stream formats in both versions, the ACF and the payload headers: identity, reserved bits and payload survive any setters and the tables are sound (`HeaderInv`), the getters of all families agree, `sequence_num_lsb` stays a copy, and the whole is a record of independent fields. |
| `acf_message` | AcfMessage | Lengths of the 17 formats around every limit: `AcceptedIsReadable`, `RoundTrip`, `MadeIsAcceptedWhole`, `NoStaleOctets`. |
| `bridge` | AcfCanBridge | *Clean*: nothing happens to the stream (other senders are active), no false sequence alarms while all counters wrap, in every command line and both programs. *Lossy*: losses, damage, PDUs of other senders and failing sends and writes; CanTunnel is implemented and a PDU delivered whole or not at all. *Faulty*: duplication, reordering, failing reads and restarts; a gap is reported exactly when there is one. Nothing stale is ever written, and the listener always catches up with the complete batches. |
| `receive` | AvtpReceive | PDUs whole, cut, padded or of other senders, on an Ethernet link with classic CAN and a UDP link with CAN FD: nothing that was not received is read, own PDUs are accepted exactly when whole, all their messages are found, and the walk ends whatever lengths it meets. |
| `playout` | AvtpPlayout | AAF listener on both sides of the wrap of the 32-bit time, with failing calls; CVF listener behind a network that loses and reorders. The timer serves the head of the queue, a stale `poll` result does no harm, times are recovered, every queued sample is presented; refinement of TimedPlayout. |
| `clock` | MediaClock | Without faults, with losses, and with another sender: the recovered clock leaves out and repeats nothing, no aligned stream is called unaligned, lookups end. |
| `device` | AcfCanDevice | Up and down with stores and frames under way; the whole life of devices; two hosts that talk: the list is the set of devices that are up, references are held, a frame finds a device that stays up, frames are unchanged; refinement of CanTunnel. |
| `vss` | VssCodec | All kinds of values and paths, messages cut short and arbitrary octets; arrays of strings at the 16-bit limit, for callers with places for all or fewer of them; each of the 24 data types. |
| `nal` | NalBuffer | All byte-streams of up to 9 octets in all ways a pipe can cut them, and up to 7 octets with a failing call or a lone first octet. |
| `zephyr` | ZephyrBridge | Full queue and busy controller, without faults and with failing calls and losses: refinement of CanTunnel, no false alarm, every frame with room is forwarded once the interface is up. |
| `acf_message_length` | AcfMessage | The finding of section 4: a GBB message with 257 octets of payload is accepted, and its length read back as 1. |

### Bounds and why they are enough

* `field`: octets of one bit make a quadlet of 4 bits and the 64-bit limit two
  quadlets.  The engine treats octets only through multiplication by the octet
  width, and all relative positions of a field to the quadlet borders occur (one,
  two and three quadlets, touching a border or not).  Two writes per behaviour
  show the effect of one field on another that was written before.
* `header`: real positions and sizes.  The buffer is all zeros or all ones, a value
  is zero, one or a pattern wider than all but the 64-bit fields; since each bit is
  treated alone, what happens to a one and to a zero on a zero and on a one is
  covered.  Three writes per behaviour reach every pair of setters and a third after it.
* `acf_message`: payload lengths and buffer sizes on both sides of every constant
  of the code; received headers with every relation of length, padding and header
  size.  The theorems of section 5 remove these bounds.
* `bridge`: counters of 4 values and a version 0 field of 2 instead of 2^32 and 2^8,
  two slots instead of 15: everything wraps and overflows within a few PDUs, and
  the relation that matters (the field divides the counter) is kept.  `reads` and
  `MaxReads` bound the frames read, `NetSize` the talker's PDUs in flight (besides at
  most one of another sender), `MaxEpochs` the runs of the talker.  A failing read and a
  duplicated PDU happen at most once per behaviour.  *Clean* lets six PDUs
  through with `num = 1`, one and a half turns of the longest counter.
* `receive`: real header sizes.  Payloads, cuts (`Extra`) and foreign lengths are on both
  sides of the end of each header, message and limit, among them the 8 octets of the raw
  RVF header and the 11 bits of the NTSCF length; two messages per PDU.
* `playout`: the time has a low part of 4 values and the run passes its wrap from both
  sides; the sequence number wraps at 2; three samples queue up behind one another.
* `clock`: three CRF PDUs of three periods each, and nine AAF PDUs, so the queue runs dry
  and is caught up with; 32 bits become 16 values, so stamps wrap.
* `device`: two devices on one or on two Ethernet devices are enough for one to take the
  other's reference, for the list to change before and behind the handler, and for a
  frame of one to be mistaken for the other's.
* `vss`: a header and ten octets, room for an array of one 64-bit number: arrays that
  end inside, at and behind the declared length, paths of no, one and three octets,
  strings whose lengths add up to less, exactly and more than the limit of 15.  The
  third of its worlds has every data type, with values whose octets show width, sign
  and order.
* `nal`: a PDU holds 4 octets and the buffer 8, so a stream of 9 overflows it, units of 3
  and 4 are sent and one of 5 is too long.
* `zephyr`: batches of 2 from a queue of 3 for a controller of 2 mailboxes; ten frames
  wrap a sequence number of 3 values.

The models of the programs may stop because of these bounds, and callers of the
library may stop at any time; these runs do not check for deadlock.  `acf_message` and
`receive`, whose behaviours are unbounded, do.

### Fairness

* `bridge` (`FairSpec`): weak fairness of `Send`, `Take` and `Write`.  Both threads loop
  for ever without blocking on each other; `sendto` and `write` return; a datagram socket
  hands out what it has queued.  None of the CAN bus (`ReadFrame`): an incomplete batch
  waits for it, which is why `BatchesArrive` is about complete batches.
* `receive`: weak fairness of the steps of the walk, which is a loop without calls that
  block.
* `playout`: of `Deliver`, `Tick`, `Poll`, `NewPacket` and `Timeout`: the network delivers
  what it does not lose, time passes, and the loop goes on while a descriptor is ready.
* `clock`: of `TxSend` and `LookupStep`, loops that have begun and call nothing that blocks.
* `nal`: of `Next`: one thread, and a writer that ends its stream.
* `zephyr`: of `main`, the interface coming up, the event thread and the two threads, all
  of which Zephyr's scheduler runs when they are ready; none of the CAN bus.

## 4. Findings

**`GetPayloadLength` of the long formats is 8 bits wide** (`acf/Gbb.h:485`; run
`acf_message_length`).  `docs/api-design.md:332` calls it "the inverse: recover the
true payload length", assuming validation by `IsValid`.  The length field of a GBB
message holds payloads of up to 2028 octets and `IsValid` accepts them, but from 256
octets on the length is reported modulo 256.  The run is limited to GBB and to lengths
the field can hold (`FitsLengthField`), so that nothing but the result type can be the
cause.  ABB, MOST, CAN XL and CAN XL Brief have the same result type.

### Conditions of the properties

Where a property of a passing run carries a condition, the code does something else
outside of it.  These are the places; most of the behaviour is in the models, and the
condition keeps the claim to what the code does keep.

| Place (under `examples/` unless given) | What the code does | Condition |
|---|---|---|
| `acf-can/linux/acf-can-bridge.c:215` | a `read()` that fails (-1) counts as a frame: the PDU carries an old or uninitialised slot | `Orderly` in AcfCanBridge |
| `acf-can/acf-can-common.c:197` | the EFF flag is recomputed from the identifier: an extended frame with a small one becomes a standard frame | MCAcfCanBridge sends extended frames with large identifiers |
| `acf-can/acf-can-common.c:289` | the UDP number is adopted before the stream is identified | `NoFalseAlarm` is about the control format's number |
| `acf-can/acf-can-common.c:450` | a classic listener takes CAN FD lengths into classic frames | the links of MCAvtpReceive have talkers and listeners of one kind |
| `include/avtp/acf/Can.h:370`, and the other formats | a message of more than 2044 octets does not fit the 9-bit length: the header declares another length | `FitsLengthField` in `Expressible` and `TruePayloadLength` |
| `include/avtp/CommonStreamHeader.h:262` | the common header's setters leave `sequence_num_lsb` alone | `seqBy` in `LsbIsCopy` |
| `common/common.c:95` | a PDU handled after its presentation time is scheduled one wrap (4.3 s) later | `Latency <= MaxTransit` |
| `aaf/aaf-listener.c:205` | a PDU of the stream with another format advances the expected number | `SilentWithoutLoss` |
| `crf/crf-listener.c:599` | a frame that is no CRF PDU makes the AAF talker dequeue from an empty queue | `strays = 0` in `NeverDequeuesEmpty` |
| `crf/crf-listener.c:262` | the lookup for a stream that is not aligned never ends | `lost` in `LookupEnds` |
| `crf/crf-listener.c:492` | a lost CRF PDU makes the recovered clock leap | `lost` in `ClockContinues` |
| `acf-can/linux-kernel-mod/acfcanmain.c:245` | `dellink` after `stop` releases the Ethernet device a second time | `exists = created` in `EthDeviceHeld` |
| `acf-can/linux-kernel-mod/acfcanmain.c:176` | a list entry is removed under the handler that stands on it | `crashed` in AcfCanDevice: the walk ends there |
| `acf-can/linux-kernel-mod/acfcandevsysfs.h:101` | a store that passed its check writes after the device was set up | none: the properties hold all the same |
| `src/avtp/acf/custom/Vss.c:79` | before the length is set, getters see an empty message | `RoundTrip` begins when it is |
| `cvf/cvf-talker.c:172` | with one octet in the buffer the bound of the scan wraps | `pipe.first = 2` |
| `cvf/cvf-talker.c:162` | a `read()` that fails takes an octet off the buffer | `fails = 0` in `Regular`; `OnlyOmits` is what remains |
| `acf-can/zephyr/acf-can-bridge.c:140` | an interface that comes up between check and callback is waited for in vain | `Prompt` |

## 5. Proofs

`AcfMessageProof` proves the type invariant and the four safety invariants of
AcfMessage, for every table of formats that satisfies `FormatConstants` (headers of
4 to 24 whole quadlets, a result type of 8 or 16 bits, any limits), every 16-bit
payload length, every header and every buffer size (`MessageConstants`).

The invariants are not inductive: nothing in them relates the header to the payload
written, or the verdict of `IsValid` to what was validated.  `MessageInv` adds
`HeaderMatchesPayload` (length and padding fields are what `SetPayloadLength` computes
from `n`, the sensor fields give `n`, and payload plus zeroed padding is `clean`) and
`AcceptedIsValid`.  The arithmetic is in `PadFacts`, `QuadletFacts`, `SensorFacts` and
`RoundedUp`; `SetLengthFacts` says what `SetPayloadLength` leaves in the header, and
`MessageStep` has one step per action.  From `MessageInv` follow

* `TypeCorrectness`: the fields keep to their bits;
* `ReadersStayInside`: what `IsValid` accepts is read inside message and buffer;
* `PayloadLengthsRoundTrip`, `PaddingIsClean`, `WritersAndReadersAgree`.

`AcfCanBridgeProof` proves six properties of AcfCanBridge for every width of the
counters and of the version 0 field (`PduConstants`: the field's range divides the
counter's), every array size and command line, any traffic, any PDUs of other senders
and any combination of faults, without bounds on the number of PDUs in flight
(`BridgeConstants`).

* `BridgeTypes` (`TypeOK`) is inductive as it stands; the interesting case is that
  `avtp_to_can` never reports more frames than the array has slots (`RecoveredRange`).
* `GapDetection` (`GapsReported`) needs `NumbersInv`: the talker's counters are its
  place in the stream modulo their range; a PDU in the network carries the number of
  its place; and what the listener compares of its expected number is the place that is
  due, modulo the range of the field.  The last part has to survive that the expected
  number is an 8-bit one just after a mismatch and a 32-bit one that counts on from
  there otherwise (`MaskedPlace`, `MaskedNext`, resting on `ModMod` and `ModNext`).
* `SilentWithoutFaults` (`NoFalseAlarm`) needs `QuietInv` on top: as long as nothing has
  happened to the stream, the network holds exactly one PDU for each place from the one
  due to the last one sent, the next one received is the one due, and none of them is
  refused (`PackIsWhole`): a refused PDU is not counted, so the one after it would be
  reported.  `NumbersInv` and `QuietInv` were checked with TLC on the bounds of
  `bridge` before they were proved.

* `NoStaleFrames` (`NothingStale`) and `WholePdus` (`AllOrNothing`) need `OriginInv`:
  where the frames are at each stage.  The talker's slots below its index hold frames as
  they were read (`Source`), each message of a PDU in the network carries one of them,
  flags included (`Transit`), the listener's slots below the count it reported hold what
  the talker's conversion and its own make of one (`Arrived`), and so does everything on
  the far bus (`Written`), in whole multiples of a batch (`Lumps`).  The slots above the
  count may hold anything: that they are cleared before they are filled again is what
  makes `Arrived` inductive.
* `BridgeIsTunnel` (`ImplementsTunnel`) needs `LineInv`: where the network keeps the
  order, frames written, frames in the listener's slots, PDUs in the network from the
  oldest to the youngest, and the talker's batch form one increasing line of positions.

These three rest on one more assumption, `OneTalker`: what other senders put on the
network with the listener's own stream id is not a whole PDU of valid frames, which the
listener could not tell from the talker's.  It is evaluated on the strays of `bridge`.

`ZephyrBridgeProof` proves the two safety properties of ZephyrBridge for every queue
size, batch size, number of mailboxes and range of the sequence number.  The invariant is
`TypeOK` with `Stages` (what may be where before the threads exist), `Wire` (the PDUs
under way carry consecutive numbers that lead from the one the listener expects to the
one the talker sends next, unless a `gap` has happened) and `Order` (bus, queue, batch,
PDUs under way, frames in conversion, mailboxes: one increasing line).  From it follow
`AlarmHasCause` (`NoFalseAlarm`) and `BridgeIsTunnel` (`ImplementsTunnel`).

`AcfCanDeviceProof` proves `DevicesAreSafe` (`DeviceInv`) and `ActiveDeviceIsFound`
(`ActiveIsFound`) for any finite set of devices, any Ethernet devices, configurations and
frames that fit their identifiers (`DeviceConstants`).  `Life` orders newlink, up, down,
dellink and unload; `ListIsUp` makes the list the set of devices that are up; `Counted`
says that until the first dellink the references to an Ethernet device are as many as
the devices that are up on it (counted with the cardinality of `Users`), from which it
follows that none of them is freed; `Walking` says that a device which has been up and
matching since the handler began is still ahead of it in the list, because `list_add`
inserts at the front and `list_del` never moves the others; `Frames` relates what is
received, under way and in the handler to what was sent.  `DeviceIsTunnel`
(`ImplementsTunnel`) needs `LineInv` on top: a device that is only given one Ethernet
device has all its frames on one wire, where their numbers increase, behind the one in the
handler and all that were received.  `ArrivalsAppend` and `ArrivalsAre` are about the
recursive function of the refinement mapping: that it exists, what one more frame adds,
and that nothing is in it but frames of the sender.  The proof showed that the receiver
may change its Ethernet device: `OnePort` is asked of the sender alone.

`AvtpPlayoutProof` proves `PlayoutIsSafe` (`PlayoutInv`) and `ListenerIsPlayout`
(`ImplementsPlayout`) for every range of the 32-bit time and of the sequence number, all
start times, transit times and faults.  `TimerServesHead` and `NeverAborts` are not
inductive: a `poll` result may be older than the timer.  `Polled` says what a result still
means when it is served: a timer event in `revents` belongs to a timer that has expired
for the present head.  `Recovered` and `Flight` carry the 64-bit time of a sample, which
no variable of the listener has, along with its PDU, so that the 32-bit arithmetic of
`get_presentation_time` can be compared with it; `Taken`, `Lined` and `Numbered` are for
the refinement (each sample once, in the order of the queue) and the expected number.
It assumes `TransitAssumption`: a PDU takes no longer than the `max_transit_time` its
talker was started with, and that time is less than the 4.3 s which 32 bits can tell
apart.  For later PDUs `common.c` guesses the wrong high part (section 4).

`AvtpHeaderProof` proves the four invariants of AvtpHeader for any number of writes of any
values to a buffer of any contents, and for every table of formats that is `Sound`, i.e.
`TablesSound` of each format and version.  The hypothesis is about constants; it is a
conjunct of `HeaderInv`, so the run `header` establishes it for the tables of the
repository.  The theorems then say what the run's three writes of three values could not:
`HeaderStaysHeader` (`HeaderInv`), `FieldsAreIndependent` (`FieldsIndependent`),
`LsbFollows` (`LsbIsCopy`) and `AllViewsAgree` (`ViewsAgree`).  The invariant `HInv` is
the conjunction of the parts; the lemmas are about `SetBits` and `GetBits` (a write reads
back, cut to the field; bits outside stay) and about what each family of setters touches.

`AvtpReceiveProof` proves the three safety invariants of AvtpReceive for all four CAN
formats, all payload lengths of classic CAN and CAN FD, any number of messages whose
longest form fits the 11 bits of the NTSCF length (`ReceiveConstants`: 80 octets each, so
up to 25; the code's array has 15), any media payload, any header of other senders, any
cut or padding, and any size of the receive buffer.  The invariant says how octets and
declared lengths relate: `Packing` and `Made` for the stream header, `Chain` for the
messages (one behind the other, the last one ends the PDU), `Walking` for the loop of
`avtp_to_can` (it stands at the end of the last message it found), `Returned` for its
result.  The facts about `IsValid` that carry it are `ValidFacts` (what it looks at was
received, what it accepts lies in the buffer), `ValidIffWhole`, `MessageInside` and
`MadeFacts`.  From it follow `ReadersStayInBuffer` (`ReceiveInv`), `WholePduIsAccepted`
(`AcceptedIffWhole`) and `CanMessagesAreRecovered` (`MessagesRecovered`); among other
things the `uint16_t` sums of both functions never wrap on a PDU made here, and where
they wrap on another's the loop still stays inside what was received.

`MediaClockProof` proves `RecoveredClockIsSafe` (`ClockInv`) and `AlignmentIsNeverDenied`
(`NoFalseVerdict`) for every period, any number of timestamps per CRF PDU above one, every
transit time that is whole periods (`rounded_mtt`), every tolerance, start time and width
of the AAF stamps, and networks with and without losses and other senders
(`ClockConstants`, `NoWrap`).  Neither is inductive: no variable says where in the media
clock a program is.  Both programs put the marks of one grid into their queues, mark *n*
being *n* periods after the start, for the talker a transit time later (`Mark`).
`TalkerAt(r, j)` says of the talker that it has seen the CRF PDUs before *r* and stamps with
mark *j* or a later one next; `ListenerAt(r, j, a)` the same of the listener, which has
also received *a* AAF PDUs.  `Awaits` names the frames that are still on their way,
`Honest` what they say.  While no CRF PDU is lost the queue is exactly the `Run` of marks
from *j* to the next CRF PDU, and a clock that free-runs past the end of the queue stays on
the grid: the PDU that comes late only adds the marks not yet passed (`RecoverRun`).  With
losses only `Marks` remains, an increasing sequence on the grid, which is what
`StampsIncrease` needs.  The listener's verdict is then a comparison of two marks that
are a whole number of periods apart in `Low`-bit arithmetic (`MarkShift`,
`ModDifference`).

What the loop of `recover_mclk` leaves in the queue is the value of a recursive function of
the length of its input.  The induction over that length is carried out once, on sets in
place of predicates: a set that has 0, and with a number below *n* the next one, has all up
to *n* (`CountUp`, from `LeastNat`, which rests on the well-foundedness of `<`).  From it
follow that the recursive function exists and what it computes (`LoopRuns`, `EnqueueType`,
`EnqueueRest`).  AcfCanDeviceProof treats `Arrivals` in the same way.

All inductive invariants were checked with TLC on the bounds of the runs before they
were proved.

Only model-checked:

* the liveness properties `BatchesArrive`, `WalkEnds`, `QueuedIsPresented`, `LookupEnds`,
  `StreamIsSent` and `AllForwarded` (liveness and `ENABLED` are out of the prover's reach);
* AvtpField with its refinement of FieldRecord: the engine is arithmetic with powers of two
  and sums over octets, for which the provers have no theory.  AvtpBits, which the proofs
  about headers use in its place, is therefore justified by the run `field` alone;
* VssCodec and NalBuffer: scans and copies over octets, written with recursive functions and
  the folds of the community modules.  What each of them computes would need an induction
  of its own in the way of `CountUp`; that has not been done;
* that the tables of the repository are sound: finite data, which TLC covers completely.

## 6. Plan

All components with protocol behaviour have a model, and the safety properties of all but
the three octet-level models are theorems.  What is left, in order of importance:

1. NalBuffer: `ScanFindsFirst` and that a regular pipe never leads astray, with the scan
   treated like the loop of `recover_mclk`; then that what is sent is a prefix of the units.
2. Facts about one chunk of AvtpField.
3. A composition of AcfCanBridge with AvtpReceive, in which `ok` and `kind` are computed.

### Not modelled

* `VssBrief.c`: a descriptor table, `Init`, `GetField` and `SetField` and nothing else; the
  kind of code AvtpHeader checks, in a table of its own.
* VSS and hello-world programs: one loop each around calls that VssCodec, AcfMessage and
  AvtpReceive model; no state but a sequence number nobody compares.  (The hello-world
  listener does not look at the number of octets received, `hello-world-listener.c:120`,
  and compares the length of the whole message with the talker's limit for the text, `:157`.)
* `dev_queue_xmit` in the kernel module frees a buffer on failure that it no longer owns
  (`1722ethernet.c:172`): ownership of socket buffers is the kernel's, not in the model; a
  frame that is not transmitted is one that is lost.
* `ethif_show` and the other attributes that only format; `ndo_change_mtu`.
* `InlineExports.c` (linkage only), the eBPF and field access benchmarks, the board design
  files, command line parsing, socket set-up and logging.
