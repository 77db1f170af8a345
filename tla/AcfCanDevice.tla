---------------------------- MODULE AcfCanDevice ----------------------------
(***************************************************************************)
(* The Linux kernel module of examples/acf-can/linux-kernel-mod: virtual   *)
(* CAN devices whose frames travel over an Ethernet device.  A device is   *)
(* created, configured through sysfs, set up and down, and deleted; while  *)
(* it is up it holds a reference to its Ethernet device and is on the list *)
(* that the packet handler walks for every frame that comes in.            *)
(*                                                                         *)
(* The operations of the network core (open, stop, newlink, dellink) run   *)
(* under its lock, one at a time.  The sysfs files and the packet handler  *)
(* do not take that lock: a store checks that the device is down in one    *)
(* step and writes in a later one, and the handler looks at one list entry *)
(* per step.  ndo_start_xmit runs under the transmit lock of the device.   *)
(*                                                                         *)
(* Devs          CAN devices                                               *)
(* Eths, Peer    Ethernet devices, and the other end of each one's cable   *)
(* Worlds        what is around the devices, as records:                   *)
(*                 settings  for each device the configurations it may be  *)
(*                           given, [eth, tx, rx]: `eth' may name no       *)
(*                           device; tx and rx stand for stream and bus    *)
(*                 traffic   CAN frames that users send                    *)
(*                 allowed   operations besides up, down and store         *)
(*                 sent      bound: frames sent                            *)
(* Default       the configuration of a new device                         *)
(* SffMod, EffMod   2^11 and 2^29                                          *)
(* Ecu1, Ecu2    the two devices of the Readme's example                   *)
(***************************************************************************)
EXTENDS Integers, Sequences, FiniteSets, SequencesExt

CONSTANTS Devs, Eths, Peer, Worlds, Default, SffMod, EffMod, Ecu1, Ecu2

Null == "null"
End == "end"

ASSUME DeviceConstants ==
    /\ IsFiniteSet(Devs) /\ {Null, End} \cap (Devs \cup Eths) = {}
    /\ Peer \in [Eths -> Eths] /\ Ecu1 \in Devs /\ Ecu2 \in Devs
    /\ SffMod \in Nat \ {0} /\ EffMod \in Nat \ {0}
    /\ \A w \in Worlds :
          /\ DOMAIN w.settings = Devs /\ \A d \in Devs : Default \in w.settings[d]
          /\ \A f \in w.traffic :
                /\ f \in [id : Nat, eff : BOOLEAN, rtr : BOOLEAN,
                          fd : BOOLEAN, brs : BOOLEAN, esi : BOOLEAN]
                /\ f.id < IF f.eff THEN EffMod ELSE SffMod
                /\ f.brs \/ f.esi => f.fd      \* flags of a CAN FD frame
          /\ w.allowed \subseteq {"newlink", "delete", "unload", "overlap", "unplug", "lose"}
          /\ w.sent \in Nat

VARIABLES
    world,
    loaded,     \* the module is in the kernel
    created,    \* devices created so far, history
    exists,     \* devices that are registered
    up,         \* devices that are running
    cfg,        \* ethif, tx_streamid, rx_streamid (with canbusId) of each device
    ethDev,     \* eth_netdev of each device, or Null
    list,       \* acfcaninterface_list
    refs,       \* references to each Ethernet device that drivers hold
    alive,      \* Ethernet devices that have not been freed
    storing,    \* sysfs stores past their check: [dev, val]
    wire,       \* frames on their way to each Ethernet device
    walk,       \* the packet handler: the frame, the Ethernet device it came in
                \* on, the list entry it looks at, the match, and (history)
                \* the matching devices that have been up since it began
    crashed,    \* the handler followed a list entry after its list_del
    missed,     \* a frame was dropped although walk.stable was not empty, history
    sent,       \* frames sent: [from, no, frame], history
    received    \* frames handed to the CAN core: [dev, from, no, frame], history

module == <<world, loaded, created>>
config == <<exists, up, cfg, ethDev, list, refs>>
traffic == <<wire, crashed, missed, sent, received>>
vars == <<module, config, alive, storing, walk, traffic>>

NoPdu == [from |-> Null, no |-> 0, frame |-> Null, stream |-> Null]
Idle == [pos |-> Null, pdu |-> NoPdu, eth |-> Null, found |-> Null, stable |-> {}]

Init ==
    /\ world \in Worlds /\ loaded = TRUE
    /\ exists = (IF "newlink" \in world.allowed THEN {} ELSE Devs) /\ created = exists
    /\ up = {} /\ cfg = [d \in Devs |-> Default] /\ ethDev = [d \in Devs |-> Null]
    /\ list = <<>> /\ refs = [e \in Eths |-> 0] /\ alive = Eths
    /\ storing = {} /\ wire = [e \in Eths |-> <<>>] /\ walk = Idle
    /\ crashed = FALSE /\ missed = FALSE
    /\ sent = <<>> /\ received = <<>>

---------------------------------------------------------------------------
(* Life of a device *)

\* Devices that leave the list are no longer owed the frame in the handler.
Leave(D) == walk' = [walk EXCEPT !.stable = @ \ D]

\* acfcan_setup and acfcan_newlink.  Bound: each member of Devs is created
\* once; a name that is used again is another member.
Newlink(d) ==
    /\ "newlink" \in world.allowed /\ loaded /\ d \notin created
    /\ exists' = exists \cup {d}
    /\ created' = created \cup {d}
    /\ cfg' = [cfg EXCEPT ![d] = Default]
    /\ ethDev' = [ethDev EXCEPT ![d] = Null]
    /\ UNCHANGED <<world, loaded, up, list, refs, alive, storing, walk, traffic>>

\* Mutant: the lookup takes no reference.
Up_NoReference(d) ==
    /\ d \in exists \ up
    /\ "overlap" \in world.allowed \/ \A s \in storing : s.dev # d
    /\ cfg[d].eth \in alive
    /\ ethDev' = [ethDev EXCEPT ![d] = cfg[d].eth]
    /\ list' = <<d>> \o list
    /\ up' = up \cup {d}
    /\ UNCHANGED <<module, exists, cfg, refs, alive, storing, walk, traffic>>

\* acfcan_up: the configured Ethernet device is looked up and referenced.
Up(d) ==
    /\ d \in exists \ up
    /\ "overlap" \in world.allowed \/ \A s \in storing : s.dev # d
    /\ cfg[d].eth \in alive
    /\ refs' = [refs EXCEPT ![cfg[d].eth] = @ + 1]
    /\ ethDev' = [ethDev EXCEPT ![d] = cfg[d].eth]
    /\ list' = <<d>> \o list
    /\ up' = up \cup {d}
    /\ UNCHANGED <<module, exists, cfg, alive, storing, walk, traffic>>

Entry(d) == CHOOSE k \in DOMAIN list : list[k] = d

list_del(d) == IF d \in Range(list) THEN RemoveAt(list, Entry(d)) ELSE list

\* acfcan_down: the reference is given back; eth_netdev stays.
Down(d) ==
    /\ d \in up
    /\ refs' = [refs EXCEPT ![ethDev[d]] = @ - 1]
    /\ list' = list_del(d)
    /\ up' = up \ {d}
    /\ Leave({d})
    /\ UNCHANGED <<module, exists, cfg, ethDev, alive, storing, traffic>>

\* The devices of D whose eth_netdev is e.
Users(D, e) == {d \in D : ethDev[d] = e}

\* acfcan_remove for the devices D gives a reference back if eth_netdev is set,
\* and unregister_netdevice stops a device that is up, which does so again and
\* takes it off the list.
acfcan_remove(D, rest) ==
    /\ \A s \in storing : s.dev \notin D    \* removing the files waits for stores
    /\ refs' = [e \in Eths |-> refs[e] - Cardinality(Users(D, e)) - Cardinality(Users(D \cap up, e))]
    /\ list' = rest
    /\ up' = up \ D /\ exists' = exists \ D
    /\ Leave(D)
    /\ UNCHANGED <<cfg, ethDev, alive, storing, traffic>>

Dellink(d) ==
    /\ "delete" \in world.allowed /\ d \in exists
    /\ acfcan_remove({d}, list_del(d))
    /\ UNCHANGED module

\* cleanup_acfcan: dev_remove_pack waits for the handler, then every device
\* is deleted.
Unload ==
    /\ "unload" \in world.allowed /\ loaded /\ walk = Idle
    /\ acfcan_remove(exists, <<>>)
    /\ loaded' = FALSE /\ UNCHANGED <<world, created>>

---------------------------------------------------------------------------
(* sysfs *)

\* A store: NOCHANGE_IF_UP, then, later, the write.
StoreCheck(d, val) ==
    /\ d \in exists \ up
    /\ \A s \in storing : s.dev # d
    /\ storing' = storing \cup {[dev |-> d, val |-> val]}
    /\ UNCHANGED <<module, config, alive, walk, traffic>>

StoreWrite(s) ==
    /\ storing' = storing \ {s}
    /\ cfg' = [cfg EXCEPT ![s.dev] = s.val]
    /\ Leave({s.dev})
    /\ UNCHANGED <<module, exists, up, ethDev, list, refs, alive, traffic>>

---------------------------------------------------------------------------
(* Ethernet devices, outside this module *)

\* An Ethernet device is removed; the core waits until nobody refers to it.
Unplug(e) ==
    /\ "unplug" \in world.allowed /\ e \in alive /\ refs[e] = 0
    /\ alive' = alive \ {e}
    /\ wire' = [wire EXCEPT ![e] = <<>>]
    /\ UNCHANGED <<module, config, storing, walk, crashed, missed, sent, received>>

\* A frame is lost, or fails one of the handler's checks of its headers.
Lose(e) ==
    /\ "lose" \in world.allowed /\ wire[e] # <<>>
    /\ wire' = [wire EXCEPT ![e] = Tail(@)]
    /\ UNCHANGED <<module, config, alive, storing, walk, crashed, missed, sent, received>>

---------------------------------------------------------------------------
(* Frames *)

\* prepare_can_header.  The code copies CANFD_FDF from the flags; can_send of the
\* kernels that have netdev_get_by_name sets it in every CAN FD frame.
Encode(f) ==
    [id |-> IF f.eff THEN f.id % EffMod ELSE f.id % SffMod, eff |-> f.eff, rtr |-> f.rtr,
     fdf |-> f.fd, brs |-> f.fd /\ f.brs, esi |-> f.fd /\ f.esi]

\* The frame the handler makes of it.
Decode(c) ==
    [id |-> c.id, eff |-> c.eff, rtr |-> c.rtr,
     fd |-> c.fdf, brs |-> c.fdf /\ c.brs, esi |-> c.fdf /\ c.esi]

SentBy(d) == {i \in DOMAIN sent : sent[i].from = d}

\* acfcan_tx and forward_can_frame, with dev_queue_xmit succeeding.
Transmit(d, f) ==
    /\ d \in up /\ Len(sent) < world.sent
    /\ LET no == Cardinality(SentBy(d)) + 1
           pdu == [from |-> d, no |-> no, frame |-> Encode(f), stream |-> cfg[d].tx]
           far == Peer[ethDev[d]]
       IN /\ sent' = Append(sent, [from |-> d, no |-> no, frame |-> f])
          /\ wire' = IF far \in alive THEN [wire EXCEPT ![far] = Append(@, pdu)] ELSE wire
    /\ UNCHANGED <<module, config, alive, storing, walk, crashed, missed, received>>

Matches(d, pdu, e) == cfg[d].rx = pdu.stream /\ cfg[d].eth = e

\* ieee1722_packet_handdler takes a frame and begins at the head of the list.
HandlerStart(e) ==
    /\ loaded /\ walk = Idle /\ wire[e] # <<>>
    /\ wire' = [wire EXCEPT ![e] = Tail(@)]
    /\ walk' = [pos |-> IF list = <<>> THEN End ELSE Head(list), pdu |-> Head(wire[e]),
                eth |-> e, found |-> Null,
                stable |-> {d \in Range(list) : Matches(d, Head(wire[e]), e)}]
    /\ UNCHANGED <<module, config, alive, storing, crashed, missed, sent, received>>

\* Mutant: the walk ends before the last entry.
Successor_Early(d) ==
    LET i == Entry(d)
    IN IF i + 1 >= Len(list) THEN End ELSE list[i + 1]

Successor(d) ==
    LET i == Entry(d)
    IN IF i = Len(list) THEN End ELSE list[i + 1]

\* One turn of list_for_each; the next pointer of an entry that has been
\* deleted is poison.
HandlerWalk ==
    /\ walk.pos \in Devs /\ walk.found = Null /\ ~crashed
    /\ IF Matches(walk.pos, walk.pdu, walk.eth)
       THEN walk' = [walk EXCEPT !.found = walk.pos] /\ UNCHANGED crashed
       ELSE IF walk.pos \in Range(list)
       THEN walk' = [walk EXCEPT !.pos = Successor(walk.pos)] /\ UNCHANGED crashed
       ELSE crashed' = TRUE /\ UNCHANGED walk
    /\ UNCHANGED <<module, config, alive, storing, wire, missed, sent, received>>

\* Mutant: the frame is handed over by the transmit path, which forwards it.
HandlerDeliver_Loops ==
    LET d == walk.found
    IN /\ d # Null
       /\ received' = Append(received, [dev |-> d, from |-> walk.pdu.from,
                                        no |-> walk.pdu.no, frame |-> Decode(walk.pdu.frame)])
       /\ wire' = [wire EXCEPT ![Peer[ethDev[d]]] =
                      Append(@, [walk.pdu EXCEPT !.stream = cfg[d].tx])]
       /\ walk' = Idle
       /\ UNCHANGED <<module, config, alive, storing, crashed, missed, sent>>

\* The match gets the frame.
HandlerDeliver ==
    /\ walk.found # Null
    /\ received' = Append(received, [dev |-> walk.found, from |-> walk.pdu.from,
                                     no |-> walk.pdu.no, frame |-> Decode(walk.pdu.frame)])
    /\ walk' = Idle
    /\ UNCHANGED <<module, config, alive, storing, wire, crashed, missed, sent>>

\* No match: the frame is dropped.
HandlerDrop ==
    /\ walk.pos = End
    /\ missed' = (missed \/ walk.stable # {})
    /\ walk' = Idle
    /\ UNCHANGED <<module, config, alive, storing, wire, crashed, sent, received>>

Next ==
    \/ \E d \in Devs : Newlink(d) \/ Up(d) \/ Down(d) \/ Dellink(d)
    \/ Unload
    \/ \E d \in Devs : \E val \in world.settings[d] : StoreCheck(d, val)
    \/ \E s \in storing : StoreWrite(s)
    \/ \E e \in Eths : Unplug(e) \/ Lose(e) \/ HandlerStart(e)
    \/ \E d \in Devs, f \in world.traffic : Transmit(d, f)
    \/ HandlerWalk \/ HandlerDeliver \/ HandlerDrop

Spec == Init /\ [][Next]_vars

---------------------------------------------------------------------------
(* Properties *)

\* The variables have their types.
TypeOK ==
    /\ world \in Worlds /\ loaded \in BOOLEAN /\ created \subseteq Devs
    /\ exists \subseteq created /\ up \subseteq exists
    /\ \A d \in Devs : cfg[d] \in world.settings[d]
    /\ ethDev \in [Devs -> Eths \cup {Null}]
    /\ list \in Seq(Devs) /\ refs \in [Eths -> Int] /\ alive \subseteq Eths
    /\ \A s \in storing : s.dev \in exists /\ s.val \in world.settings[s.dev]
    /\ walk.pos \in Devs \cup {Null, End} /\ walk.found \in Devs \cup {Null}
    /\ {crashed, missed} \subseteq BOOLEAN
    /\ Len(sent) <= world.sent /\ Len(received) <= world.sent

\* The list holds each device that is up, once, and no other.
ListIsUp == Range(list) = up /\ IsInjective(list)

\* As long as no device has been deleted, the Ethernet device that an acfcan
\* device uses while it is up is not freed: acfcan_up takes a reference for it.
\* (acfcan_remove gives back one reference more than acfcan_up took.)
EthDeviceHeld == exists = created => \A d \in up : ethDev[d] \in alive

\* A frame comes out of the far device as it went into this one: identifier,
\* format and flags.
SameFrames ==
    \A r \in Range(received) : \E s \in Range(sent) :
        s.from = r.from /\ s.no = r.no /\ s.frame = r.frame

\* Through every order of newlink, up, down, store, dellink and unload, with
\* frames under way and Ethernet devices going away, the list, the references
\* and the frames are as the three comments above say.
DeviceInv == TypeOK /\ ListIsUp /\ EthDeviceHeld /\ SameFrames

\* A frame whose receiver is up on the right stream and Ethernet device all
\* the time is not dropped, whatever other devices join and leave the list
\* while the handler walks it.
ActiveIsFound == ~missed

\* Whatever its configuration, the device uses one Ethernet device.
OnePort(d) ==
    \A v, w \in world.settings[d] : v.eth \in Eths /\ w.eth \in Eths => v.eth = w.eth

\* What came to Ecu2 from Ecu1, by the numbers of the frames.
Arrivals(history) ==
    LET upto[i \in 0 .. Len(history)] ==
            IF i = 0 THEN <<>>
            ELSE IF history[i].dev = Ecu2 /\ history[i].from = Ecu1
                 THEN Append(upto[i - 1], history[i].no)
                 ELSE upto[i - 1]
    IN upto[Len(history)]

Tunnel == INSTANCE CanTunnel WITH
    offered <- Cardinality(SentBy(Ecu1)),
    delivered <- IF OnePort(Ecu1) THEN Arrivals(received) ELSE <<>>

\* From one device to the other the frames keep their order and none comes
\* twice, through all changes of the configuration of either that leave the
\* sender on its own Ethernet device.
ImplementsTunnel == Tunnel!Spec
=============================================================================
