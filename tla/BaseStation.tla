---------------------------- MODULE BaseStation ----------------------------
(***************************************************************************)
(* The process of a base station (bs/src/bs_lib): its threads, its tables  *)
(* and its connections to vTSD, vSON and the data plane translator, while  *)
(* it stops and is started again.  What Registration takes as one step of  *)
(* a node is here one step for each critical section of each thread: the   *)
(* rx threads of the interfaces, the tx thread and the thread that reads   *)
(* from the VNFs.                                                          *)
(*                                                                         *)
(* A connection lives as long as the process: what is on its way to a VNF  *)
(* still arrives when the process has stopped, what comes back is lost.    *)
(* The tables start empty each time, vSON's graph and the devices stay as    *)
(* they are.  A send takes the whole packet.                               *)
(***************************************************************************)
EXTENDS Naturals, FiniteSets

CONSTANTS
  Device,
  Bs,       \* the device id of this base station
  Rx,       \* its rx threads, one for each interface
  Heard,    \* triples <<d, m, r>>: beacons of d come from m, which is d or passes
            \* them on, to the interface of r
  Bucket,   \* the bucket of the hash table that a device's route is in
  Talking,  \* bound: the devices that send data
  Overheard,\* pairs <<d, r>>: data for d is overheard on the interface of r
  Window,   \* bound: packets on their way on one connection
  MaxLife,  \* bound: how often the process is started
  None      \* no id

ASSUME BaseStationAssumption ==
  /\ Bs \notin Device /\ None \notin Device \cup {Bs}
  /\ Heard \subseteq Device \X Device \X Rx
  /\ Talking \subseteq Device /\ Overheard \subseteq Device \X Rx
  /\ MaxLife \in Nat /\ Window \in Nat \ {0}

VARIABLES
  proc,     \* the process is "up" or "down"
  life,     \* how often it has been started; the number of its connections
  state,    \* nso_layer.dev_state
  gw,       \* nso_layer.gw_id; None: not yet set (uninitialised memory)
  arp,      \* devices whose address is in nso_layer.arpt
  mutex,    \* that of nso_layer.arpt between critical sections: "free" or "leaked"
  local,    \* next hops in nso_layer.local_fwdt
  rx,       \* where each rx thread is, with the packet it handles
  seen,     \* the routes in the chain whose head it has read to link a route before
  tx,       \* where the tx thread is
  vnf,      \* where the thread that reads from the VNFs is, with its packet
  toVtsd,   \* registrations on the connections to vTSD
  fromVtsd, \* replies on the present connection from vTSD
  talking,  \* devices that the translator has connected to the application
  connected,\* the devices that are connected
  known,    \* {Bs} if the base station is in vSON's graph
  fresh,    \* {Bs} if it has been heard since the last tick of vSON's monitor
  elder,    \* history: devices connected when the process has stopped
  lost      \* history: devices whose route another addition has cut off

routes  == <<local, lost>>
tables  == <<arp, routes>>
steady  == <<proc, life, state, gw, mutex>>
process == <<steady, tables, rx, seen, tx, vnf>>
streams == <<toVtsd, fromVtsd, talking>>
core    == <<known, fresh>>
outside == <<connected, core, elder>>
vars    == <<process, streams, outside>>

Node    == Device \cup {Bs}
\* A beacon of dev, or data or a reply for dev; via is the neighbour that it
\* comes from or goes to.
Packet  == [at : {"idle", "arp", "note", "whose", "fwd", "add", "link", "pass",
                  "route", "address"},
            type : {"none", "beacon", "advert", "data", "reply"},
            dev : Device \cup {None}, via : Device \cup {None}, dst : {Bs, None}]
Request == [src : Node, dst : {Bs, None}, life : 1..MaxLife]

Up == proc = "up"

\* A sender waits for room on the connection.
Room == Cardinality({q \in toVtsd : q.life = life}) < Window

Idle    == [at |-> "idle", type |-> "none", dev |-> None, via |-> None, dst |-> None]
NoRoutes == [d \in Device |-> None]

Init ==
  /\ proc = "down" /\ life = 0
  /\ state = "unreg" /\ gw = None
  /\ arp = {} /\ mutex = "free" /\ local = NoRoutes /\ lost = {}
  /\ rx = [r \in Rx |-> Idle] /\ seen = [r \in Rx |-> NoRoutes] /\ tx = "send" /\ vnf = Idle
  /\ toVtsd = {} /\ fromVtsd = {} /\ talking = {}
  /\ connected = {}
  /\ known = {} /\ fresh = {}
  /\ elder = {}
-----------------------------------------------------------------------------
(* The process starts and stops                                             *)

\* __nso_layer_init and nso_layer_run: new connections, empty tables.  When a
\* VNF cannot be connected it ends with nothing done.
Start ==
  /\ proc = "down" /\ life < MaxLife
  /\ proc' = "up" /\ life' = life + 1
  /\ UNCHANGED <<state, gw, tables, mutex, rx, seen, tx, vnf, streams, outside>>

\* The process is gone, and with it its state and what was on its way to it.
\* Of what it has sent, registrations of its own matter here.
Stops ==
  /\ proc' = "down" /\ state' = "unreg" /\ gw' = None
  /\ arp' = {} /\ mutex' = "free" /\ local' = NoRoutes /\ lost' = {}
  /\ rx' = [r \in Rx |-> Idle] /\ seen' = [r \in Rx |-> NoRoutes] /\ tx' = "send" /\ vnf' = Idle
  /\ toVtsd' = {q \in toVtsd : q.src = Bs} /\ fromVtsd' = {} /\ talking' = {}
  /\ elder' = elder \cup connected
  /\ UNCHANGED <<life, connected, core>>

Crash == Up /\ Stops
-----------------------------------------------------------------------------
(* The tx thread                                                            *)

\* tsd_bs_reg: source and destination are the base station itself.
TxRegister ==
  /\ Up /\ tx = "send" /\ Room
  /\ toVtsd' = toVtsd \cup {[src |-> Bs, dst |-> Bs, life |-> life]}
  /\ tx' = "wait"
  /\ UNCHANGED <<steady, tables, rx, seen, vnf, fromVtsd, talking, outside>>

\* Signalled, or after the timeout.
TxWake ==
  /\ Up /\ tx = "wait"
  /\ tx' = IF state = "unreg" THEN "send" ELSE "report"
  /\ UNCHANGED <<steady, tables, rx, seen, vnf, streams, outside>>

\* Mutant of TxReport: vSON notes the report of a node it does not know.
TxReportNoted ==
  /\ Up /\ tx = "report"
  /\ fresh' = {Bs}
  /\ UNCHANGED <<process, streams, connected, known, elder>>

\* son_topo_report, every period.  vSON ignores the report of a node it does
\* not know.
TxReport ==
  /\ Up /\ tx = "report"
  /\ fresh' = known
  /\ UNCHANGED <<process, streams, connected, known, elder>>
-----------------------------------------------------------------------------
(* An rx thread: __fwd_beacon, __neighbor_maintain, __fwd_topo_report,       *)
(* data_process_rx                                                          *)

Handles(r, place) == Up /\ rx[r].at = place

GoesOn(r, place) == rx' = [rx EXCEPT ![r] = IF place = "idle" THEN Idle ELSE [@ EXCEPT !.at = place]]

\* A beacon of a device that is not connected, from the device itself (it gets
\* the gateway as its destination) or from one that passes it on.
HearBeacon(r, d, m) ==
  /\ Handles(r, "idle") /\ state = "connected" /\ <<d, m, r>> \in Heard
  /\ d \notin connected
  /\ m # d => m \in connected
  /\ rx' = [rx EXCEPT ![r] = [at |-> IF m = d THEN "arp" ELSE "whose", type |-> "beacon",
                              dev |-> d, via |-> m, dst |-> IF m = d THEN gw ELSE Bs]]
  /\ UNCHANGED <<steady, tables, seen, tx, vnf, streams, outside>>

\* An advertisement of a connected device, whatever the state here.
HearAdvert(r, m) ==
  /\ Handles(r, "idle") /\ m \in connected /\ <<m, m, r>> \in Heard
  /\ rx' = [rx EXCEPT ![r] = [at |-> "arp", type |-> "advert", dev |-> None,
                              via |-> m, dst |-> None]]
  /\ UNCHANGED <<steady, tables, seen, tx, vnf, streams, outside>>

\* data_process_rx: the first data of a device makes the translator connect it
\* to the application.
HearData(r, d) ==
  /\ Handles(r, "idle") /\ state = "connected" /\ d \in connected \cap Talking
  /\ talking' = talking \cup {d}
  /\ UNCHANGED <<process, toVtsd, fromVtsd, outside>>

\* Its data of a protocol that no VNF is connected for: the look-up finds none,
\* and its result is used.
HearUnknown(r, d) ==
  /\ Handles(r, "idle") /\ state = "connected" /\ d \in connected \cap Talking
  /\ Stops

\* Interfaces are promiscuous: data on its way to a device may be overheard, and
\* is forwarded.
HearDataFor(r, d) ==
  /\ Handles(r, "idle") /\ state = "connected" /\ d \in connected
  /\ <<d, r>> \in Overheard
  /\ rx' = [rx EXCEPT ![r] = [at |-> "route", type |-> "data", dev |-> d,
                              via |-> None, dst |-> None]]
  /\ UNCHANGED <<steady, tables, seen, tx, vnf, streams, outside>>

\* A frame of another protocol: its bytes are set to zero and treated as data,
\* addresses that were not allocated are freed.  If anything comes of it, it is
\* the end of the process.
HearForeign(r) == Handles(r, "idle") /\ Stops

\* With the lock: is the address of the sender there?
ArpLookup(r) ==
  /\ Handles(r, "arp") /\ mutex = "free"
  /\ GoesOn(r, IF rx[r].via \notin arp THEN "note"
               ELSE IF rx[r].type = "beacon" THEN "fwd" ELSE "idle")
  /\ UNCHANGED <<steady, tables, seen, tx, vnf, streams, outside>>

ArpAdd(r) ==
  /\ Handles(r, "note") /\ mutex = "free"
  /\ arp' = arp \cup {rx[r].via}
  /\ GoesOn(r, IF rx[r].type = "beacon" THEN "fwd" ELSE "idle")
  /\ UNCHANGED <<steady, routes, seen, tx, vnf, streams, outside>>

\* Whose address is it that a relayed beacon comes from?  If nobody's, the
\* process exits.
ArpWhose(r) ==
  /\ Handles(r, "whose") /\ mutex = "free"
  /\ \/ /\ rx[r].via \in arp
        /\ GoesOn(r, "fwd")
        /\ UNCHANGED <<steady, tables, seen, tx, vnf, streams, outside>>
     \/ rx[r].via \notin arp /\ Stops

\* Mutant of FwdLookup: a beacon is passed on without a route back.
FwdLookupOnly(r) ==
  /\ Handles(r, "fwd")
  /\ GoesOn(r, "pass")
  /\ UNCHANGED <<steady, tables, seen, tx, vnf, streams, outside>>

FwdLookup(r) ==
  /\ Handles(r, "fwd")
  /\ GoesOn(r, IF local[rx[r].dev] = None THEN "add" ELSE "pass")
  /\ UNCHANGED <<steady, tables, seen, tx, vnf, streams, outside>>

\* fwd_table_add takes no lock: it reads the head of the chain ...
FwdRead(r) ==
  /\ Handles(r, "add")
  /\ seen' = [seen EXCEPT ![r] = local]
  /\ GoesOn(r, "link")
  /\ UNCHANGED <<steady, tables, tx, vnf, streams, outside>>

\* ... and puts the new route before what it has read.  What another thread has
\* added to the chain in between is cut off, what it has cut off is back.  Of
\* two routes to a device a lookup finds the one added last.
FwdLink(r) ==
  LET p == rx[r]
      chain == [d \in Device |-> IF d = p.dev THEN p.via
                                 ELSE IF Bucket[d] = Bucket[p.dev] THEN seen[r][d]
                                 ELSE local[d]]
  IN /\ Handles(r, "link")
     /\ local' = chain
     /\ lost' = {d \in Device : chain[d] = None /\ (local[d] # None \/ d \in lost)}
     /\ seen' = [seen EXCEPT ![r] = NoRoutes]
     /\ GoesOn(r, "pass")
     /\ UNCHANGED <<steady, arp, tx, vnf, streams, outside>>

PassBeacon(r) ==
  /\ Handles(r, "pass") /\ Room
  /\ toVtsd' = toVtsd \cup {[src |-> rx[r].dev, dst |-> rx[r].dst, life |-> life]}
  /\ GoesOn(r, "idle")
  /\ UNCHANGED <<steady, tables, seen, tx, vnf, fromVtsd, talking, outside>>
-----------------------------------------------------------------------------
(* The thread that reads from the VNFs                                      *)

VnfAt(place) == Up /\ vnf.at = place

\* Mutant of TakeOwnReply: the gateway is not set.
TakeOwnReplyNoGateway(q) ==
  /\ VnfAt("idle") /\ q \in fromVtsd /\ q.src = Bs
  /\ fromVtsd' = fromVtsd \ {q}
  /\ state' = "connected" /\ UNCHANGED gw
  /\ UNCHANGED <<proc, life, tables, mutex, rx, seen, tx, vnf, toVtsd, talking, outside>>

\* __process_bs_reg_reply, under the state's lock.
TakeOwnReply(q) ==
  /\ VnfAt("idle") /\ q \in fromVtsd /\ q.src = Bs
  /\ fromVtsd' = fromVtsd \ {q}
  /\ IF state = "unreg"
     THEN gw' = q.dst /\ state' = "connected"
     ELSE UNCHANGED <<gw, state>>
  /\ UNCHANGED <<proc, life, tables, mutex, rx, seen, tx, vnf, toVtsd, talking, outside>>

\* A reply to a device is forwarded.
TakeReply(q) ==
  /\ VnfAt("idle") /\ q \in fromVtsd /\ q.src # Bs
  /\ fromVtsd' = fromVtsd \ {q}
  /\ vnf' = [at |-> "route", type |-> "reply", dev |-> q.src,
              via |-> None, dst |-> None]
  /\ UNCHANGED <<steady, tables, rx, seen, tx, toVtsd, talking, outside>>

\* So is what the application has for a device.
TakeData(d) ==
  /\ VnfAt("idle") /\ d \in talking
  /\ vnf' = [at |-> "route", type |-> "data", dev |-> d,
              via |-> None, dst |-> None]
  /\ UNCHANGED <<steady, tables, rx, seen, tx, streams, outside>>

\* nso_layer_fwd: the next hop, under the lock of its table.  Without one the
\* packet is dropped.
Routed(p) == IF local[p.dev] = None THEN Idle
             ELSE [p EXCEPT !.at = "address", !.via = local[p.dev]]

FwdRoute ==
  /\ VnfAt("route")
  /\ vnf' = Routed(vnf)
  /\ UNCHANGED <<steady, tables, rx, seen, tx, streams, outside>>

RxRoute(r) ==
  /\ Handles(r, "route")
  /\ rx' = [rx EXCEPT ![r] = Routed(rx[r])]
  /\ UNCHANGED <<steady, tables, seen, tx, vnf, streams, outside>>

\* Then its address; without one the ARP table stays locked.  A reply sent
\* connects the device, or the radio loses it.
FwdAddress ==
  /\ VnfAt("address") /\ mutex = "free"
  /\ mutex' = IF vnf.via \in arp THEN "free" ELSE "leaked"
  /\ \/ UNCHANGED connected
     \/ vnf.via \in arp /\ vnf.type = "reply" /\ connected' = connected \cup {vnf.dev}
  /\ vnf' = Idle
  /\ UNCHANGED <<proc, life, state, gw, tables, rx, seen, tx, streams, core, elder>>

RxAddress(r) ==
  /\ Handles(r, "address") /\ mutex = "free"
  /\ mutex' = IF rx[r].via \in arp THEN "free" ELSE "leaked"
  /\ GoesOn(r, "idle")
  /\ UNCHANGED <<proc, life, state, gw, tables, seen, tx, vnf, streams, outside>>

Handled == {vnf} \cup {rx[r] : r \in Rx}

\* Without a route or an address a pointer that was never set is freed: nothing
\* may come of it, as above, or the process may end.
UndefinedFree ==
  /\ Up
  /\ \E p \in Handled : \/ p.at = "route" /\ local[p.dev] = None
                        \/ p.at = "address" /\ mutex = "free" /\ p.via \notin arp
  /\ Stops
-----------------------------------------------------------------------------
(* vTSD and vSON                                                            *)

\* vSON takes a node it does not have, and only then does vTSD reply, on the
\* connection that the request came by.  Of a device it may know either.
Register(q) ==
  /\ q \in toVtsd
  /\ q.life = life => Cardinality(fromVtsd) < Window
  /\ toVtsd' = toVtsd \ {q}
  /\ \/ /\ q.src = Bs => known = {}
        /\ fromVtsd' = IF Up /\ q.life = life THEN fromVtsd \cup {q} ELSE fromVtsd
        /\ IF q.src = Bs THEN known' = {Bs} /\ fresh' = {Bs} ELSE UNCHANGED core
     \/ /\ q.src = Bs => known # {}
        /\ UNCHANGED <<fromVtsd, core>>
  /\ UNCHANGED <<process, talking, connected, elder>>

\* Mutant of MonitorTick: a node once registered never leaves.
MonitorTickKeepsAll ==
  /\ fresh' = {}
  /\ UNCHANGED <<process, streams, connected, known, elder>>

MonitorTick ==
  /\ known' = fresh /\ fresh' = {}
  /\ UNCHANGED <<process, streams, connected, elder>>
-----------------------------------------------------------------------------
Tx == TxRegister \/ TxWake \/ TxReport

RxStep(r) ==
  \/ \E d, m \in Device : HearBeacon(r, d, m)
  \/ \E d \in Device : \/ HearAdvert(r, d) \/ HearData(r, d)
                        \/ HearUnknown(r, d) \/ HearDataFor(r, d)
  \/ HearForeign(r)
  \/ ArpLookup(r) \/ ArpAdd(r) \/ ArpWhose(r)
  \/ FwdLookup(r) \/ FwdRead(r) \/ FwdLink(r) \/ PassBeacon(r)
  \/ RxRoute(r) \/ RxAddress(r)

Vnf ==
  \/ \E q \in fromVtsd : TakeOwnReply(q) \/ TakeReply(q)
  \/ \E d \in talking : TakeData(d)
  \/ FwdRoute \/ FwdAddress

Next ==
  \/ Start \/ Crash \/ UndefinedFree \/ Tx \/ Vnf \/ \E r \in Rx : RxStep(r)
  \/ \E q \in toVtsd : Register(q)
  \/ MonitorTick

\* The threads of the process run while it does, vTSD reads what arrives, and
\* the monitor ticks.
Fairness ==
  /\ WF_vars(Tx) /\ WF_vars(Vnf)
  /\ WF_vars(\E q \in toVtsd : Register(q))
  /\ WF_vars(MonitorTick)

Spec == Init /\ [][Next]_vars /\ Fairness
-----------------------------------------------------------------------------
(* Properties                                                               *)

TypeOK ==
  /\ proc \in {"down", "up"} /\ life \in 0..MaxLife
  /\ state \in {"unreg", "connected"} /\ gw \in {Bs, None}
  /\ arp \subseteq Device /\ mutex \in {"free", "leaked"} /\ local \in [Device -> Device \cup {None}]
  /\ lost \subseteq Device
  /\ rx \in [Rx -> Packet] /\ seen \in [Rx -> [Device -> Device \cup {None}]]
  /\ tx \in {"send", "wait", "report"} /\ vnf \in Packet
  /\ toVtsd \subseteq Request /\ fromVtsd \subseteq Request /\ talking \subseteq Device
  /\ connected \subseteq Device
  /\ known \subseteq {Bs} /\ fresh \subseteq known /\ elder \subseteq Device

\* Whatever the rx threads are in the middle of, what is forwarded has a route,
\* and its next hop an address: both are there before a beacon is passed on.
\* Two exceptions: a route that the addition of another has cut off, which takes
\* two rx threads at once, and data for a device that was connected before the
\* base station was started again: its routes are gone.  The ARP table is never
\* left locked.
ForwardsOnlyWithRoute ==
  /\ mutex = "free"
  /\ \A p \in Handled :
       /\ p.at = "route" /\ local[p.dev] = None
            => p.dev \in lost \/ (p.type = "data" /\ p.dev \in elder)
       /\ p.at = "address" => p.via \in arp

\* Every beacon passed on, by whichever thread and at whatever time after the
\* reply was taken, carries the gateway that the reply brought.
PassedWithGateway == \A q \in toVtsd \cup fromVtsd : q.dst = Bs

\* However it stopped, whichever registrations of its former life vTSD has
\* still to handle: when it runs it gets connected, or it stops again.
EventuallyBack == Up ~> (state = "connected" \/ ~Up)
=============================================================================
