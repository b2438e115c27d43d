---------------------------- MODULE Registration ----------------------------
(***************************************************************************)
(* How a device joins the network and how routes come about.              *)
(*                                                                         *)
(* A device broadcasts beacons (nso/src/nso_lib).  A connected neighbour,  *)
(* device or base station, learns a route back to it and passes the beacon *)
(* on towards the gateway; the base station (bs/src/bs_lib) hands it to    *)
(* vTSD over TCP; vTSD (vtsd/) registers the device with vSON (vson/) over *)
(* REST and, if vSON accepts, sends a reply that travels back along the    *)
(* routes the beacon has left.  Once connected a node advertises itself to *)
(* its neighbours and sends topology reports, without which vSON forgets   *)
(* it.  vSON sends no routes of its own: son_fwdt is empty throughout.     *)
(*                                                                         *)
(* The radio loses, delays and duplicates: a frame sent stays in `air' and *)
(* may be received late, twice or never.  Interfaces are promiscuous       *)
(* (wifi_open) and no one compares addresses: whoever is in range handles  *)
(* a frame.  A handler runs in one rx thread from frame to frame and is    *)
(* one step.                                                               *)
(***************************************************************************)
EXTENDS Naturals

CONSTANTS
  Device,      \* the devices
  Bs,          \* the base stations
  Reach,       \* pairs <<n, m>>: m can hear n
  Reporting,   \* bound: the nodes that send topology reports
  Foreign,     \* bound: the nodes that frames of other protocols reach
  Lossy,       \* frames vanish from the air (needed for liveness only: a frame
               \* that is never received is as good as lost)
  All, None    \* the broadcast address; no node

Node == Device \cup Bs

ASSUME NodeAssumption ==
  /\ Device \cap Bs = {}
  /\ Reach \subseteq Node \X Node
  /\ Reporting \subseteq Node /\ Foreign \subseteq Node
  /\ Lossy \in BOOLEAN
  /\ All \notin Node /\ None \notin Node /\ All # None

VARIABLES
  state,    \* nso_layer.dev_state, or "dead": the process has ended
  gw,       \* nso_layer.gw_id; None: not yet set (uninitialised memory)
  local,    \* local[n][x]: next hop to x in nso_layer.local_fwdt of n
  arp,      \* arp[n]: nodes whose address is in nso_layer.arpt of n
  air,      \* frames sent
  toVtsd,   \* registrations on the TCP connections to vTSD
  fromVtsd, \* replies of vTSD on the TCP connections to the base stations
  known,    \* the nodes in vSON's graph
  fresh,    \* those heard since the last tick of vSON's monitor
  approved, \* history: nodes vTSD has ever accepted
  leaked    \* nodes that returned with the ARP table's mutex locked

radio == <<state, gw, local, arp, air, leaked>>
core  == <<toVtsd, fromVtsd, known, fresh, approved>>
vars  == <<radio, core>>

\* A beacon is for everybody until a neighbour gives it its own gateway as
\* destination.
Frame ==
  [kind : {"beacon"}, from : Device, to : Node \cup {All}, src : Device, dst : Bs \cup {All}]
  \cup [kind : {"reply"}, from : Node, to : Node, src : Bs, dst : Device]
  \cup [kind : {"report"}, from : Device, to : Node, src : Device, dst : Bs]
Request ==
  [kind : {"device"}, bs : Bs, src : Device, dst : Bs]
  \cup {[kind |-> "bs", bs |-> b, src |-> b, dst |-> b] : b \in Bs}
Reply ==
  [kind : {"device"}, bs : Bs, src : Bs, dst : Device]
  \cup {[kind |-> "bs", bs |-> b, src |-> b, dst |-> b] : b \in Bs}

Init ==
  /\ state = [n \in Node |-> "unreg"]
  /\ gw = [n \in Node |-> None]
  /\ local = [n \in Node |-> [x \in Node |-> None]]
  /\ arp = [n \in Node |-> {}]
  /\ air = {} /\ toVtsd = {} /\ fromVtsd = {}
  /\ known = {} /\ fresh = {} /\ approved = {}
  /\ leaked = {}

TypeOK ==
  /\ state \in [Node -> {"unreg", "connected", "dead"}]
  /\ gw \in [Node -> Node \cup {None}]
  /\ local \in [Node -> [Node -> Node \cup {None}]]
  /\ arp \in [Node -> SUBSET Node]
  /\ air \subseteq Frame
  /\ toVtsd \subseteq Request
  /\ fromVtsd \subseteq Reply
  /\ known \subseteq Node /\ fresh \subseteq known /\ approved \subseteq Node
  /\ leaked \subseteq Node

\* A process that waits for the leaked mutex does nothing more.
Runs(n) == state[n] # "dead" /\ n \notin leaked
Connected(n) == Runs(n) /\ state[n] = "connected"
-----------------------------------------------------------------------------
(* nso_layer_fwd                                                            *)

\* The next hop is looked up, then its address.  Without a route, or without
\* an address and then with the table still locked, the function frees a
\* pointer it has not set: nothing may come of it, or the process may end.
\* (local' and arp' are what the handler that forwards has made of them.)
Forward(n, kind, src, dst) ==
  LET nxt == local'[n][dst]
  IN \/ /\ nxt \in arp'[n]
        /\ air' = air \cup {[kind |-> kind, from |-> n, to |-> nxt,
                             src |-> src, dst |-> dst]}
        /\ UNCHANGED <<state, leaked>>
     \/ /\ nxt \notin arp'[n]
        /\ leaked' = IF nxt = None THEN leaked ELSE leaked \cup {n}
        /\ state' \in {state, [state EXCEPT ![n] = "dead"]}
        /\ UNCHANGED air

\* Frame f is taken by an rx thread of n, whoever it is addressed to.
Receives(n, f, kind) ==
  /\ Runs(n) /\ f \in air /\ f.kind = kind
  /\ <<f.from, n>> \in Reach

\* Mutant of AddRoute: the newest route wins.
AddRouteOverwrites(n, x, nxt) == local' = [local EXCEPT ![n][x] = nxt]

\* A route is noted if there is none yet; the first one stays for good.
AddRoute(n, x, nxt) ==
  local' = IF local[n][x] = None THEN [local EXCEPT ![n][x] = nxt] ELSE local
-----------------------------------------------------------------------------
(* The tx thread                                                            *)

\* While unregistered: a device broadcasts a beacon, a base station asks vTSD
\* over TCP; both wait for a signal or the timeout and do it again.
SendBeacon(d) ==
  /\ d \in Device /\ Runs(d) /\ state[d] = "unreg"
  /\ air' = air \cup {[kind |-> "beacon", from |-> d, to |-> All,
                       src |-> d, dst |-> All]}
  /\ UNCHANGED <<state, gw, local, arp, leaked, core>>

SendBsReg(b) ==
  /\ b \in Bs /\ Runs(b) /\ state[b] = "unreg"
  /\ toVtsd' = toVtsd \cup {[kind |-> "bs", bs |-> b, src |-> b, dst |-> b]}
  /\ UNCHANGED <<radio, fromVtsd, known, fresh, approved>>

\* vSON takes a topology report: only of a node it knows.
HearReport(src) ==
  /\ fresh' = IF src \in known THEN fresh \cup {src} ELSE fresh
  /\ UNCHANGED <<toVtsd, fromVtsd, known, approved>>

\* Once connected: a report to the gateway, every period.
SendReport(n) ==
  /\ n \in Reporting /\ Connected(n)
  /\ UNCHANGED <<gw, local, arp>>
  /\ \/ /\ n \in Bs
        /\ HearReport(n)
        /\ UNCHANGED <<state, air, leaked>>
     \/ /\ n \in Device
        /\ Forward(n, "report", n, gw[n])
        /\ UNCHANGED core

\* And an advertisement; m hears it and __neighbor_maintain notes the
\* address of n, whatever the state of m.
Advertise(n, m) ==
  /\ Connected(n) /\ Runs(m) /\ <<n, m>> \in Reach
  /\ arp' = [arp EXCEPT ![m] = @ \cup {n}]
  /\ UNCHANGED <<state, gw, local, air, leaked, core>>
-----------------------------------------------------------------------------
(* The rx thread                                                            *)

\* A beacon passed on: to vTSD by a base station, to the gateway by a device.
PassBeacon(n, src, dst) ==
  \/ /\ n \in Bs
     /\ toVtsd' = toVtsd \cup {[kind |-> "device", bs |-> n, src |-> src, dst |-> dst]}
     /\ UNCHANGED <<state, air, leaked, fromVtsd, known, fresh, approved>>
  \/ /\ n \in Device
     /\ Forward(n, "beacon", src, dst)
     /\ UNCHANGED core

\* Mutants of HearBeacon: the address of the device is not noted; the route is
\* not.
HearBeaconNoAddress(n, f) ==
  /\ Receives(n, f, "beacon") /\ f.dst = All /\ Connected(n)
  /\ AddRoute(n, f.src, f.src)
  /\ UNCHANGED <<gw, arp>>
  /\ PassBeacon(n, f.src, gw[n])

HearBeaconNoRoute(n, f) ==
  /\ Receives(n, f, "beacon") /\ f.dst = All /\ Connected(n)
  /\ arp' = [arp EXCEPT ![n] = @ \cup {f.src}]
  /\ UNCHANGED <<gw, local>>
  /\ PassBeacon(n, f.src, gw[n])

\* __fwd_beacon, from the device itself: note its address and a direct route
\* and give the beacon its destination.
HearBeacon(n, f) ==
  /\ Receives(n, f, "beacon") /\ f.dst = All /\ Connected(n)
  /\ arp' = [arp EXCEPT ![n] = @ \cup {f.src}]
  /\ AddRoute(n, f.src, f.src)
  /\ UNCHANGED gw
  /\ PassBeacon(n, f.src, gw[n])

\* Mutant of RelayBeacon: destination and next hop of the route are swapped.
RelayBeaconSwapped(n, f) ==
  /\ Receives(n, f, "beacon") /\ f.dst # All /\ Connected(n) /\ f.from \in arp[n]
  /\ AddRoute(n, f.from, f.src)
  /\ UNCHANGED <<gw, arp>>
  /\ PassBeacon(n, f.src, f.dst)

\* __fwd_beacon, from a device that passed it on: the route back is through
\* that device, if its address is known; if not, the process exits.
RelayBeacon(n, f) ==
  /\ Receives(n, f, "beacon") /\ f.dst # All /\ Connected(n)
  /\ UNCHANGED <<gw, arp>>
  /\ \/ /\ f.from \in arp[n]
        /\ AddRoute(n, f.src, f.from)
        /\ PassBeacon(n, f.src, f.dst)
     \/ /\ f.from \notin arp[n]
        /\ state' = [state EXCEPT ![n] = "dead"]
        /\ UNCHANGED <<local, air, leaked, core>>

\* Mutant of AcceptReply: a reply for any device is taken for one's own.
AcceptReplyOfOthers(d, f) ==
  /\ d \in Device /\ Receives(d, f, "reply") /\ state[d] = "unreg" /\ f.from \in arp[d]
  /\ local' = [local EXCEPT ![d][f.src] = f.from]
  /\ gw' = [gw EXCEPT ![d] = f.src]
  /\ state' = [state EXCEPT ![d] = "connected"]
  /\ UNCHANGED <<arp, air, leaked, core>>

\* Mutants of AcceptReply: a connected device takes a reply again; the sender is
\* taken for the gateway.
AcceptReplyAgain(d, f) ==
  /\ d \in Device /\ Receives(d, f, "reply") /\ f.dst = d /\ f.from \in arp[d]
  /\ local' = [local EXCEPT ![d][f.src] = f.from]
  /\ gw' = [gw EXCEPT ![d] = f.src]
  /\ state' = [state EXCEPT ![d] = "connected"]
  /\ UNCHANGED <<arp, air, leaked, core>>

AcceptReplyFromSender(d, f) ==
  /\ d \in Device /\ Receives(d, f, "reply") /\ f.dst = d /\ state[d] = "unreg" /\ f.from \in arp[d]
  /\ local' = [local EXCEPT ![d][f.src] = f.from]
  /\ gw' = [gw EXCEPT ![d] = f.from]
  /\ state' = [state EXCEPT ![d] = "connected"]
  /\ UNCHANGED <<arp, air, leaked, core>>

\* __process_reg_reply, for this device: the sender becomes the next hop to
\* the gateway, if its address is known; if not, the process exits.
AcceptReply(d, f) ==
  /\ d \in Device /\ Receives(d, f, "reply") /\ f.dst = d /\ state[d] = "unreg"
  /\ \/ /\ f.from \in arp[d]
        /\ local' = [local EXCEPT ![d][f.src] = f.from]
        /\ gw' = [gw EXCEPT ![d] = f.src]
        /\ state' = [state EXCEPT ![d] = "connected"]
     \/ /\ f.from \notin arp[d]
        /\ state' = [state EXCEPT ![d] = "dead"]
        /\ UNCHANGED <<local, gw>>
  /\ UNCHANGED <<arp, air, leaked, core>>

\* __process_reg_reply, for another: forward it.  A base station has no case
\* for this message and drops it.
RelayReply(d, f) ==
  /\ d \in Device /\ Receives(d, f, "reply") /\ f.dst # d /\ Connected(d)
  /\ UNCHANGED <<gw, local, arp>>
  /\ Forward(d, "reply", f.src, f.dst)
  /\ UNCHANGED core

\* __fwd_topo_report: to vSON by a base station, to the gateway by a device.
RelayReport(n, f) ==
  /\ Receives(n, f, "report") /\ Connected(n)
  /\ UNCHANGED <<gw, local, arp>>
  /\ \/ /\ n \in Bs
        /\ HearReport(f.src)
        /\ UNCHANGED <<state, air, leaked>>
     \/ /\ n \in Device
        /\ Forward(n, "report", f.src, f.dst)
        /\ UNCHANGED core

\* A frame of another protocol: the receiver sets its bytes to zero and fails,
\* and the rx thread takes what it has for data to nobody, and frees addresses
\* that were not allocated.  If anything comes of it, it is the end of the process.
ReceiveForeign(n) ==
  /\ n \in Foreign /\ Runs(n)
  /\ state' = [state EXCEPT ![n] = "dead"]
  /\ UNCHANGED <<gw, local, arp, air, leaked, core>>
-----------------------------------------------------------------------------
(* vTSD, and the rest of the base station                                   *)

\* Mutant of Register: the reply keeps the request's source and destination.
RegisterUnswapped(r) ==
  /\ r \in toVtsd
  /\ toVtsd' = toVtsd \ {r}
  /\ \/ /\ r.src \notin known
        /\ known' = known \cup {r.src}
        /\ fresh' = fresh \cup {r.src}
        /\ approved' = approved \cup {r.src}
        /\ fromVtsd' = fromVtsd \cup {r}
     \/ /\ r.src \in known
        /\ UNCHANGED <<fromVtsd, known, fresh, approved>>
  /\ UNCHANGED radio

\* __process_dev_reg and __process_bs_reg: everybody is authenticated; vSON
\* takes a node it does not have, and only then is there a reply, which
\* carries the destination of the request as its source.
Register(r) ==
  /\ r \in toVtsd
  /\ toVtsd' = toVtsd \ {r}
  /\ \/ /\ r.src \notin known
        /\ known' = known \cup {r.src}
        /\ fresh' = fresh \cup {r.src}
        /\ approved' = approved \cup {r.src}
        /\ fromVtsd' = fromVtsd \cup {[kind |-> r.kind, bs |-> r.bs,
                                       src |-> r.dst, dst |-> r.src]}
     \/ /\ r.src \in known
        /\ UNCHANGED <<fromVtsd, known, fresh, approved>>
  /\ UNCHANGED radio

\* __vnf_rx_thread_main: a reply to the base station itself connects it, any
\* other is forwarded.
TakeReply(r) ==
  LET b == r.bs
  IN /\ r \in fromVtsd /\ Runs(b)
     /\ fromVtsd' = fromVtsd \ {r}
     /\ UNCHANGED <<local, arp, toVtsd, known, fresh, approved>>
     /\ \/ /\ r.dst = b
           /\ \/ /\ r.kind = "bs" /\ state[b] = "unreg"
                 /\ gw' = [gw EXCEPT ![b] = r.src]
                 /\ state' = [state EXCEPT ![b] = "connected"]
              \/ /\ r.kind # "bs" \/ state[b] # "unreg"
                 /\ UNCHANGED <<gw, state>>
           /\ UNCHANGED <<air, leaked>>
        \/ /\ r.dst # b
           /\ UNCHANGED gw
           /\ Forward(b, "reply", r.src, r.dst)

\* Mutant of MonitorTick: a node once registered never leaves.
MonitorTickKeepsAll ==
  /\ fresh' = {}
  /\ UNCHANGED <<radio, toVtsd, fromVtsd, known, approved>>

\* vSON's monitor: nodes not heard since the last tick leave the graph.
MonitorTick ==
  /\ known' = fresh
  /\ fresh' = {}
  /\ UNCHANGED <<radio, toVtsd, fromVtsd, approved>>

\* The radio loses a frame.
Lose(f) ==
  /\ Lossy /\ f \in air
  /\ air' = air \ {f}
  /\ UNCHANGED <<state, gw, local, arp, leaked, core>>
-----------------------------------------------------------------------------
Receive(n, f) ==
  \/ HearBeacon(n, f) \/ RelayBeacon(n, f)
  \/ AcceptReply(n, f) \/ RelayReply(n, f)
  \/ RelayReport(n, f)

Next ==
  \/ \E n \in Node : SendBeacon(n) \/ SendBsReg(n) \/ SendReport(n) \/ ReceiveForeign(n)
  \/ \E n, m \in Node : Advertise(n, m)
  \/ \E n \in Node, f \in air : Receive(n, f)
  \/ \E r \in toVtsd : Register(r)
  \/ \E r \in fromVtsd : TakeReply(r)
  \/ MonitorTick
  \/ \E f \in air : Lose(f)

Spec == Init /\ [][Next]_vars

\* Every thread keeps running, a connection is read in order, vTSD answers what
\* it receives, the monitor ticks, and of the beacons or replies of a device
\* that go over a link again and again one is received in the end by another
\* node, though any of them may be lost.
Fairness ==
  /\ \A n \in Node : WF_vars(SendBeacon(n)) /\ WF_vars(SendBsReg(n))
                    /\ WF_vars(SendReport(n))
  /\ \A p \in Reach : WF_vars(Advertise(p[1], p[2]))
  /\ \A p \in Reach, d \in Device :
       /\ p[2] # d => SF_vars(\E f \in air :
                                /\ f.from = p[1] /\ f.src = d
                                /\ HearBeacon(p[2], f) \/ RelayBeacon(p[2], f))
       /\ p[1] # d => SF_vars(\E f \in air :
                                /\ f.from = p[1] /\ f.dst = d
                                /\ AcceptReply(p[2], f) \/ RelayReply(p[2], f))
  /\ \A n \in Node : WF_vars(\E r \in toVtsd : r.src = n /\ Register(r))
  /\ \A b \in Bs, n \in Node :
       WF_vars(\E r \in fromVtsd : r.bs = b /\ r.dst = n /\ TakeReply(r))
  /\ WF_vars(MonitorTick)
-----------------------------------------------------------------------------
(* Properties                                                               *)

\* Following next hops never goes round in a circle: for no destination is
\* there a set of nodes that only pass its packets to one another.
NoForwardingLoop ==
  \A x \in Node, S \in SUBSET Node :
    S # {} => \E n \in S : local[n][x] \notin S \/ local[n][x] = x

\* The next hop on a route to a device has a route to it itself, so a reply
\* that finds its first hop finds them all.
RoutesContinue ==
  \A n \in Node, d \in Device :
    local[n][d] \notin {None, d} => local[local[n][d]][d] # None

\* No node ever leaves nso_layer_fwd with the ARP table locked.
NoLeakedLock == leaked = {}

\* A connected node has been accepted by vTSD, knows its gateway (gw_id is
\* not read before it is set) and, if a device, has a route to it.
ConnectedIsApproved ==
  \A n \in Node : state[n] = "connected" =>
    /\ n \in approved
    /\ gw[n] \in Bs
    /\ n \in Device => local[n][gw[n]] # None

\* Whatever is sent from hop to hop finds a route where it is sent: a frame at
\* the node it is addressed to, if that is not its destination, a reply of vTSD
\* at the base station.  Only a frame that is overheard or foreign can find none
\* and get to the pointer that nso_layer_fwd has not set.
FramesAreRouted ==
  /\ \A f \in air : f.to \in {All, f.dst} \/ local[f.to][f.dst] # None
  /\ \A r \in fromVtsd : r.dst = r.bs \/ local[r.bs][r.dst] # None

\* A node that has joined never leaves: its gateway and its routes are for good,
\* though the next hop may be gone and vSON may have forgotten the node.
JoinedForGood ==
  [][\A n \in Node :
       /\ state[n] = "connected" => state'[n] # "unreg" /\ gw'[n] = gw[n]
       /\ \A x \in Node : local[n][x] # None => local'[n][x] = local[n][x]]_vars

\* A device's parent is the next hop to its gateway.
ParentOf == [d \in Device |-> IF gw[d] = None THEN None ELSE local[d][gw[d]]]

Tree == INSTANCE JoinTree WITH accepted <- approved, gateway <- gw, parent <- ParentOf

\* Where there is one base station the devices form a tree below it that grows by
\* leaves.
ImplementsJoinTree == Tree!Spec

\* The same of the steps alone, wherever they start.
GrowsAsTree == [][Tree!Next]_(Tree!vars)

\* Every device ends up connected, unless a process has exited for want of an
\* address on the way.
EventuallyConnected ==
  \A d \in Device : <>(state[d] = "connected" \/ \E n \in Node : ~Runs(n))
=============================================================================
