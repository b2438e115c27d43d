------------------------ MODULE Registration_proofs ------------------------
(* Proofs about Registration, for any network. *)
EXTENDS Registration, TLAPS

-----------------------------------------------------------------------------
(* Types                                                                    *)

\* A connected node knows its gateway, a base station.
GatewayKnown == \A n \in Node : state[n] = "connected" => gw[n] \in Bs

TypeInv == TypeOK /\ GatewayKnown

\* What nso_layer_fwd does keeps the types, if the packet is well-formed.
LEMMA ForwardType ==
  ASSUME TypeOK, NEW n \in Node, NEW kind, NEW src, NEW dst,
         \A to \in Node : [kind |-> kind, from |-> n, to |-> to,
                           src |-> src, dst |-> dst] \in Frame,
         arp' \in [Node -> SUBSET Node],
         Forward(n, kind, src, dst)
  PROVE  /\ state' \in [Node -> {"unreg", "connected", "dead"}]
         /\ air' \subseteq Frame
         /\ leaked' \subseteq Node
<1> DEFINE nxt == local'[n][dst]
<1>1. CASE nxt \in arp'[n]
  <2>1. nxt \in Node
    BY <1>1
  <2>2. [kind |-> kind, from |-> n, to |-> nxt, src |-> src, dst |-> dst] \in Frame
    BY <2>1
  <2> QED BY <1>1, <2>2 DEF Forward, TypeOK
<1>2. CASE nxt \notin arp'[n]
  BY <1>2 DEF Forward, TypeOK
<1> QED BY <1>1, <1>2

\* A connected node was connected before nso_layer_fwd.
LEMMA ForwardState ==
  ASSUME TypeOK, NEW n \in Node, NEW kind, NEW src, NEW dst,
         Forward(n, kind, src, dst)
  PROVE  \A m \in Node : state'[m] \in {state[m], "dead"}
BY SMT DEF TypeOK, Forward

\* A route noted is of the type of the table.
LEMMA AddRouteType ==
  ASSUME TypeOK, NEW n \in Node, NEW x \in Node, NEW y \in Node, AddRoute(n, x, y)
  PROVE  local' \in [Node -> [Node -> Node \cup {None}]]
BY SMT DEF TypeOK, AddRoute

\* PassBeacon keeps the types.
LEMMA PassBeaconType ==
  ASSUME TypeOK, NEW n \in Node, NEW src \in Device, NEW dst \in Bs,
         arp' \in [Node -> SUBSET Node], PassBeacon(n, src, dst)
  PROVE  /\ state' \in [Node -> {"unreg", "connected", "dead"}]
         /\ air' \subseteq Frame
         /\ leaked' \subseteq Node
         /\ toVtsd' \subseteq Request
         /\ fromVtsd' \subseteq Reply
         /\ known' \subseteq Node /\ fresh' \subseteq known' /\ approved' \subseteq Node
         /\ \A m \in Node : state'[m] \in {state[m], "dead"}
<1>1. CASE n \in Bs
  <2>1. [kind |-> "device", bs |-> n, src |-> src, dst |-> dst] \in Request
    BY <1>1 DEF Request
  <2>2. n \notin Device
    BY <1>1, NodeAssumption
  <2> QED BY <2>1, <2>2, <1>1 DEF PassBeacon, TypeOK
<1>2. CASE n \in Device
  <2>1. n \notin Bs
    BY <1>2, NodeAssumption
  <2>2. Forward(n, "beacon", src, dst) /\ UNCHANGED core
    BY <2>1 DEF PassBeacon
  <2>3. \A to \in Node : [kind |-> "beacon", from |-> n, to |-> to,
                          src |-> src, dst |-> dst] \in Frame
    BY <1>2 DEF Frame
  <2> QED BY <2>2, <2>3, ForwardType, ForwardState DEF core, TypeOK
<1> QED BY <1>1, <1>2 DEF Node

\* Frames by kind.
LEMMA FrameFields ==
  ASSUME NEW f \in Frame
  PROVE  /\ f.from \in Node /\ f.to \in Node \cup {All}
         /\ f.kind = "beacon" => f.src \in Device /\ f.from \in Device /\ f.dst \in Bs \cup {All}
         /\ f.kind = "reply" => f.src \in Bs /\ f.dst \in Device
         /\ f.kind = "report" => f.src \in Device /\ f.dst \in Bs
BY DEF Frame, Node

\* Every step keeps the types and the gateway of a connected node.
LEMMA TypeStep == TypeInv /\ [Next]_vars => TypeInv'
<1> SUFFICES ASSUME TypeInv, [Next]_vars PROVE TypeInv'
  OBVIOUS
<1> USE DEF TypeInv
<1>1. ASSUME NEW n \in Node, SendBeacon(n) PROVE TypeInv'
  <2>1. [kind |-> "beacon", from |-> n, to |-> All, src |-> n, dst |-> All] \in Frame
    BY <1>1 DEF SendBeacon, Frame
  <2> QED BY <1>1, <2>1 DEF SendBeacon, core, TypeOK, GatewayKnown
<1>2. ASSUME NEW n \in Node, SendBsReg(n) PROVE TypeInv'
  <2>1. [kind |-> "bs", bs |-> n, src |-> n, dst |-> n] \in Request
    BY <1>2 DEF SendBsReg, Request
  <2> QED BY <1>2, <2>1 DEF SendBsReg, radio, TypeOK, GatewayKnown
<1>3. ASSUME NEW n \in Node, SendReport(n) PROVE TypeInv'
  <2>1. CASE n \in Bs /\ HearReport(n) /\ UNCHANGED <<state, air, leaked>>
    BY <1>3, <2>1 DEF SendReport, HearReport, TypeOK, GatewayKnown
  <2>2. CASE n \in Device /\ Forward(n, "report", n, gw[n]) /\ UNCHANGED core
    <3>1. gw[n] \in Bs
      BY <1>3 DEF SendReport, Connected, GatewayKnown
    <3>2. \A to \in Node : [kind |-> "report", from |-> n, to |-> to,
                            src |-> n, dst |-> gw[n]] \in Frame
      BY <2>2, <3>1 DEF Frame
    <3>3. arp' \in [Node -> SUBSET Node]
      BY <1>3 DEF SendReport, TypeOK
    <3>4. /\ state' \in [Node -> {"unreg", "connected", "dead"}]
          /\ air' \subseteq Frame /\ leaked' \subseteq Node
      BY <2>2, <3>2, <3>3, ForwardType
    <3>5. \A m \in Node : state'[m] \in {state[m], "dead"}
      BY <2>2, ForwardState
    <3> QED BY <1>3, <2>2, <3>4, <3>5 DEF SendReport, core, TypeOK, GatewayKnown
  <2> QED BY <1>3, <2>1, <2>2 DEF SendReport
<1>4. ASSUME NEW n \in Node, NEW m \in Node, Advertise(n, m) PROVE TypeInv'
  BY <1>4 DEF Advertise, core, TypeOK, GatewayKnown
<1>5. ASSUME NEW n \in Node, NEW f \in air, HearBeacon(n, f) PROVE TypeInv'
  <2>1. f \in Frame /\ f.kind = "beacon"
    BY <1>5 DEF HearBeacon, Receives, TypeOK
  <2>2. f.src \in Device /\ f.src \in Node /\ gw[n] \in Bs
    BY <1>5, <2>1, FrameFields DEF HearBeacon, Connected, GatewayKnown, Node
  <2>3. arp' \in [Node -> SUBSET Node]
    BY <1>5, <2>2 DEF HearBeacon, TypeOK
  <2>4. local' \in [Node -> [Node -> Node \cup {None}]]
    BY <1>5, <2>2, AddRouteType DEF HearBeacon
  <2>5. PassBeacon(n, f.src, gw[n]) /\ gw' = gw
    BY <1>5 DEF HearBeacon
  <2> QED BY <2>2, <2>3, <2>4, <2>5, PassBeaconType DEF TypeOK, GatewayKnown
<1>6. ASSUME NEW n \in Node, NEW f \in air, RelayBeacon(n, f) PROVE TypeInv'
  <2>1. f \in Frame /\ f.kind = "beacon" /\ f.dst # All
    BY <1>6 DEF RelayBeacon, Receives, TypeOK
  <2>2. f.src \in Device /\ f.src \in Node /\ f.from \in Node /\ f.dst \in Bs
    BY <2>1, FrameFields DEF Node
  <2>3. CASE f.from \in arp[n] /\ AddRoute(n, f.src, f.from) /\ PassBeacon(n, f.src, f.dst)
    <3>1. arp' \in [Node -> SUBSET Node] /\ gw' = gw
      BY <1>6 DEF RelayBeacon, TypeOK
    <3>2. local' \in [Node -> [Node -> Node \cup {None}]]
      BY <2>2, <2>3, AddRouteType
    <3> QED BY <2>2, <2>3, <3>1, <3>2, PassBeaconType DEF TypeOK, GatewayKnown
  <2>4. CASE state' = [state EXCEPT ![n] = "dead"] /\ UNCHANGED <<local, air, leaked, core>>
    BY <1>6, <2>4 DEF RelayBeacon, core, TypeOK, GatewayKnown
  <2> QED BY <1>6, <2>3, <2>4 DEF RelayBeacon
<1>7. ASSUME NEW n \in Node, NEW f \in air, AcceptReply(n, f) PROVE TypeInv'
  <2>1. f.src \in Bs /\ f.src \in Node /\ f.from \in Node
    BY <1>7, FrameFields DEF AcceptReply, Receives, TypeOK, Node
  <2>2. CASE f.from \in arp[n]
    <3>1. /\ local' = [local EXCEPT ![n][f.src] = f.from]
          /\ gw' = [gw EXCEPT ![n] = f.src]
          /\ state' = [state EXCEPT ![n] = "connected"]
          /\ UNCHANGED <<arp, air, leaked, toVtsd, fromVtsd, known, fresh, approved>>
      BY <1>7, <2>2 DEF AcceptReply, core
    <3>2. local' \in [Node -> [Node -> Node \cup {None}]]
      BY <2>1, <3>1 DEF TypeOK
    <3>3. gw' \in [Node -> Node \cup {None}] /\ state' \in [Node -> {"unreg", "connected", "dead"}]
      BY <2>1, <3>1 DEF TypeOK
    <3>4. GatewayKnown'
      BY <2>1, <3>1 DEF TypeOK, GatewayKnown
    <3> QED BY <3>1, <3>2, <3>3, <3>4 DEF TypeOK
  <2>3. CASE f.from \notin arp[n]
    BY <1>7, <2>3 DEF AcceptReply, core, TypeOK, GatewayKnown
  <2> QED BY <2>2, <2>3
<1>8. ASSUME NEW n \in Node, NEW f \in air, RelayReply(n, f) PROVE TypeInv'
  <2>1. f.src \in Bs /\ f.dst \in Device
    BY <1>8, FrameFields DEF RelayReply, Receives, TypeOK
  <2>2. \A to \in Node : [kind |-> "reply", from |-> n, to |-> to,
                          src |-> f.src, dst |-> f.dst] \in Frame
    BY <2>1 DEF Frame
  <2>3. /\ arp' \in [Node -> SUBSET Node] /\ Forward(n, "reply", f.src, f.dst)
        /\ UNCHANGED <<gw, local, arp, core>>
    BY <1>8 DEF RelayReply, TypeOK
  <2>4. /\ state' \in [Node -> {"unreg", "connected", "dead"}]
        /\ air' \subseteq Frame /\ leaked' \subseteq Node
    BY <2>2, <2>3, ForwardType
  <2> QED BY <2>3, <2>4, ForwardState DEF core, TypeOK, GatewayKnown
<1>9. ASSUME NEW n \in Node, NEW f \in air, RelayReport(n, f) PROVE TypeInv'
  <2>1. f.src \in Device /\ f.dst \in Bs
    BY <1>9, FrameFields DEF RelayReport, Receives, TypeOK
  <2>2. CASE n \in Bs /\ HearReport(f.src) /\ UNCHANGED <<state, air, leaked>>
    BY <1>9, <2>2 DEF RelayReport, HearReport, TypeOK, GatewayKnown
  <2>3. CASE n \in Device /\ Forward(n, "report", f.src, f.dst) /\ UNCHANGED core
    <3>1. \A to \in Node : [kind |-> "report", from |-> n, to |-> to,
                            src |-> f.src, dst |-> f.dst] \in Frame
      BY <2>1, <2>3 DEF Frame
    <3>2. arp' \in [Node -> SUBSET Node] /\ UNCHANGED <<gw, local, arp>>
      BY <1>9 DEF RelayReport, TypeOK
    <3>3. /\ state' \in [Node -> {"unreg", "connected", "dead"}]
          /\ air' \subseteq Frame /\ leaked' \subseteq Node
      BY <2>3, <3>1, <3>2, ForwardType
    <3> QED BY <2>3, <3>2, <3>3, ForwardState DEF core, TypeOK, GatewayKnown
  <2> QED BY <1>9, <2>2, <2>3 DEF RelayReport
<1>10. ASSUME NEW r \in toVtsd, Register(r) PROVE TypeInv'
  <2>1. r \in Request /\ r.src \in Node
    BY NodeAssumption DEF TypeOK, Request, Node
  <2>2. [kind |-> r.kind, bs |-> r.bs, src |-> r.dst, dst |-> r.src] \in Reply
    BY <2>1 DEF Request, Reply
  <2> QED BY <1>10, <2>1, <2>2 DEF Register, radio, TypeOK, GatewayKnown
<1>11. ASSUME NEW r \in fromVtsd, TakeReply(r) PROVE TypeInv'
  <2>1. r \in Reply /\ r.bs \in Bs /\ r.bs \in Node /\ r.src \in Bs
    BY DEF TypeOK, Reply, Node
  <2>2. CASE r.dst = r.bs
    BY <1>11, <2>1, <2>2 DEF TakeReply, TypeOK, GatewayKnown, Node
  <2>3. CASE r.dst # r.bs
    <3>1. r.dst \in Device
      BY <2>1, <2>3 DEF Reply
    <3>2. \A to \in Node : [kind |-> "reply", from |-> r.bs, to |-> to,
                            src |-> r.src, dst |-> r.dst] \in Frame
      BY <2>1, <3>1 DEF Frame
    <3>3. /\ arp' \in [Node -> SUBSET Node] /\ Forward(r.bs, "reply", r.src, r.dst)
          /\ UNCHANGED <<gw, local, arp, toVtsd, known, fresh, approved>>
          /\ fromVtsd' \subseteq Reply
      BY <1>11, <2>3 DEF TakeReply, TypeOK
    <3>4. /\ state' \in [Node -> {"unreg", "connected", "dead"}]
          /\ air' \subseteq Frame /\ leaked' \subseteq Node
      BY <2>1, <3>2, <3>3, ForwardType
    <3>5. \A m \in Node : state'[m] \in {state[m], "dead"}
      BY <2>1, <3>3, ForwardState
    <3> QED BY <3>3, <3>4, <3>5 DEF TypeOK, GatewayKnown
  <2> QED BY <2>2, <2>3
<1>12. CASE MonitorTick
  BY <1>12 DEF MonitorTick, radio, TypeOK, GatewayKnown
<1>13. ASSUME NEW f \in air, Lose(f) PROVE TypeInv'
  BY <1>13 DEF Lose, core, TypeOK, GatewayKnown
<1>14. ASSUME NEW n \in Node, ReceiveForeign(n) PROVE TypeInv'
  BY <1>14 DEF ReceiveForeign, core, TypeOK, GatewayKnown
<1>15. CASE UNCHANGED vars
  BY <1>15 DEF vars, radio, core, TypeOK, GatewayKnown
<1> QED
  BY <1>1, <1>2, <1>3, <1>4, <1>5, <1>6, <1>7, <1>8, <1>9, <1>10, <1>11, <1>12,
     <1>13, <1>14, <1>15 DEF Next, Receive

\* Initially, and so always, the types are right.
LEMMA TypeInvariant == Spec => []TypeInv
<1>1. Init => TypeInv
  BY DEF Init, TypeInv, TypeOK, GatewayKnown
<1> QED BY <1>1, TypeStep, PTL DEF Spec

\* Every message, table and flag of every node, base station and service has
\* its type in every reachable state: a beacon carries a base station as its
\* destination once it is relayed, a reply comes from one and is for a device.
THEOREM TypeCorrect == Spec => []TypeOK
BY TypeInvariant, PTL DEF TypeInv
-----------------------------------------------------------------------------
(* What a step can do to states, addresses, routes and the air.  The proofs  *)
(* of the invariants below need no more of Next than this.                   *)

\* A node has a direct route to itself noted, a relayed one where it had none,
\* or, on joining, the one to its gateway.
DirectRoute(n, x, y)  == x \in Device /\ y = x /\ y \in arp'[n]
RelayedRoute(n, x, y) == /\ x \in Device /\ local[n][x] = None
                         /\ local[y][x] # None /\ y \in arp'[n]
GatewayRoute(n, x, y) == /\ n \in Device /\ x \in Bs /\ state[n] = "unreg"
                         /\ y \in Device => state[y] # "unreg"
                         /\ y \in arp'[n]

\* A beacon that is passed on comes from a node that has a route back.
BeaconsLeaveRoutes ==
  \A f \in air : f.kind = "beacon" /\ f.dst # All => local[f.from][f.src] # None

\* A device sends a reply on only once it has joined itself.
RepliesFromJoined ==
  \A f \in air : f.kind = "reply" /\ f.from \in Device => state[f.from] # "unreg"

\* What forwarding adds to the air.
LEMMA ForwardAir ==
  ASSUME NEW n, NEW kind, NEW src, NEW dst, Forward(n, kind, src, dst)
  PROVE  \A f \in air' : f \notin air =>
           f.kind = kind /\ f.from = n /\ f.src = src /\ f.dst = dst
BY DEF Forward

\* Passing a beacon on adds a relayed beacon of the same source, from n.
LEMMA PassBeaconAir ==
  ASSUME NEW n, NEW src, NEW dst, PassBeacon(n, src, dst)
  PROVE  \A f \in air' : f \notin air => f.kind = "beacon" /\ f.from = n /\ f.src = src
BY ForwardAir DEF PassBeacon

\* No step takes a node back to the unregistered state, nor an address out of
\* a table.
LEMMA GrowStep ==
  TypeInv /\ [Next]_vars =>
    /\ \A n \in Node : state[n] # "unreg" => state'[n] # "unreg"
    /\ \A n \in Node : arp[n] \subseteq arp'[n]
<1> SUFFICES ASSUME TypeInv, [Next]_vars
             PROVE  /\ \A n \in Node : state[n] # "unreg" => state'[n] # "unreg"
                    /\ \A n \in Node : arp[n] \subseteq arp'[n]
  OBVIOUS
<1> USE DEF TypeInv, TypeOK
<1>1. ASSUME NEW n \in Node, NEW k, NEW s, NEW d, Forward(n, k, s, d)
      PROVE  \A m \in Node : state[m] # "unreg" => state'[m] # "unreg"
  BY <1>1, ForwardState
<1>2. ASSUME NEW n \in Node, NEW s, NEW d, PassBeacon(n, s, d)
      PROVE  \A m \in Node : state[m] # "unreg" => state'[m] # "unreg"
  BY <1>1, <1>2 DEF PassBeacon
<1>3. ASSUME NEW n \in Node, SendBeacon(n) \/ SendBsReg(n) \/ SendReport(n)
      PROVE  state' = state \/ (\A m \in Node : state[m] # "unreg" => state'[m] # "unreg")
  BY <1>1, <1>3 DEF SendBeacon, SendBsReg, SendReport, radio
<1>4. ASSUME NEW n \in Node, SendBeacon(n) \/ SendBsReg(n) \/ SendReport(n)
      PROVE  arp' = arp
  BY <1>4 DEF SendBeacon, SendBsReg, SendReport, radio
<1>5. ASSUME NEW n \in Node, NEW m \in Node, Advertise(n, m)
      PROVE  state' = state /\ \A k \in Node : arp[k] \subseteq arp'[k]
  BY <1>5 DEF Advertise
<1>6. ASSUME NEW n \in Node, NEW f \in air, HearBeacon(n, f)
      PROVE  /\ \A m \in Node : state[m] # "unreg" => state'[m] # "unreg"
             /\ \A k \in Node : arp[k] \subseteq arp'[k]
  BY <1>2, <1>6 DEF HearBeacon
<1>7. ASSUME NEW n \in Node, NEW f \in air, RelayBeacon(n, f)
      PROVE  arp' = arp /\ \A m \in Node : state[m] # "unreg" => state'[m] # "unreg"
  BY <1>2, <1>7 DEF RelayBeacon
<1>8. ASSUME NEW n \in Node, NEW f \in air, AcceptReply(n, f)
      PROVE  arp' = arp /\ \A m \in Node : state[m] # "unreg" => state'[m] # "unreg"
  BY <1>8 DEF AcceptReply
<1>9. ASSUME NEW n \in Node, NEW f \in air, RelayReply(n, f) \/ RelayReport(n, f)
      PROVE  arp' = arp /\ \A m \in Node : state[m] # "unreg" => state'[m] # "unreg"
  BY <1>1, <1>9 DEF RelayReply, RelayReport
<1>10. ASSUME NEW r \in fromVtsd, TakeReply(r)
       PROVE  arp' = arp /\ \A m \in Node : state[m] # "unreg" => state'[m] # "unreg"
  <2>1. r.bs \in Node
    BY DEF Reply, Node
  <2> QED BY <1>1, <1>10, <2>1 DEF TakeReply
<1>11. ASSUME \/ \E r \in toVtsd : Register(r)
              \/ MonitorTick
              \/ \E f \in air : Lose(f)
              \/ UNCHANGED vars
       PROVE  state' = state /\ arp' = arp
  BY <1>11 DEF Register, MonitorTick, Lose, vars, radio
<1>12. ASSUME NEW n \in Node, ReceiveForeign(n)
       PROVE  arp' = arp /\ \A m \in Node : state[m] # "unreg" => state'[m] # "unreg"
  BY <1>12 DEF ReceiveForeign
<1> QED
  BY <1>3, <1>4, <1>5, <1>6, <1>7, <1>8, <1>9, <1>10, <1>11, <1>12 DEF Next, Receive

\* A step leaves all routes alone or makes one that is direct, relayed or to
\* a gateway.
RouteStep ==
  \/ local' = local
  \/ \E n, x, y \in Node :
       /\ local' = [local EXCEPT ![n][x] = y]
       /\ DirectRoute(n, x, y) \/ RelayedRoute(n, x, y) \/ GatewayRoute(n, x, y)

\* Every step is of that form, for the only handlers that note routes are those
\* of beacons and replies.
LEMMA RouteStepHolds ==
  TypeInv /\ BeaconsLeaveRoutes /\ RepliesFromJoined /\ [Next]_vars => RouteStep
<1> SUFFICES ASSUME TypeInv, BeaconsLeaveRoutes, RepliesFromJoined, [Next]_vars
             PROVE  RouteStep
  OBVIOUS
<1> USE DEF TypeInv
<1>1. ASSUME NEW n \in Node, NEW f \in air, HearBeacon(n, f) PROVE RouteStep
  <2>1. f \in Frame /\ f.src \in Device /\ f.src \in Node
    BY <1>1, FrameFields DEF HearBeacon, Receives, TypeOK, Node
  <2>2. f.src \in arp'[n]
    BY <1>1 DEF HearBeacon, TypeOK
  <2> QED BY <1>1, <2>1, <2>2 DEF HearBeacon, AddRoute, RouteStep, DirectRoute
<1>2. ASSUME NEW n \in Node, NEW f \in air, RelayBeacon(n, f) PROVE RouteStep
  <2>1. /\ f \in Frame /\ f.src \in Device /\ f.src \in Node /\ f.from \in Node
        /\ f.kind = "beacon" /\ f.dst # All
    BY <1>2, FrameFields DEF RelayBeacon, Receives, TypeOK, Node
  <2>2. local[f.from][f.src] # None
    BY <2>1 DEF BeaconsLeaveRoutes
  <2> QED BY <1>2, <2>1, <2>2 DEF RelayBeacon, AddRoute, RouteStep, RelayedRoute
<1>3. ASSUME NEW n \in Node, NEW f \in air, AcceptReply(n, f) PROVE RouteStep
  <2>1. /\ f \in Frame /\ f.src \in Bs /\ f.src \in Node /\ f.from \in Node
        /\ f.kind = "reply"
    BY <1>3, FrameFields DEF AcceptReply, Receives, TypeOK, Node
  <2>2. f.from \in Device => state[f.from] # "unreg"
    BY <2>1 DEF RepliesFromJoined
  <2> QED BY <1>3, <2>1, <2>2 DEF AcceptReply, RouteStep, GatewayRoute
<1>4. ASSUME NEW n \in Node,
             \/ SendBeacon(n) \/ SendBsReg(n) \/ SendReport(n)
             \/ \E m \in Node : Advertise(n, m)
             \/ ReceiveForeign(n)
             \/ \E f \in air : RelayReply(n, f) \/ RelayReport(n, f)
      PROVE  local' = local
  BY <1>4 DEF SendBeacon, SendBsReg, SendReport, Advertise, ReceiveForeign, RelayReply, RelayReport, radio
<1>5. ASSUME \/ \E r \in toVtsd : Register(r)
             \/ \E r \in fromVtsd : TakeReply(r)
             \/ MonitorTick
             \/ \E f \in air : Lose(f)
             \/ UNCHANGED vars
      PROVE  local' = local
  BY <1>5 DEF Register, TakeReply, MonitorTick, Lose, vars, radio
<1> QED BY <1>1, <1>2, <1>3, <1>4, <1>5 DEF Next, Receive, RouteStep

\* No step removes a route.
LEMMA RoutesStay ==
  ASSUME TypeOK, RouteStep, NEW n \in Node, NEW x \in Node, local[n][x] # None
  PROVE  local'[n][x] # None
BY NodeAssumption DEF RouteStep, TypeOK

\* What a step adds to the air: beacons that are passed on, by nodes that have
\* by then a route back, and replies from nodes that have joined.
LEMMA AirStep ==
  ASSUME TypeInv, BeaconsLeaveRoutes, RepliesFromJoined, [Next]_vars,
         NEW f \in air', f \notin air
  PROVE  /\ f.kind = "beacon" /\ f.dst # All => local'[f.from][f.src] # None
         /\ f.kind = "reply" /\ f.from \in Device => state[f.from] # "unreg"
<1> DEFINE Claim ==
      /\ f.kind = "beacon" /\ f.dst # All => local'[f.from][f.src] # None
      /\ f.kind = "reply" /\ f.from \in Device => state[f.from] # "unreg"
<1> USE DEF TypeInv
<1>1. ASSUME NEW n \in Node, SendBeacon(n) PROVE Claim
  <2>1. f = [kind |-> "beacon", from |-> n, to |-> All, src |-> n, dst |-> All]
    BY <1>1 DEF SendBeacon
  <2> QED BY <2>1
<1>2. ASSUME NEW n \in Node, SendReport(n) PROVE Claim
  <2>1. f.kind = "report"
    BY <1>2, ForwardAir DEF SendReport
  <2> QED BY <2>1
<1>3. ASSUME NEW n \in Node, NEW g \in air, HearBeacon(n, g) PROVE Claim
  <2>1. f.kind = "beacon" /\ f.from = n /\ f.src = g.src
    BY <1>3, PassBeaconAir DEF HearBeacon
  <2>2. g.src \in Node
    BY <1>3, FrameFields DEF HearBeacon, Receives, TypeOK, Node
  <2>3. local'[n][g.src] # None
    BY <1>3, <2>2, NodeAssumption DEF HearBeacon, AddRoute, TypeOK
  <2> QED BY <2>1, <2>3
<1>4. ASSUME NEW n \in Node, NEW g \in air, RelayBeacon(n, g) PROVE Claim
  <2>1. g.src \in Node /\ g.from \in Node
    BY <1>4, FrameFields DEF RelayBeacon, Receives, TypeOK, Node
  <2>2. AddRoute(n, g.src, g.from) /\ PassBeacon(n, g.src, g.dst)
    BY <1>4 DEF RelayBeacon
  <2>3. f.kind = "beacon" /\ f.from = n /\ f.src = g.src
    BY <2>2, PassBeaconAir
  <2>4. local'[n][g.src] # None
    BY <2>1, <2>2, NodeAssumption DEF AddRoute, TypeOK
  <2> QED BY <2>3, <2>4
<1>5. ASSUME NEW n \in Node, NEW g \in air, RelayReply(n, g) PROVE Claim
  <2>1. f.kind = "reply" /\ f.from = n
    BY <1>5, ForwardAir DEF RelayReply
  <2> QED BY <1>5, <2>1 DEF RelayReply, Connected
<1>6. ASSUME NEW n \in Node, NEW g \in air, RelayReport(n, g) PROVE Claim
  <2>1. f.kind = "report"
    BY <1>6, ForwardAir DEF RelayReport
  <2> QED BY <2>1
<1>7. ASSUME NEW r \in fromVtsd, TakeReply(r) PROVE Claim
  <2>1. f.kind = "reply" /\ f.from = r.bs
    BY <1>7, ForwardAir DEF TakeReply
  <2>2. r.bs \notin Device
    BY NodeAssumption DEF TypeOK, Reply
  <2> QED BY <2>1, <2>2
<1>8. ASSUME NEW n \in Node,
             \/ SendBsReg(n)
             \/ \E m \in Node : Advertise(n, m)
             \/ ReceiveForeign(n)
             \/ \E g \in air : AcceptReply(n, g)
      PROVE  air' = air
  BY <1>8 DEF SendBsReg, Advertise, ReceiveForeign, AcceptReply, radio
<1>9. ASSUME \/ \E r \in toVtsd : Register(r)
             \/ MonitorTick
             \/ UNCHANGED vars
      PROVE  air' = air
  BY <1>9 DEF Register, MonitorTick, vars, radio
<1>10. ASSUME NEW g \in air, Lose(g) PROVE air' \subseteq air
  BY <1>10 DEF Lose
<1> QED
  BY <1>1, <1>2, <1>3, <1>4, <1>5, <1>6, <1>7, <1>8, <1>9, <1>10 DEF Next, Receive

\* The air and the routes agree.
AirInv == TypeInv /\ BeaconsLeaveRoutes /\ RepliesFromJoined

\* And so they do in every reachable state.
LEMMA AirInvariant == Spec => []AirInv
<1>1. Init => AirInv
  BY DEF Init, AirInv, TypeInv, TypeOK, GatewayKnown, BeaconsLeaveRoutes, RepliesFromJoined
<1>2. AirInv /\ [Next]_vars => AirInv'
  <2> SUFFICES ASSUME AirInv, [Next]_vars PROVE AirInv'
    OBVIOUS
  <2> USE DEF AirInv
  <2>1. TypeInv' /\ TypeOK
    BY TypeStep DEF TypeInv
  <2>2. RouteStep
    BY RouteStepHolds
  <2>3. ASSUME NEW f \in air', f.kind = "beacon", f.dst # All
        PROVE  local'[f.from][f.src] # None
    <3>1. CASE f \in air
      <4>1. f.from \in Node /\ f.src \in Node
        BY <2>1, <2>3, <3>1, FrameFields DEF TypeOK, Node
      <4> QED BY <2>1, <2>2, <2>3, <3>1, <4>1, RoutesStay DEF BeaconsLeaveRoutes
    <3>2. CASE f \notin air
      BY <2>3, <3>2, AirStep
    <3> QED BY <3>1, <3>2
  <2>4. ASSUME NEW f \in air', f.kind = "reply", f.from \in Device
        PROVE  state'[f.from] # "unreg"
    <3>1. state[f.from] # "unreg"
      BY <2>4, AirStep DEF RepliesFromJoined
    <3> QED BY <2>4, <3>1, GrowStep DEF Node
  <2> QED BY <2>1, <2>3, <2>4 DEF BeaconsLeaveRoutes, RepliesFromJoined
<1> QED BY <1>1, <1>2, PTL DEF Spec
-----------------------------------------------------------------------------
(* Routes                                                                   *)

\* The next hop of a route has an address.
RoutesHaveAddress == \A n, x \in Node : local[n][x] # None => local[n][x] \in arp[n]

\* The devices on the way to a gateway have joined.
GatewayRoutesJoined ==
  \A n \in Node, b \in Bs : local[n][b] \in Device => state[local[n][b]] # "unreg"

\* A step keeps RoutesContinue: a relayed route leads to a node that has one.
LEMMA ContinueStep ==
  ASSUME TypeOK, RouteStep, RoutesContinue
  PROVE  RoutesContinue'
<1> SUFFICES ASSUME NEW n \in Node, NEW d \in Device, local'[n][d] \notin {None, d}
             PROVE  local'[local'[n][d]][d] # None
  BY DEF RoutesContinue
<1>1. d \in Node /\ d \notin Bs
  BY NodeAssumption DEF Node
<1>2. CASE local'[n][d] = local[n][d]
  <2>1. local[n][d] \in Node
    BY <1>1, <1>2 DEF TypeOK
  <2> QED BY <1>1, <1>2, <2>1, RoutesStay DEF RoutesContinue
<1>3. CASE local'[n][d] # local[n][d]
  <2>1. PICK m, x, y \in Node :
          /\ local' = [local EXCEPT ![m][x] = y]
          /\ DirectRoute(m, x, y) \/ RelayedRoute(m, x, y) \/ GatewayRoute(m, x, y)
    BY <1>3 DEF RouteStep
  <2>2. m = n /\ x = d /\ local'[n][d] = y
    BY <1>1, <1>3, <2>1 DEF TypeOK
  <2>3. RelayedRoute(n, d, y)
    BY <1>1, <2>1, <2>2 DEF DirectRoute, GatewayRoute
  <2> QED BY <1>1, <2>2, <2>3, RoutesStay DEF RelayedRoute
<1> QED BY <1>2, <1>3

\* A step keeps RoutesHaveAddress: a route is noted with the address.
LEMMA AddressStep ==
  ASSUME TypeOK, RouteStep, RoutesHaveAddress,
         \A n \in Node : arp[n] \subseteq arp'[n]
  PROVE  RoutesHaveAddress'
<1> SUFFICES ASSUME NEW n \in Node, NEW x \in Node, local'[n][x] # None
             PROVE  local'[n][x] \in arp'[n]
  BY DEF RoutesHaveAddress
<1>1. CASE local'[n][x] = local[n][x]
  BY <1>1 DEF RoutesHaveAddress
<1>2. CASE local'[n][x] # local[n][x]
  <2>1. PICK m, z, y \in Node :
          /\ local' = [local EXCEPT ![m][z] = y]
          /\ DirectRoute(m, z, y) \/ RelayedRoute(m, z, y) \/ GatewayRoute(m, z, y)
    BY <1>2 DEF RouteStep
  <2>2. m = n /\ z = x /\ local'[n][x] = y
    BY <1>2, <2>1 DEF TypeOK
  <2> QED BY <2>1, <2>2 DEF DirectRoute, RelayedRoute, GatewayRoute
<1> QED BY <1>1, <1>2

\* A step keeps GatewayRoutesJoined.
LEMMA JoinedStep ==
  ASSUME TypeOK, RouteStep, GatewayRoutesJoined,
         \A n \in Node : state[n] # "unreg" => state'[n] # "unreg"
  PROVE  GatewayRoutesJoined'
<1> SUFFICES ASSUME NEW n \in Node, NEW b \in Bs, local'[n][b] \in Device
             PROVE  state[local'[n][b]] # "unreg"
  BY DEF GatewayRoutesJoined, Node
<1>1. b \in Node /\ b \notin Device
  BY NodeAssumption DEF Node
<1>2. CASE local'[n][b] = local[n][b]
  BY <1>2 DEF GatewayRoutesJoined
<1>3. CASE local'[n][b] # local[n][b]
  <2>1. PICK m, x, y \in Node :
          /\ local' = [local EXCEPT ![m][x] = y]
          /\ DirectRoute(m, x, y) \/ RelayedRoute(m, x, y) \/ GatewayRoute(m, x, y)
    BY <1>3 DEF RouteStep
  <2>2. m = n /\ x = b /\ local'[n][b] = y
    BY <1>1, <1>3, <2>1 DEF TypeOK
  <2> QED BY <1>1, <2>1, <2>2 DEF DirectRoute, RelayedRoute, GatewayRoute
<1> QED BY <1>2, <1>3

\* A step closes no circle: if it did, then without the node whose route is
\* new there was one before, for no node of it routed over that node.
LEMMA LoopStep ==
  ASSUME TypeOK, RouteStep, RoutesContinue, GatewayRoutesJoined, NoForwardingLoop
  PROVE  NoForwardingLoop'
<1> SUFFICES ASSUME NEW x \in Node, NEW S \in SUBSET Node, S # {},
                    \A n \in S : local'[n][x] \in S /\ local'[n][x] # x
             PROVE  FALSE
  BY DEF NoForwardingLoop
<1>1. CASE \A n \in S : local'[n][x] = local[n][x]
  BY <1>1 DEF NoForwardingLoop
<1>2. CASE \E n \in S : local'[n][x] # local[n][x]
  <2>1. PICK n, z, y \in Node :
          /\ local' = [local EXCEPT ![n][z] = y]
          /\ DirectRoute(n, z, y) \/ RelayedRoute(n, z, y) \/ GatewayRoute(n, z, y)
    BY <1>2 DEF RouteStep
  <2>2. z = x /\ n \in S /\ local'[n][x] = y /\ \A m \in S \ {n} : local'[m][x] = local[m][x]
    BY <1>2, <2>1 DEF TypeOK
  <2>3. y # n /\ \A m \in S \ {n} : local[m][x] # n
    <3>1. CASE DirectRoute(n, x, y)
      BY <2>2, <3>1 DEF DirectRoute
    <3>2. CASE RelayedRoute(n, x, y)
      BY <2>2, <3>2, NodeAssumption DEF RelayedRoute, RoutesContinue
    <3>3. CASE GatewayRoute(n, x, y)
      BY <2>2, <3>3 DEF GatewayRoute, GatewayRoutesJoined
    <3> QED BY <2>1, <2>2, <3>1, <3>2, <3>3
  <2>4. /\ S \ {n} # {} /\ S \ {n} \in SUBSET Node
        /\ \A m \in S \ {n} : local[m][x] \in S \ {n} /\ local[m][x] # x
    BY <2>2, <2>3
  <2> QED BY <2>4 DEF NoForwardingLoop
<1> QED BY <1>1, <1>2

\* The inductive invariant of the routes.
RouteInv ==
  /\ AirInv
  /\ RoutesContinue
  /\ RoutesHaveAddress
  /\ GatewayRoutesJoined
  /\ NoForwardingLoop

\* It holds of every reachable state.
LEMMA RouteInvariant == Spec => []RouteInv
<1>1. Init /\ AirInv => RouteInv
  BY NodeAssumption DEF Init, RouteInv, RoutesContinue, RoutesHaveAddress,
     GatewayRoutesJoined, NoForwardingLoop, Node
<1>2. RouteInv /\ AirInv' /\ [Next]_vars => RouteInv'
  <2> SUFFICES ASSUME RouteInv, AirInv', [Next]_vars PROVE RouteInv'
    OBVIOUS
  <2>1. TypeOK /\ RouteStep
    BY RouteStepHolds DEF RouteInv, AirInv, TypeInv
  <2>2. /\ \A n \in Node : state[n] # "unreg" => state'[n] # "unreg"
        /\ \A n \in Node : arp[n] \subseteq arp'[n]
    BY GrowStep DEF RouteInv, AirInv
  <2> QED
    BY <2>1, <2>2, ContinueStep, AddressStep, JoinedStep, LoopStep DEF RouteInv
<1> QED BY <1>1, <1>2, AirInvariant, PTL DEF Spec

\* Whatever the network, however frames are lost, delayed, repeated and
\* overheard: next hops never go round in a circle.
THEOREM RoutesAreLoopFree == Spec => []NoForwardingLoop
BY RouteInvariant, PTL DEF RouteInv

\* A route to a device, followed hop by hop, never ends before the device.
THEOREM RoutesLeadOn == Spec => []RoutesContinue
BY RouteInvariant, PTL DEF RouteInv
-----------------------------------------------------------------------------
(* The ARP table's mutex                                                    *)

\* If every next hop has an address, forwarding unlocks the table again.
LEMMA ForwardUnlocks ==
  ASSUME NEW n \in Node, NEW kind, NEW src, NEW dst, Forward(n, kind, src, dst),
         local'[n][dst] # None => local'[n][dst] \in arp'[n]
  PROVE  leaked' = leaked
BY DEF Forward

\* The frames and replies a handler forwards carry a node as destination.
LEMMA PassBeaconUnlocks ==
  ASSUME NEW n \in Node, NEW src, NEW dst \in Node, PassBeacon(n, src, dst),
         RoutesHaveAddress'
  PROVE  leaked' = leaked
BY ForwardUnlocks DEF PassBeacon, RoutesHaveAddress

\* A step taken while every route has an address leaks no lock.
LEMMA LeakStep ==
  ASSUME TypeInv, RoutesHaveAddress', [Next]_vars
  PROVE  leaked' = leaked
<1> USE DEF TypeInv
<1>1. ASSUME NEW n \in Node, NEW k, NEW s, NEW d \in Node, Forward(n, k, s, d)
      PROVE  leaked' = leaked
  BY <1>1, ForwardUnlocks DEF RoutesHaveAddress
<1>2. ASSUME NEW n \in Node, SendReport(n) PROVE leaked' = leaked
  <2>1. gw[n] \in Node
    BY <1>2 DEF SendReport, Connected, GatewayKnown, Node
  <2> QED BY <1>1, <1>2, <2>1 DEF SendReport
<1>3. ASSUME NEW n \in Node, NEW f \in air, HearBeacon(n, f) PROVE leaked' = leaked
  <2>1. gw[n] \in Node
    BY <1>3 DEF HearBeacon, Connected, GatewayKnown, Node
  <2> QED BY <1>3, <2>1, PassBeaconUnlocks DEF HearBeacon
<1>4. ASSUME NEW n \in Node, NEW f \in air, RelayBeacon(n, f) PROVE leaked' = leaked
  <2>1. f.dst \in Node
    BY <1>4, FrameFields DEF RelayBeacon, Receives, TypeOK, Node
  <2> QED BY <1>4, <2>1, PassBeaconUnlocks DEF RelayBeacon
<1>5. ASSUME NEW n \in Node, NEW f \in air, RelayReply(n, f) PROVE leaked' = leaked
  <2>1. f.dst \in Node
    BY <1>5, FrameFields DEF RelayReply, Receives, TypeOK, Node
  <2> QED BY <1>1, <1>5, <2>1 DEF RelayReply
<1>6. ASSUME NEW n \in Node, NEW f \in air, RelayReport(n, f) PROVE leaked' = leaked
  <2>1. f.dst \in Node
    BY <1>6, FrameFields DEF RelayReport, Receives, TypeOK, Node
  <2> QED BY <1>1, <1>6, <2>1 DEF RelayReport
<1>7. ASSUME NEW r \in fromVtsd, TakeReply(r) PROVE leaked' = leaked
  <2>1. r.bs \in Node /\ r.dst \in Node
    BY DEF TypeOK, Reply, Node
  <2> QED BY <1>1, <1>7, <2>1 DEF TakeReply
<1>8. ASSUME NEW n \in Node,
             \/ SendBeacon(n) \/ SendBsReg(n)
             \/ \E m \in Node : Advertise(n, m)
             \/ ReceiveForeign(n)
             \/ \E f \in air : AcceptReply(n, f)
      PROVE  leaked' = leaked
  BY <1>8 DEF SendBeacon, SendBsReg, Advertise, ReceiveForeign, AcceptReply, radio
<1>9. ASSUME \/ \E r \in toVtsd : Register(r)
             \/ MonitorTick
             \/ \E f \in air : Lose(f)
             \/ UNCHANGED vars
      PROVE  leaked' = leaked
  BY <1>9 DEF Register, MonitorTick, Lose, vars, radio
<1> QED
  BY <1>2, <1>3, <1>4, <1>5, <1>6, <1>7, <1>8, <1>9 DEF Next, Receive

\* nso_layer_fwd returns without unlocking the ARP table when the next hop has
\* no address (nso.c:339-342); no execution gets there.
THEOREM ArpTableIsUnlocked == Spec => []NoLeakedLock
<1>1. Init => NoLeakedLock
  BY DEF Init, NoLeakedLock
<1>2. NoLeakedLock /\ RouteInv /\ RouteInv' /\ [Next]_vars => NoLeakedLock'
  BY LeakStep DEF NoLeakedLock, RouteInv, AirInv
<1> QED BY <1>1, <1>2, RouteInvariant, PTL DEF Spec
-----------------------------------------------------------------------------
(* Connected nodes                                                          *)

\* Replies on the connections and in the air are for nodes vTSD has accepted,
\* and a connected device has a route to the gateway it knows.
RepliesApproved ==
  /\ \A r \in fromVtsd : r.dst \in approved
  /\ \A f \in air : f.kind = "reply" => f.dst \in approved

\* vTSD never takes an acceptance back.
LEMMA ApprovedGrows ==
  ASSUME [Next]_vars
  PROVE  approved \subseteq approved'
<1>1. ASSUME NEW n, NEW s, NEW d, PassBeacon(n, s, d) PROVE approved' = approved
  BY <1>1 DEF PassBeacon, core
<1>2. ASSUME NEW n \in Node,
             \/ SendBeacon(n) \/ SendBsReg(n) \/ SendReport(n)
             \/ \E m \in Node : Advertise(n, m)
             \/ ReceiveForeign(n)
             \/ \E f \in air : AcceptReply(n, f) \/ RelayReply(n, f) \/ RelayReport(n, f)
      PROVE  approved' = approved
  BY <1>2 DEF SendBeacon, SendBsReg, SendReport, HearReport, Advertise, ReceiveForeign, AcceptReply,
              RelayReply, RelayReport, core
<1>3. ASSUME NEW n \in Node, NEW f \in air, HearBeacon(n, f) \/ RelayBeacon(n, f)
      PROVE  approved' = approved
  BY <1>1, <1>3 DEF HearBeacon, RelayBeacon, core
<1>4. ASSUME \/ \E r \in toVtsd : Register(r)
             \/ \E r \in fromVtsd : TakeReply(r)
             \/ MonitorTick
             \/ \E f \in air : Lose(f)
             \/ UNCHANGED vars
      PROVE  approved \subseteq approved'
  BY <1>4 DEF Register, TakeReply, MonitorTick, Lose, vars, core
<1> QED BY <1>2, <1>3, <1>4 DEF Next, Receive

\* A step adds no reply that is not for an accepted node: vTSD sends one on
\* accepting, everybody else passes on what came.
LEMMA RepliesStep == TypeInv /\ RepliesApproved /\ [Next]_vars => RepliesApproved'
<1> SUFFICES ASSUME TypeInv, RepliesApproved, [Next]_vars PROVE RepliesApproved'
  OBVIOUS
<1>0. approved \subseteq approved'
  BY ApprovedGrows
<1> DEFINE Same == fromVtsd' \subseteq fromVtsd /\ air' \subseteq air
<1>1. ASSUME Same PROVE RepliesApproved'
  BY <1>0, <1>1 DEF RepliesApproved
<1>2. ASSUME fromVtsd' = fromVtsd,
             \A f \in air' : f \notin air => f.kind # "reply"
      PROVE  RepliesApproved'
  BY <1>0, <1>2 DEF RepliesApproved
<1>3. ASSUME NEW n \in Node, SendBeacon(n) \/ SendReport(n) PROVE RepliesApproved'
  <2>1. fromVtsd' = fromVtsd
    BY <1>3 DEF SendBeacon, SendReport, HearReport, core
  <2>2. \A f \in air' : f \notin air => f.kind # "reply"
    BY <1>3, ForwardAir DEF SendBeacon, SendReport
  <2> QED BY <1>2, <2>1, <2>2
<1>4. ASSUME NEW n \in Node, NEW f \in air, HearBeacon(n, f) \/ RelayBeacon(n, f)
      PROVE  RepliesApproved'
  <2>1. CASE \E s, d : PassBeacon(n, s, d)
    <3>1. fromVtsd' = fromVtsd
      BY <2>1 DEF PassBeacon, core
    <3> QED BY <1>2, <2>1, <3>1, PassBeaconAir
  <2>2. CASE UNCHANGED <<air, core>>
    BY <1>1, <2>2 DEF core
  <2> QED BY <1>4, <2>1, <2>2 DEF HearBeacon, RelayBeacon
<1>5. ASSUME NEW n \in Node, NEW f \in air, RelayReply(n, f) PROVE RepliesApproved'
  <2>1. fromVtsd' = fromVtsd /\ f.dst \in approved
    BY <1>5 DEF RelayReply, Receives, core, RepliesApproved
  <2>2. \A g \in air' : g \notin air => g.dst = f.dst
    BY <1>5, ForwardAir DEF RelayReply
  <2> QED BY <1>0, <2>1, <2>2 DEF RepliesApproved
<1>6. ASSUME NEW n \in Node, NEW f \in air, RelayReport(n, f) PROVE RepliesApproved'
  <2>1. fromVtsd' = fromVtsd
    BY <1>6 DEF RelayReport, HearReport, core
  <2>2. \A g \in air' : g \notin air => g.kind # "reply"
    BY <1>6, ForwardAir DEF RelayReport
  <2> QED BY <1>2, <2>1, <2>2
<1>7. ASSUME NEW r \in toVtsd, Register(r) PROVE RepliesApproved'
  BY <1>0, <1>7 DEF Register, radio, RepliesApproved
<1>8. ASSUME NEW r \in fromVtsd, TakeReply(r) PROVE RepliesApproved'
  <2>1. fromVtsd' \subseteq fromVtsd /\ r.dst \in approved
    BY <1>8 DEF TakeReply, RepliesApproved
  <2>2. \A g \in air' : g \notin air => g.dst = r.dst
    BY <1>8, ForwardAir DEF TakeReply
  <2> QED BY <1>0, <2>1, <2>2 DEF RepliesApproved
<1>9. ASSUME NEW n \in Node,
             \/ SendBsReg(n)
             \/ \E m \in Node : Advertise(n, m)
             \/ ReceiveForeign(n)
             \/ \E f \in air : AcceptReply(n, f)
      PROVE  Same
  BY <1>9 DEF SendBsReg, Advertise, ReceiveForeign, AcceptReply, radio, core
<1>10. ASSUME MonitorTick \/ (\E f \in air : Lose(f)) \/ UNCHANGED vars PROVE Same
  BY <1>10 DEF MonitorTick, Lose, vars, radio, core
<1> QED
  BY <1>1, <1>3, <1>4, <1>5, <1>6, <1>7, <1>8, <1>9, <1>10 DEF Next, Receive

\* A node becomes connected, and its gateway is set, on a reply for it.
LEMMA ConnectStep ==
  ASSUME TypeInv, RepliesApproved, [Next]_vars,
         NEW n \in Node, state'[n] = "connected"
  PROVE  \/ state[n] = "connected" /\ gw'[n] = gw[n]
         \/ n \in approved /\ (n \in Device => local'[n][gw'[n]] # None)
<1> DEFINE Claim ==
      \/ state[n] = "connected" /\ gw'[n] = gw[n]
      \/ n \in approved /\ (n \in Device => local'[n][gw'[n]] # None)
<1> USE DEF TypeInv
<1>1. ASSUME gw' = gw, \A m \in Node : state'[m] \in {state[m], "dead"} PROVE Claim
  BY <1>1
<1>2. ASSUME gw' = gw, state' = state PROVE Claim
  BY <1>2
<1>3. ASSUME NEW m \in Node, NEW k, NEW s, NEW d, gw' = gw, Forward(m, k, s, d) PROVE Claim
  BY <1>1, <1>3, ForwardState
<1>4. ASSUME NEW m \in Node, NEW s, NEW d, gw' = gw, PassBeacon(m, s, d) PROVE Claim
  BY <1>2, <1>3, <1>4 DEF PassBeacon
<1>5. ASSUME NEW m \in Node, SendBeacon(m) \/ SendBsReg(m) PROVE Claim
  BY <1>2, <1>5 DEF SendBeacon, SendBsReg, radio
<1>6. ASSUME NEW m \in Node, SendReport(m) PROVE Claim
  BY <1>2, <1>3, <1>6 DEF SendReport
<1>7. ASSUME NEW m \in Node, NEW f \in air, HearBeacon(m, f) PROVE Claim
  BY <1>4, <1>7 DEF HearBeacon
<1>8. ASSUME NEW m \in Node, NEW f \in air, RelayBeacon(m, f) PROVE Claim
  <2>1. CASE state' = [state EXCEPT ![m] = "dead"]
    BY <1>1, <1>8, <2>1 DEF RelayBeacon, TypeOK
  <2>2. CASE PassBeacon(m, f.src, f.dst)
    BY <1>4, <1>8, <2>2 DEF RelayBeacon
  <2> QED BY <1>8, <2>1, <2>2 DEF RelayBeacon
<1>9. ASSUME NEW m \in Node, NEW f \in air, AcceptReply(m, f) PROVE Claim
  <2>1. CASE f.from \in arp[m]
    <3>1. /\ f.dst = m /\ f.kind = "reply" /\ f.src \in Node
          /\ f.from \in Node /\ f.from # None
      BY <1>9, FrameFields, NodeAssumption DEF AcceptReply, Receives, TypeOK, Node
    <3>2. /\ local' = [local EXCEPT ![m][f.src] = f.from]
          /\ gw' = [gw EXCEPT ![m] = f.src]
          /\ state' = [state EXCEPT ![m] = "connected"]
      BY <1>9, <2>1 DEF AcceptReply
    <3>3. m \in approved
      BY <3>1 DEF RepliesApproved
    <3>4. CASE n = m
      <4>1. gw'[n] = f.src /\ local'[n][f.src] = f.from
        BY <3>1, <3>2, <3>4 DEF TypeOK
      <4> QED BY <3>1, <3>3, <3>4, <4>1
    <3>5. CASE n # m
      BY <3>2, <3>5 DEF TypeOK
    <3> QED BY <3>4, <3>5
  <2>2. CASE f.from \notin arp[m]
    BY <1>1, <1>9, <2>2 DEF AcceptReply, TypeOK
  <2> QED BY <2>1, <2>2
<1>10. ASSUME NEW m \in Node, NEW f \in air, RelayReply(m, f) \/ RelayReport(m, f) PROVE Claim
  BY <1>2, <1>3, <1>10 DEF RelayReply, RelayReport
<1>11. ASSUME NEW r \in fromVtsd, TakeReply(r) PROVE Claim
  <2>1. r.bs \in Node /\ r.bs \notin Device
    BY NodeAssumption DEF TypeOK, Reply, Node
  <2>2. CASE r.dst = r.bs
    <3>1. r.bs \in approved
      BY <2>2 DEF RepliesApproved
    <3> QED BY <1>2, <1>11, <2>1, <2>2, <3>1 DEF TakeReply, TypeOK
  <2>3. CASE r.dst # r.bs
    BY <1>3, <1>11, <2>1, <2>3 DEF TakeReply
  <2> QED BY <2>2, <2>3
<1>12. ASSUME \/ \E m, k \in Node : Advertise(m, k)
              \/ \E r \in toVtsd : Register(r)
              \/ MonitorTick
              \/ \E f \in air : Lose(f)
              \/ UNCHANGED vars
       PROVE  Claim
  BY <1>2, <1>12 DEF Advertise, Register, MonitorTick, Lose, vars, radio
<1>13. ASSUME NEW m \in Node, ReceiveForeign(m) PROVE Claim
  BY <1>1, <1>13 DEF ReceiveForeign, TypeOK
<1> QED
  BY <1>5, <1>6, <1>7, <1>8, <1>9, <1>10, <1>11, <1>12, <1>13 DEF Next, Receive

\* A connected node has been accepted by vTSD and knows its gateway; a device
\* has a route to it: on any network, whatever replies it overhears.
THEOREM ConnectedWereApproved == Spec => []ConnectedIsApproved
<1>1. Init => RepliesApproved /\ ConnectedIsApproved
  BY DEF Init, RepliesApproved, ConnectedIsApproved
<1>2. /\ RouteInv /\ RouteInv' /\ RepliesApproved /\ ConnectedIsApproved /\ [Next]_vars
      => RepliesApproved' /\ ConnectedIsApproved'
  <2> SUFFICES ASSUME RouteInv, RouteInv', RepliesApproved, ConnectedIsApproved, [Next]_vars
               PROVE  RepliesApproved' /\ ConnectedIsApproved'
    OBVIOUS
  <2>1. TypeInv /\ TypeInv' /\ TypeOK /\ RouteStep
    BY RouteStepHolds DEF RouteInv, AirInv, TypeInv
  <2>2. ASSUME NEW n \in Node, state'[n] = "connected"
        PROVE  n \in approved' /\ gw'[n] \in Bs /\ (n \in Device => local'[n][gw'[n]] # None)
    <3>1. gw'[n] \in Bs
      BY <2>1, <2>2 DEF TypeInv, GatewayKnown
    <3>2. approved \subseteq approved'
      BY ApprovedGrows
    <3>3. CASE state[n] = "connected" /\ gw'[n] = gw[n]
      <4>1. n \in approved /\ gw[n] \in Node /\ (n \in Device => local[n][gw[n]] # None)
        BY <3>3 DEF ConnectedIsApproved, Node
      <4> QED BY <2>1, <3>1, <3>2, <3>3, <4>1, RoutesStay
    <3> QED BY <2>1, <2>2, <3>1, <3>2, <3>3, ConnectStep
  <2> QED BY <2>1, <2>2, RepliesStep DEF ConnectedIsApproved
<1> QED BY <1>1, <1>2, RouteInvariant, PTL DEF Spec
-----------------------------------------------------------------------------
(* Joining, for good and into a tree                                        *)

\* A gateway is set on joining and only then; a base station's is itself.
GatewaySetOnce ==
  /\ \A n \in Node : gw[n] # None => state[n] # "unreg"
  /\ \A b \in Bs : gw[b] \in {None, b}

\* A device that has not joined knows no route to a gateway; a gateway is a base
\* station; a base station passes requests on, and whoever sends a reply does so,
\* below a gateway.
NoEarlyRoute == \A d \in Device, b \in Bs : state[d] = "unreg" => local[d][b] = None

GatewaysAreBs == \A n \in Node : gw[n] \in Bs \cup {None}

TrafficOfJoined ==
  /\ \A r \in toVtsd \cup fromVtsd : r.kind = "device" => gw[r.bs] # None
  /\ \A f \in air : f.kind = "reply" => gw[f.from] # None

JoinInv == GatewaySetOnce /\ GatewaysAreBs /\ NoEarlyRoute /\ TrafficOfJoined

\* Routes are noted by the handlers of beacons, where there was none and to a
\* device, and on joining; nothing else touches them.
LEMMA RoutesChange ==
  ASSUME TypeInv, [Next]_vars
  PROVE  \/ local' = local
         \/ \E n \in Node, x \in Device, y \in Node :
              local[n][x] = None /\ local' = [local EXCEPT ![n][x] = y]
         \/ \E n \in Node, f \in air : AcceptReply(n, f)
<1> DEFINE Claim ==
      \/ local' = local
      \/ \E n \in Node, x \in Device, y \in Node :
           local[n][x] = None /\ local' = [local EXCEPT ![n][x] = y]
      \/ \E n \in Node, f \in air : AcceptReply(n, f)
<1> USE DEF TypeInv
<1>1. ASSUME NEW n \in Node, NEW f \in air, HearBeacon(n, f) \/ RelayBeacon(n, f) PROVE Claim
  <2>1. f \in Frame /\ f.kind = "beacon"
    BY <1>1 DEF HearBeacon, RelayBeacon, Receives, TypeOK
  <2>2. f.src \in Device /\ f.src \in Node /\ f.from \in Node
    BY <2>1, FrameFields DEF Node
  <2>3. \/ local' = local
        \/ AddRoute(n, f.src, f.src)
        \/ AddRoute(n, f.src, f.from)
    BY <1>1 DEF HearBeacon, RelayBeacon
  <2> QED BY <2>2, <2>3 DEF AddRoute
<1>2. ASSUME NEW n \in Node,
             \/ SendBeacon(n) \/ SendBsReg(n) \/ SendReport(n)
             \/ \E m \in Node : Advertise(n, m)
             \/ ReceiveForeign(n)
             \/ \E f \in air : RelayReply(n, f) \/ RelayReport(n, f)
      PROVE  local' = local
  BY <1>2 DEF SendBeacon, SendBsReg, SendReport, Advertise, ReceiveForeign, RelayReply, RelayReport, radio
<1>3. ASSUME \/ \E r \in toVtsd : Register(r)
             \/ \E r \in fromVtsd : TakeReply(r)
             \/ MonitorTick
             \/ \E f \in air : Lose(f)
             \/ UNCHANGED vars
      PROVE  local' = local
  BY <1>3 DEF Register, TakeReply, MonitorTick, Lose, vars, radio
<1> QED BY <1>1, <1>2, <1>3 DEF Next, Receive

\* The accepting handler, when the sender's address is known and when it is not.
LEMMA AcceptReplyStep ==
  ASSUME TypeInv, NEW d \in Node, NEW f \in air, AcceptReply(d, f)
  PROVE  /\ d \in Device /\ f.kind = "reply" /\ f.dst = d /\ f.src \in Bs /\ f.from \in Node
         /\ state[d] = "unreg"
         /\ UNCHANGED <<air, toVtsd, fromVtsd, approved>>
         /\ \/ /\ local' = [local EXCEPT ![d][f.src] = f.from]
               /\ gw' = [gw EXCEPT ![d] = f.src]
               /\ state' = [state EXCEPT ![d] = "connected"]
            \/ UNCHANGED <<local, gw>>
<1>1. f \in Frame /\ f.kind = "reply"
  BY DEF AcceptReply, Receives, TypeInv, TypeOK
<1> QED BY <1>1, FrameFields DEF AcceptReply, core

\* Gateways are set on joining, and nothing else touches them.
LEMMA GatewaysChange ==
  ASSUME TypeInv, [Next]_vars
  PROVE  \/ gw' = gw
         \/ \E d \in Device, f \in air : AcceptReply(d, f)
         \/ \E r \in fromVtsd :
              /\ TakeReply(r)
              /\ r.bs \in Bs /\ r.src = r.bs /\ r.dst = r.bs /\ state[r.bs] = "unreg"
              /\ gw' = [gw EXCEPT ![r.bs] = r.bs]
              /\ UNCHANGED <<local, approved>>
<1> DEFINE Claim ==
      \/ gw' = gw
      \/ \E d \in Device, f \in air : AcceptReply(d, f)
      \/ \E r \in fromVtsd :
           /\ TakeReply(r)
           /\ r.bs \in Bs /\ r.src = r.bs /\ r.dst = r.bs /\ state[r.bs] = "unreg"
           /\ gw' = [gw EXCEPT ![r.bs] = r.bs]
           /\ UNCHANGED <<local, approved>>
<1>1. ASSUME NEW n \in Node, NEW f \in air, AcceptReply(n, f) PROVE Claim
  BY <1>1 DEF AcceptReply
<1>2. ASSUME NEW r \in fromVtsd, TakeReply(r) PROVE Claim
  <2>1. CASE r.dst = r.bs /\ r.kind = "bs" /\ state[r.bs] = "unreg"
    <3>1. r.bs \in Bs /\ r.src = r.bs
      BY <2>1 DEF TypeInv, TypeOK, Reply
    <3> QED BY <1>2, <2>1, <3>1 DEF TakeReply
  <2>2. CASE ~(r.dst = r.bs /\ r.kind = "bs" /\ state[r.bs] = "unreg")
    BY <1>2, <2>2 DEF TakeReply
  <2> QED BY <2>1, <2>2
<1>3. ASSUME NEW n \in Node,
             \/ SendBeacon(n) \/ SendBsReg(n) \/ SendReport(n)
             \/ \E m \in Node : Advertise(n, m)
             \/ ReceiveForeign(n)
             \/ \E f \in air : \/ HearBeacon(n, f) \/ RelayBeacon(n, f)
                               \/ RelayReply(n, f) \/ RelayReport(n, f)
      PROVE  gw' = gw
  BY <1>3 DEF SendBeacon, SendBsReg, SendReport, Advertise, ReceiveForeign, HearBeacon, RelayBeacon,
              RelayReply, RelayReport, radio
<1>4. ASSUME \/ \E r \in toVtsd : Register(r)
             \/ MonitorTick
             \/ \E f \in air : Lose(f)
             \/ UNCHANGED vars
      PROVE  gw' = gw
  BY <1>4 DEF Register, MonitorTick, Lose, vars, radio
<1> QED BY <1>1, <1>2, <1>3, <1>4 DEF Next, Receive

LEMMA GatewaySet ==
  ASSUME TypeInv, [Next]_vars
  PROVE  \/ gw' = gw
         \/ \E n \in Node, g \in Bs : state[n] = "unreg" /\ gw' = [gw EXCEPT ![n] = g]
<1>1. ASSUME NEW d \in Device, NEW f \in air, AcceptReply(d, f)
      PROVE  \/ gw' = gw
             \/ \E n \in Node, g \in Bs : state[n] = "unreg" /\ gw' = [gw EXCEPT ![n] = g]
  BY <1>1, AcceptReplyStep DEF Node
<1> QED BY <1>1, GatewaysChange DEF Node

LEMMA GatewaySetOnceStep ==
  ASSUME TypeInv, GatewaySetOnce, [Next]_vars
  PROVE  GatewaySetOnce'
<1> USE DEF TypeInv
<1>1. ASSUME gw' = gw PROVE GatewaySetOnce'
  BY <1>1, GrowStep DEF GatewaySetOnce
<1>2. ASSUME NEW d \in Device, NEW f \in air, AcceptReply(d, f) PROVE GatewaySetOnce'
  <2>1. d \in Node /\ d \notin Bs
    BY NodeAssumption DEF Node
  <2>2. CASE /\ gw' = [gw EXCEPT ![d] = f.src]
             /\ state' = [state EXCEPT ![d] = "connected"]
    BY <2>1, <2>2, NodeAssumption DEF GatewaySetOnce, TypeOK, Node
  <2> QED BY <1>1, <1>2, <2>1, <2>2, AcceptReplyStep
<1>3. ASSUME NEW r \in fromVtsd, TakeReply(r), r.bs \in Bs, r.src = r.bs, r.dst = r.bs,
             state[r.bs] = "unreg", gw' = [gw EXCEPT ![r.bs] = r.bs]
      PROVE  GatewaySetOnce'
  <2>1. r.bs \in Node
    BY <1>3 DEF Node
  <2>2. state' = [state EXCEPT ![r.bs] = "connected"]
    BY <1>3, <2>1, NodeAssumption DEF TakeReply, GatewaySetOnce, TypeOK, Node
  <2> QED BY <1>3, <2>1, <2>2 DEF GatewaySetOnce, TypeOK, Node
<1> QED BY <1>1, <1>2, <1>3, GatewaysChange

\* vTSD's list of those it has accepted grows with a registration only.
LEMMA ApprovedChanges ==
  ASSUME TypeInv, [Next]_vars
  PROVE  \/ approved' = approved
         \/ \E n \in Node : approved' = approved \cup {n} /\ UNCHANGED <<gw, local>>
<1> DEFINE Claim ==
      \/ approved' = approved
      \/ \E n \in Node : approved' = approved \cup {n} /\ UNCHANGED <<gw, local>>
<1>1. ASSUME NEW n, NEW s, NEW d, PassBeacon(n, s, d) PROVE approved' = approved
  BY <1>1 DEF PassBeacon, core
<1>2. ASSUME NEW n \in Node,
             \/ SendBeacon(n) \/ SendBsReg(n) \/ SendReport(n)
             \/ \E m \in Node : Advertise(n, m)
             \/ ReceiveForeign(n)
             \/ \E f \in air : AcceptReply(n, f) \/ RelayReply(n, f) \/ RelayReport(n, f)
      PROVE  approved' = approved
  BY <1>2 DEF SendBeacon, SendBsReg, SendReport, HearReport, Advertise, ReceiveForeign, AcceptReply,
              RelayReply, RelayReport, core
<1>3. ASSUME NEW n \in Node, NEW f \in air, HearBeacon(n, f) \/ RelayBeacon(n, f)
      PROVE  approved' = approved
  BY <1>1, <1>3 DEF HearBeacon, RelayBeacon, core
<1>4. ASSUME NEW r \in toVtsd, Register(r) PROVE Claim
  <2>1. r.src \in Node
    BY DEF TypeInv, TypeOK, Request, Node
  <2> QED BY <1>4, <2>1 DEF Register, radio
<1>5. ASSUME \/ \E r \in fromVtsd : TakeReply(r)
             \/ MonitorTick
             \/ \E f \in air : Lose(f)
             \/ UNCHANGED vars
      PROVE  approved' = approved
  BY <1>5 DEF TakeReply, MonitorTick, Lose, vars, core
<1> QED BY <1>2, <1>3, <1>4, <1>5 DEF Next, Receive

\* Requests and replies are passed on below a gateway.
LEMMA TrafficStep ==
  ASSUME TypeInv, GatewaySetOnce, TrafficOfJoined, [Next]_vars
  PROVE  TrafficOfJoined'
<1> USE DEF TypeInv
<1>0. \A n \in Node : gw[n] # None => gw'[n] # None
  BY GatewaySet DEF GatewaySetOnce, TypeOK
<1>1. ASSUME \A r \in toVtsd' : r \notin toVtsd => (r.kind = "device" => gw[r.bs] # None),
             \A r \in fromVtsd' : r \notin fromVtsd => (r.kind = "device" => gw[r.bs] # None),
             \A f \in air' : f \notin air => (f.kind = "reply" => gw[f.from] # None)
      PROVE  TrafficOfJoined'
  <2>0. toVtsd' \subseteq Request /\ fromVtsd' \subseteq Reply /\ air' \subseteq Frame
    BY TypeStep DEF TypeOK
  <2>1. ASSUME NEW r \in toVtsd' \cup fromVtsd', r.kind = "device" PROVE gw'[r.bs] # None
    <3>1. gw[r.bs] # None
      BY <1>1, <2>1 DEF TrafficOfJoined
    <3>2. r.bs \in Node
      BY <2>0, <2>1 DEF Request, Reply, Node
    <3> QED BY <1>0, <3>1, <3>2
  <2>2. ASSUME NEW f \in air', f.kind = "reply" PROVE gw'[f.from] # None
    <3>1. gw[f.from] # None
      BY <1>1, <2>2 DEF TrafficOfJoined
    <3>2. f.from \in Node
      BY <2>0, <2>2, FrameFields
    <3> QED BY <1>0, <3>1, <3>2
  <2> QED BY <2>1, <2>2 DEF TrafficOfJoined
<1>2. ASSUME NEW n, NEW s, NEW d, PassBeacon(n, s, d), gw[n] # None PROVE TrafficOfJoined'
  <2>1. /\ \A r \in toVtsd' : r \notin toVtsd => gw[r.bs] # None
        /\ fromVtsd' = fromVtsd
    BY <1>2 DEF PassBeacon, core
  <2> QED BY <1>1, <1>2, <2>1, PassBeaconAir
<1>3. ASSUME NEW n, Connected(n), n \in Node PROVE gw[n] # None
  BY <1>3, NodeAssumption DEF Connected, GatewayKnown, Node
<1>4. ASSUME NEW n \in Node, NEW f \in air, HearBeacon(n, f) \/ RelayBeacon(n, f)
      PROVE  TrafficOfJoined'
  <2>1. CASE \E s, d : PassBeacon(n, s, d)
    BY <1>2, <1>3, <1>4, <2>1 DEF HearBeacon, RelayBeacon
  <2>2. CASE UNCHANGED <<air, core>>
    BY <1>1, <2>2 DEF core
  <2> QED BY <1>4, <2>1, <2>2 DEF HearBeacon, RelayBeacon
<1>5. ASSUME NEW n \in Node, NEW f \in air, RelayReply(n, f) PROVE TrafficOfJoined'
  <2>1. UNCHANGED core /\ \A g \in air' : g \notin air => g.from = n
    BY <1>5, ForwardAir DEF RelayReply
  <2>2. gw[n] # None
    BY <1>3, <1>5 DEF RelayReply
  <2> QED BY <1>1, <2>1, <2>2 DEF core
<1>6. ASSUME NEW n \in Node, SendReport(n) \/ \E f \in air : RelayReport(n, f)
      PROVE  TrafficOfJoined'
  <2>1. UNCHANGED <<toVtsd, fromVtsd>> /\ \A g \in air' : g \notin air => g.kind # "reply"
    BY <1>6, ForwardAir DEF SendReport, RelayReport, HearReport, core
  <2> QED BY <1>1, <2>1
<1>7. ASSUME NEW n \in Node, SendBeacon(n) PROVE TrafficOfJoined'
  <2>1. UNCHANGED <<toVtsd, fromVtsd>> /\ \A g \in air' : g \notin air => g.kind # "reply"
    BY <1>7 DEF SendBeacon, core
  <2> QED BY <1>1, <2>1
<1>8. ASSUME NEW n \in Node, SendBsReg(n) PROVE TrafficOfJoined'
  <2>1. /\ UNCHANGED <<fromVtsd, air>>
        /\ \A r \in toVtsd' : r \notin toVtsd => r.kind # "device"
    BY <1>8 DEF SendBsReg, radio
  <2> QED BY <1>1, <2>1
<1>9. ASSUME NEW r \in toVtsd, Register(r) PROVE TrafficOfJoined'
  <2>1. /\ toVtsd' \subseteq toVtsd /\ air' = air
        /\ \A q \in fromVtsd' : q \notin fromVtsd => q.kind = r.kind /\ q.bs = r.bs
    BY <1>9 DEF Register, radio
  <2> QED BY <1>1, <2>1 DEF TrafficOfJoined
<1>10. ASSUME NEW r \in fromVtsd, TakeReply(r) PROVE TrafficOfJoined'
  <2>1. toVtsd' = toVtsd /\ fromVtsd' \subseteq fromVtsd
    BY <1>10 DEF TakeReply
  <2>2. CASE air' = air
    BY <1>1, <2>1, <2>2
  <2>3. CASE r.dst # r.bs
    <3>1. r.kind = "device"
      BY <2>3 DEF TypeOK, Reply
    <3>2. \A g \in air' : g \notin air => g.from = r.bs
      BY <1>10, ForwardAir DEF TakeReply
    <3> QED BY <1>1, <2>1, <3>1, <3>2 DEF TrafficOfJoined
  <2> QED BY <1>10, <2>2, <2>3 DEF TakeReply
<1>11. ASSUME \/ \E n, m \in Node : Advertise(n, m)
              \/ \E n \in Node : ReceiveForeign(n)
              \/ \E n \in Node, f \in air : AcceptReply(n, f)
              \/ MonitorTick
              \/ \E f \in air : Lose(f)
              \/ UNCHANGED vars
       PROVE  air' \subseteq air /\ UNCHANGED <<toVtsd, fromVtsd>>
  BY <1>11 DEF Advertise, ReceiveForeign, AcceptReply, MonitorTick, Lose, vars, radio, core
<1> QED
  BY <1>1, <1>4, <1>5, <1>6, <1>7, <1>8, <1>9, <1>10, <1>11 DEF Next, Receive

LEMMA JoinInvStep == TypeInv /\ JoinInv /\ [Next]_vars => JoinInv'
<1> SUFFICES ASSUME TypeInv, JoinInv, [Next]_vars PROVE JoinInv'
  OBVIOUS
<1> USE DEF TypeInv, JoinInv
<1>1. GatewaySetOnce'
  BY GatewaySetOnceStep
<1>2. GatewaysAreBs'
  BY GatewaySet DEF GatewaysAreBs, TypeOK
<1>3. NoEarlyRoute'
  <2> SUFFICES ASSUME NEW d \in Device, NEW b \in Bs, state'[d] = "unreg"
               PROVE  local'[d][b] = None
    BY DEF NoEarlyRoute
  <2>1. d \in Node /\ b \in Node /\ b \notin Device
    BY NodeAssumption DEF Node
  <2>2. local[d][b] = None
    BY <2>1, GrowStep DEF NoEarlyRoute
  <2>3. ASSUME NEW n \in Node, NEW f \in air, AcceptReply(n, f) PROVE local'[d][b] = None
    BY <2>1, <2>2, <2>3, AcceptReplyStep DEF TypeOK
  <2> QED BY <2>1, <2>2, <2>3, RoutesChange DEF TypeOK
<1>4. TrafficOfJoined'
  BY TrafficStep
<1> QED BY <1>1, <1>2, <1>3, <1>4

LEMMA JoinInvariant == Spec => []JoinInv
<1>1. Init => JoinInv
  BY NodeAssumption DEF Init, JoinInv, GatewaySetOnce, GatewaysAreBs, NoEarlyRoute,
     TrafficOfJoined, Node
<1> QED BY <1>1, JoinInvStep, TypeInvariant, PTL DEF Spec

\* A route noted is never changed: the only handler that replaces one, that of
\* a device's own reply, is run by a device that knows none to a gateway.
LEMMA RoutesKept ==
  ASSUME TypeInv, JoinInv, [Next]_vars,
         NEW n \in Node, NEW x \in Node, local[n][x] # None
  PROVE  local'[n][x] = local[n][x]
<1> USE DEF TypeInv, JoinInv
<1>1. ASSUME NEW d \in Node, NEW f \in air, AcceptReply(d, f) PROVE local'[n][x] = local[n][x]
  <2>1. /\ d \in Device /\ f.src \in Bs /\ f.src \in Node /\ local[d][f.src] = None
        /\ local' = local \/ local' = [local EXCEPT ![d][f.src] = f.from]
    BY <1>1, AcceptReplyStep DEF NoEarlyRoute, Node
  <2> QED BY <2>1 DEF TypeOK
<1>2. ASSUME NEW m \in Node, NEW z \in Device, NEW y \in Node,
             local[m][z] = None, local' = [local EXCEPT ![m][z] = y]
      PROVE  local'[n][x] = local[n][x]
  BY <1>2 DEF TypeOK, Node
<1> QED BY <1>1, <1>2, RoutesChange

\* What a node has joined it has joined for good: whatever is overheard, late or
\* repeated, and though its next hop has died or vSON has forgotten it, no step
\* changes the gateway of a connected node, nor any route.
THEOREM NodesJoinForGood == Spec => JoinedForGood
<1> DEFINE Kept ==
      \A n \in Node :
        /\ state[n] = "connected" => state'[n] # "unreg" /\ gw'[n] = gw[n]
        /\ \A x \in Node : local[n][x] # None => local'[n][x] = local[n][x]
<1>1. TypeInv /\ JoinInv /\ [Next]_vars => [Kept]_vars
  <2> SUFFICES ASSUME TypeInv, JoinInv, [Next]_vars, NEW n \in Node
               PROVE  /\ state[n] = "connected" => state'[n] # "unreg" /\ gw'[n] = gw[n]
                      /\ \A x \in Node : local[n][x] # None => local'[n][x] = local[n][x]
    OBVIOUS
  <2>1. ASSUME state[n] = "connected" PROVE state'[n] # "unreg" /\ gw'[n] = gw[n]
    <3>1. state'[n] # "unreg"
      BY <2>1, GrowStep
    <3> QED BY <2>1, <3>1, GatewaySet DEF TypeInv, TypeOK
  <2> QED BY <2>1, RoutesKept
<1> QED BY <1>1, TypeInvariant, JoinInvariant, PTL DEF Spec, JoinedForGood

\* There is at most one base station.
OneBaseStation == \A b, c \in Bs : b = c

\* The sender of a reply is below the base station that the reply comes from.
RepliesFromGateway == \A f \in air : f.kind = "reply" => gw[f.from] = f.src

LEMMA RepliesComeFromGateway ==
  ASSUME OneBaseStation, TypeInv, JoinInv
  PROVE  RepliesFromGateway
<1> SUFFICES ASSUME NEW f \in air, f.kind = "reply" PROVE gw[f.from] = f.src
  BY DEF RepliesFromGateway
<1>1. f.from \in Node /\ f.src \in Bs
  BY FrameFields DEF TypeInv, TypeOK
<1>2. gw[f.from] \in Bs
  BY <1>1 DEF JoinInv, TrafficOfJoined, GatewaysAreBs
<1> QED BY <1>1, <1>2 DEF OneBaseStation

\* Where no gateway is set, no device gets another parent.
LEMMA ParentsStay ==
  ASSUME TypeInv, JoinInv, [Next]_vars, NEW d \in Device, gw'[d] = gw[d]
  PROVE  ParentOf'[d] = ParentOf[d]
<1>1. d \in Node /\ gw[d] \in Bs \cup {None}
  BY DEF JoinInv, GatewaysAreBs, Node
<1>2. CASE gw[d] = None
  BY <1>2 DEF ParentOf
<1>3. CASE gw[d] \in Bs
  <2>1. gw[d] \in Node /\ gw[d] \notin Device /\ gw[d] # None /\ state[d] # "unreg"
    BY <1>1, <1>3, NodeAssumption DEF Node, JoinInv, GatewaySetOnce
  <2>2. ASSUME NEW n \in Node, NEW f \in air, AcceptReply(n, f)
        PROVE  local'[d][gw[d]] = local[d][gw[d]]
    <3>1. n # d
      BY <2>1, <2>2, AcceptReplyStep
    <3> QED BY <1>1, <2>1, <2>2, <3>1, AcceptReplyStep DEF TypeInv, TypeOK
  <2>3. local'[d][gw[d]] = local[d][gw[d]]
    BY <1>1, <2>1, <2>2, RoutesChange DEF TypeInv, TypeOK
  <2> QED BY <2>1, <2>3 DEF ParentOf
<1> QED BY <1>1, <1>2, <1>3

LEMMA JoinTreeStep ==
  ASSUME TypeInv, JoinInv, RepliesApproved, RepliesFromGateway, [Next]_vars
  PROVE  [Tree!Next]_(Tree!vars)
<1> USE DEF TypeInv, JoinInv
<1>0. \A d \in Device : d \in Node /\ d \notin Bs
  BY NodeAssumption DEF Node
<1>1. CASE gw' = gw
  <2>1. ParentOf' = ParentOf
    <3>1. \A d \in Device : ParentOf'[d] = ParentOf[d]
      BY <1>1, ParentsStay
    <3> QED BY <3>1 DEF ParentOf
  <2>2. CASE approved' = approved
    BY <1>1, <2>1, <2>2 DEF Tree!vars
  <2>3. ASSUME NEW n \in Node, approved' = approved \cup {n} PROVE Tree!Next
    <3>1. Tree!Accept(n)
      BY <1>1, <2>1, <2>3 DEF Tree!Accept
    <3> QED BY <3>1 DEF Tree!Next, Tree!Node, Node
  <2> QED BY <2>2, <2>3, ApprovedChanges
<1>2. ASSUME NEW d \in Device, NEW f \in air, AcceptReply(d, f) PROVE [Tree!Next]_(Tree!vars)
  <2>1. CASE UNCHANGED <<local, gw>>
    BY <1>1, <2>1
  <2>2. CASE /\ local' = [local EXCEPT ![d][f.src] = f.from]
             /\ gw' = [gw EXCEPT ![d] = f.src]
    <3>1. /\ d \in Node /\ f.kind = "reply" /\ f.dst = d /\ f.src \in Bs /\ f.from \in Node
          /\ state[d] = "unreg" /\ approved' = approved
      BY <1>0, <1>2, AcceptReplyStep
    <3>2. d \in approved /\ gw[d] = None
      BY <3>1 DEF RepliesApproved, GatewaySetOnce
    <3>3. gw[f.from] = f.src /\ f.src # None /\ f.src \in Node
      BY <3>1, NodeAssumption DEF RepliesFromGateway, Node
    <3>4. gw' = [gw EXCEPT ![d] = gw[f.from]]
      BY <2>2, <3>3
    <3>5. ParentOf' = [ParentOf EXCEPT ![d] = f.from]
      <4>1. ParentOf'[d] = f.from
        BY <2>2, <3>1, <3>3 DEF ParentOf, TypeOK
      <4>2. ASSUME NEW c \in Device, c # d PROVE ParentOf'[c] = ParentOf[c]
        <5>1. gw'[c] = gw[c]
          BY <1>0, <2>2, <4>2 DEF TypeOK
        <5> QED BY <5>1, ParentsStay
      <4> QED BY <4>1, <4>2 DEF ParentOf
    <3>6. Tree!Join(d, f.from)
      BY <3>1, <3>2, <3>3, <3>4, <3>5 DEF Tree!Join
    <3> QED BY <3>1, <3>6 DEF Tree!Next, Tree!Node, Node
  <2> QED BY <1>0, <1>2, <2>1, <2>2, AcceptReplyStep
<1>3. ASSUME NEW r \in fromVtsd, TakeReply(r), r.bs \in Bs, r.dst = r.bs, state[r.bs] = "unreg",
             gw' = [gw EXCEPT ![r.bs] = r.bs], UNCHANGED <<local, approved>>
      PROVE  Tree!Next
  <2>1. r.bs \in approved /\ r.bs \in Node
    BY <1>3 DEF RepliesApproved, Node
  <2>2. gw[r.bs] = None
    BY <1>3, <2>1 DEF GatewaySetOnce
  <2>3. ParentOf' = ParentOf
    <3>1. \A d \in Device : gw'[d] = gw[d]
      BY <1>0, <1>3 DEF TypeOK
    <3> QED BY <3>1, ParentsStay DEF ParentOf
  <2>4. Tree!Open(r.bs)
    BY <1>3, <2>1, <2>2, <2>3 DEF Tree!Open
  <2> QED BY <1>3, <2>4 DEF Tree!Next
<1> QED BY <1>1, <1>2, <1>3, GatewaysChange

LEMMA RepliesApprovedInvariant == Spec => []RepliesApproved
<1>1. Init => RepliesApproved
  BY DEF Init, RepliesApproved
<1> QED BY <1>1, RepliesStep, TypeInvariant, PTL DEF Spec

\* Joining is what JoinTree says, on any network of one base station: every step
\* accepts a node, opens the base station or adds one leaf, an accepted device,
\* below a node that has joined; or it changes nothing of this.
THEOREM RegistrationImplementsJoinTree ==
  ASSUME OneBaseStation
  PROVE  Spec => ImplementsJoinTree /\ GrowsAsTree
<1>1. Init => Tree!Init
  BY DEF Init, Tree!Init, Tree!Node, Node, ParentOf
<1>2. TypeInv /\ JoinInv /\ RepliesApproved /\ [Next]_vars => [Tree!Next]_(Tree!vars)
  BY JoinTreeStep, RepliesComeFromGateway
<1> QED
  BY <1>1, <1>2, TypeInvariant, JoinInvariant, RepliesApprovedInvariant, PTL
  DEF Spec, ImplementsJoinTree, GrowsAsTree, Tree!Spec
-----------------------------------------------------------------------------
(* Frames and replies find routes                                           *)

\* A frame for one node goes to the next hop of its sender.
AirFollowsRoutes == \A f \in air : f.to # All => f.dst # All /\ local[f.from][f.dst] = f.to

\* A base station has a route to every device it has passed a beacon of on.
RequestsRouted ==
  /\ \A r \in toVtsd : r.kind = "device" => local[r.bs][r.src] # None
  /\ \A r \in fromVtsd : r.kind = "device" => local[r.bs][r.dst] # None

\* A device that has joined, dead since or not, has a route to its gateway, and
\* the next hop of every route to a gateway has joined.
GatewayRouted == \A d \in Device : gw[d] # None => local[d][gw[d]] # None
NextHopsJoined == \A n \in Node, b \in Bs : local[n][b] \in Device => gw[local[n][b]] # None

FrameInv == AirFollowsRoutes /\ RequestsRouted /\ GatewayRouted /\ NextHopsJoined

\* Forwarding sends to the next hop.
LEMMA ForwardFollows ==
  ASSUME NEW n, NEW kind, NEW src, NEW dst, Forward(n, kind, src, dst), NEW f \in air', f \notin air
  PROVE  local'[f.from][f.dst] = f.to
BY DEF Forward

\* So do all handlers: what a step adds to the air is a beacon for everybody or
\* goes to the next hop.
LEMMA FollowStep ==
  ASSUME TypeInv, [Next]_vars, NEW f \in air', f \notin air
  PROVE  f.to # All => f.dst # All /\ local'[f.from][f.dst] = f.to
<1> DEFINE Claim == f.to # All => f.dst # All /\ local'[f.from][f.dst] = f.to
<1>0. \A n \in Node : Connected(n) => gw[n] # All
  BY NodeAssumption DEF TypeInv, GatewayKnown, Connected, Node
<1>1. ASSUME NEW n, NEW k, NEW s, NEW d, d # All, Forward(n, k, s, d) PROVE Claim
  BY <1>1, ForwardFollows, ForwardAir
<1>2. ASSUME NEW n, NEW s, NEW d, d # All, PassBeacon(n, s, d) PROVE Claim
  BY <1>1, <1>2 DEF PassBeacon
<1>3. ASSUME NEW n \in Node, SendBeacon(n) PROVE Claim
  BY <1>3 DEF SendBeacon
<1>4. ASSUME NEW n \in Node, NEW g \in air, HearBeacon(n, g) \/ RelayBeacon(n, g) PROVE Claim
  BY <1>0, <1>2, <1>4 DEF HearBeacon, RelayBeacon
<1>5. ASSUME NEW n \in Node, SendReport(n) \/ \E g \in air : RelayReply(n, g) \/ RelayReport(n, g)
      PROVE  Claim
  <2>1. \A g \in air : g.kind \in {"reply", "report"} => g.dst # All
    BY FrameFields, NodeAssumption DEF TypeInv, TypeOK, Node
  <2> QED BY <1>0, <1>1, <1>5, <2>1 DEF SendReport, RelayReply, RelayReport, Receives
<1>6. ASSUME NEW r \in fromVtsd, TakeReply(r) PROVE Claim
  <2>1. r.dst # All
    BY NodeAssumption DEF TypeInv, TypeOK, Reply, Node
  <2> QED BY <1>1, <1>6, <2>1 DEF TakeReply
<1>7. ASSUME NEW n \in Node,
             \/ SendBsReg(n) \/ ReceiveForeign(n)
             \/ \E m \in Node : Advertise(n, m)
             \/ \E g \in air : AcceptReply(n, g)
      PROVE  air' = air
  BY <1>7 DEF SendBsReg, ReceiveForeign, Advertise, AcceptReply, radio
<1>8. ASSUME (\E r \in toVtsd : Register(r)) \/ MonitorTick \/ (\E g \in air : Lose(g)) \/ UNCHANGED vars
      PROVE  air' \subseteq air
  BY <1>8 DEF Register, MonitorTick, Lose, vars, radio
<1> QED BY <1>3, <1>4, <1>5, <1>6, <1>7, <1>8 DEF Next, Receive

\* A base station notes the route back before it passes a beacon on, and vTSD
\* replies to what it has been sent.
LEMMA RequestStep ==
  ASSUME TypeInv, RequestsRouted, [Next]_vars
  PROVE  /\ \A r \in toVtsd' : r \notin toVtsd => (r.kind = "device" => local'[r.bs][r.src] # None)
         /\ \A r \in fromVtsd' : r \notin fromVtsd => (r.kind = "device" => local'[r.bs][r.dst] # None)
<1> USE DEF TypeInv
<1> DEFINE Claim ==
      /\ \A r \in toVtsd' : r \notin toVtsd => (r.kind = "device" => local'[r.bs][r.src] # None)
      /\ \A r \in fromVtsd' : r \notin fromVtsd => (r.kind = "device" => local'[r.bs][r.dst] # None)
<1>1. ASSUME toVtsd' \subseteq toVtsd, fromVtsd' \subseteq fromVtsd PROVE Claim
  BY <1>1
<1>2. ASSUME NEW n, NEW s, NEW d, PassBeacon(n, s, d), local'[n][s] # None PROVE Claim
  BY <1>2 DEF PassBeacon, core
<1>3. ASSUME NEW n \in Node, NEW f \in air, HearBeacon(n, f) \/ RelayBeacon(n, f) PROVE Claim
  <2>1. f.src \in Node /\ f.from \in Node
    BY <1>3, FrameFields DEF HearBeacon, RelayBeacon, Receives, TypeOK, Node
  <2>2. ASSUME NEW y \in Node, AddRoute(n, f.src, y) PROVE local'[n][f.src] # None
    BY <2>1, <2>2, NodeAssumption DEF AddRoute, TypeOK
  <2>3. CASE UNCHANGED core
    BY <1>1, <2>3 DEF core
  <2>4. CASE \E d, y \in Node : AddRoute(n, f.src, y) /\ PassBeacon(n, f.src, d)
    BY <1>2, <2>2, <2>4
  <2>5. gw[n] \in Node
    BY <1>3 DEF HearBeacon, RelayBeacon, Connected, GatewayKnown, Node
  <2>6. f.dst \in Node \/ f.dst = All
    BY <1>3, FrameFields DEF HearBeacon, RelayBeacon, Receives, TypeOK, Node
  <2> QED BY <1>3, <2>1, <2>3, <2>4, <2>5, <2>6 DEF HearBeacon, RelayBeacon
<1>4. ASSUME NEW n \in Node, SendBsReg(n) PROVE Claim
  BY <1>4 DEF SendBsReg
<1>5. ASSUME NEW r \in toVtsd, Register(r) PROVE Claim
  BY <1>5 DEF Register, radio, RequestsRouted
<1>6. ASSUME NEW r \in fromVtsd, TakeReply(r) PROVE Claim
  BY <1>1, <1>6 DEF TakeReply
<1>7. ASSUME NEW n \in Node,
             \/ SendBeacon(n) \/ SendReport(n) \/ ReceiveForeign(n)
             \/ \E m \in Node : Advertise(n, m)
             \/ \E f \in air : AcceptReply(n, f) \/ RelayReply(n, f) \/ RelayReport(n, f)
      PROVE  Claim
  BY <1>1, <1>7 DEF SendBeacon, SendReport, HearReport, ReceiveForeign, Advertise, AcceptReply,
                    RelayReply, RelayReport, core
<1>8. ASSUME MonitorTick \/ (\E f \in air : Lose(f)) \/ UNCHANGED vars PROVE Claim
  BY <1>1, <1>8 DEF MonitorTick, Lose, vars, core
<1> QED BY <1>3, <1>4, <1>5, <1>6, <1>7, <1>8 DEF Next, Receive

\* The inductive step: old routes stay as they are.
LEMMA FrameStep == TypeInv /\ JoinInv /\ FrameInv /\ [Next]_vars => FrameInv'
<1> SUFFICES ASSUME TypeInv, JoinInv, FrameInv, [Next]_vars PROVE FrameInv'
  OBVIOUS
<1> USE DEF TypeInv
<1>0. None \notin Node /\ All \notin Node /\ All # None
  BY NodeAssumption
<1>1. AirFollowsRoutes'
  <2> SUFFICES ASSUME NEW f \in air', f.to # All
               PROVE  f.dst # All /\ local'[f.from][f.dst] = f.to
    BY DEF AirFollowsRoutes
  <2>1. CASE f \in air
    <3>1. f.dst # All /\ local[f.from][f.dst] = f.to
      BY <2>1 DEF FrameInv, AirFollowsRoutes
    <3>2. f.from \in Node /\ f.to \in Node /\ f.dst \in Node
      BY <2>1, <3>1 DEF TypeOK, Frame, Node
    <3> QED BY <1>0, <3>1, <3>2, RoutesKept
  <2> QED BY <2>1, FollowStep
<1>2. RequestsRouted'
  <2>1. ASSUME NEW r \in toVtsd', r.kind = "device" PROVE local'[r.bs][r.src] # None
    <3>1. CASE r \in toVtsd
      <4>1. r.bs \in Node /\ r.src \in Node /\ local[r.bs][r.src] # None
        BY <2>1, <3>1 DEF TypeOK, Request, Node, FrameInv, RequestsRouted
      <4> QED BY <4>1, RoutesKept
    <3> QED BY <2>1, <3>1, RequestStep DEF FrameInv
  <2>2. ASSUME NEW r \in fromVtsd', r.kind = "device" PROVE local'[r.bs][r.dst] # None
    <3>1. CASE r \in fromVtsd
      <4>1. r.bs \in Node /\ r.dst \in Node /\ local[r.bs][r.dst] # None
        BY <2>2, <3>1 DEF TypeOK, Reply, Node, FrameInv, RequestsRouted
      <4> QED BY <4>1, RoutesKept
    <3> QED BY <2>2, <3>1, RequestStep DEF FrameInv
  <2> QED BY <2>1, <2>2 DEF RequestsRouted
<1>3. GatewayRouted'
  <2> SUFFICES ASSUME NEW d \in Device, gw'[d] # None PROVE local'[d][gw'[d]] # None
    BY DEF GatewayRouted
  <2>1. d \in Node /\ d \notin Bs
    BY NodeAssumption DEF Node
  <2>2. CASE gw'[d] = gw[d]
    <3>1. gw[d] \in Node /\ local[d][gw[d]] # None
      BY <2>1, <2>2 DEF FrameInv, GatewayRouted, TypeOK
    <3> QED BY <2>1, <2>2, <3>1, RoutesKept
  <2>3. ASSUME NEW e \in Device, NEW f \in air, AcceptReply(e, f), gw'[d] # gw[d]
        PROVE  local'[d][gw'[d]] # None
    <3>1. /\ local' = [local EXCEPT ![e][f.src] = f.from]
          /\ gw' = [gw EXCEPT ![e] = f.src]
          /\ f.from \in Node /\ f.src \in Node /\ e \in Node
      BY <2>3, AcceptReplyStep DEF Node
    <3>2. e = d
      BY <2>1, <2>3, <3>1 DEF TypeOK
    <3> QED BY <1>0, <3>1, <3>2 DEF TypeOK
  <2> QED BY <2>1, <2>2, <2>3, GatewaysChange DEF TypeOK
<1>4. NextHopsJoined'
  <2> SUFFICES ASSUME NEW n \in Node, NEW b \in Bs, local'[n][b] \in Device
               PROVE  gw'[local'[n][b]] # None
    BY DEF NextHopsJoined
  <2>1. b \in Node /\ b \notin Device
    BY NodeAssumption DEF Node
  <2>2. \A m \in Node : gw[m] # None => gw'[m] # None
    BY GatewaySet DEF JoinInv, GatewaySetOnce, TypeOK
  <2>3. CASE local'[n][b] = local[n][b]
    BY <2>2, <2>3 DEF FrameInv, NextHopsJoined, Node
  <2>4. ASSUME NEW e \in Node, NEW f \in air, AcceptReply(e, f), local'[n][b] # local[n][b]
        PROVE  gw'[local'[n][b]] # None
    <3>1. /\ local' = [local EXCEPT ![e][f.src] = f.from] /\ f.kind = "reply"
          /\ f.from \in Node
      BY <2>4, AcceptReplyStep
    <3>2. local'[n][b] = f.from
      BY <2>1, <2>4, <3>1 DEF TypeOK
    <3>3. gw[f.from] # None
      BY <3>1 DEF JoinInv, TrafficOfJoined
    <3> QED BY <2>2, <3>1, <3>2, <3>3
  <2> QED BY <2>1, <2>3, <2>4, RoutesChange DEF TypeOK
<1> QED BY <1>1, <1>2, <1>3, <1>4 DEF FrameInv

LEMMA FrameInvariant == Spec => []FrameInv
<1>1. Init => FrameInv
  BY NodeAssumption DEF Init, FrameInv, AirFollowsRoutes, RequestsRouted, GatewayRouted,
     NextHopsJoined, Node
<1> QED BY <1>1, FrameStep, TypeInvariant, JoinInvariant, PTL DEF Spec

\* A reply finds a route at every node that it is sent to, and at the base
\* station that takes it from vTSD: on every network.
RepliesAreRouted ==
  /\ \A f \in air : f.kind = "reply" => f.to = f.dst \/ local[f.to][f.dst] # None
  /\ \A r \in fromVtsd : r.dst = r.bs \/ local[r.bs][r.dst] # None

LEMMA RepliesRouted == TypeInv /\ RouteInv /\ FrameInv => RepliesAreRouted
<1> SUFFICES ASSUME TypeInv, RouteInv, FrameInv PROVE RepliesAreRouted
  OBVIOUS
<1>1. ASSUME NEW f \in air, f.kind = "reply", f.to # f.dst PROVE local[f.to][f.dst] # None
  <2>1. f.from \in Node /\ f.to \in Node /\ f.dst \in Device
    BY <1>1 DEF TypeInv, TypeOK, Frame
  <2>2. local[f.from][f.dst] = f.to
    BY <2>1, NodeAssumption DEF FrameInv, AirFollowsRoutes
  <2> QED BY <1>1, <2>1, <2>2, NodeAssumption DEF RouteInv, RoutesContinue
<1>2. ASSUME NEW r \in fromVtsd, r.dst # r.bs PROVE local[r.bs][r.dst] # None
  BY <1>2 DEF TypeInv, TypeOK, Reply, FrameInv, RequestsRouted
<1> QED BY <1>1, <1>2 DEF RepliesAreRouted

THEOREM RepliesFindRoutes == Spec => []RepliesAreRouted
BY RepliesRouted, TypeInvariant, RouteInvariant, FrameInvariant, PTL

\* On a network of one base station so do beacons and reports: at no node that a
\* frame is addressed to, nor at the base station that takes a reply from vTSD,
\* does nso_layer_fwd get to the pointer that it has not set.
THEOREM FramesFindRoutes ==
  ASSUME OneBaseStation
  PROVE  Spec => []FramesAreRouted
<1>1. TypeInv /\ RouteInv /\ JoinInv /\ FrameInv => FramesAreRouted
  <2> SUFFICES ASSUME TypeInv, RouteInv, JoinInv, FrameInv PROVE FramesAreRouted
    OBVIOUS
  <2>1. RepliesAreRouted
    BY RepliesRouted
  <2>2. ASSUME NEW f \in air, f.kind # "reply", f.to # All, f.to # f.dst
        PROVE  local[f.to][f.dst] # None
    <3>1. f.from \in Node /\ f.to \in Node
      BY <2>2, FrameFields DEF TypeInv, TypeOK
    <3>2. f.dst # All /\ local[f.from][f.dst] = f.to
      BY <2>2 DEF FrameInv, AirFollowsRoutes
    <3>3. f.dst \in Bs
      BY <2>2, <3>2 DEF TypeInv, TypeOK, Frame
    <3>4. f.to \in Device
      BY <2>2, <3>1, <3>3 DEF OneBaseStation, Node
    <3>5. gw[f.to] \in Bs
      <4>1. gw[f.to] # None
        BY <3>1, <3>2, <3>3, <3>4 DEF FrameInv, NextHopsJoined
      <4> QED BY <3>1, <4>1 DEF JoinInv, GatewaysAreBs
    <3>6. gw[f.to] = f.dst
      BY <3>3, <3>5 DEF OneBaseStation
    <3> QED BY <3>4, <3>5, <3>6, NodeAssumption DEF FrameInv, GatewayRouted, Node
  <2> QED BY <2>1, <2>2 DEF RepliesAreRouted, FramesAreRouted
<1> QED BY <1>1, TypeInvariant, RouteInvariant, JoinInvariant, FrameInvariant, PTL
=============================================================================
