------------------------ MODULE BaseStation_proofs ------------------------
(***************************************************************************)
(* What a base station forwards finds its way, for every number of         *)
(* devices, interfaces and restarts: the inductive invariant of            *)
(* BaseStation and the proof that each step keeps it.                      *)
(***************************************************************************)
EXTENDS BaseStation, TLAPS

\* A route is noted after the address of its next hop, and no thread has read
\* any other.
RoutesAddressed ==
  /\ \A d \in Device : local[d] # None => local[d] \in arp
  /\ \A r \in Rx : \A d \in Device : seen[r][d] # None => seen[r][d] \in arp

\* The devices that have a route, or had one until it was cut off: while the
\* process runs there is no other way to lose it.
Noted == {d \in Device : local[d] # None} \cup lost

\* What a thread has already done for the packet p that it handles, with
\* addresses a, noted routes n and connected devices c.
Done(p, a, n, c) ==
  /\ p.at \notin {"idle", "route"} => p.type # "none" /\ p.via \in Device
  /\ p.type = "beacon" => p.at \notin {"route", "address"} /\ p.dev \in Device /\ p.dst = Bs
  /\ p.type = "data" => p.at \in {"idle", "route", "address"} /\ p.dev \in c
  /\ p.type \notin {"beacon", "data"} => p.at \in {"idle", "arp", "note"}
  /\ p.at \in {"fwd", "add", "link", "pass", "address"} => p.via \in a
  /\ p.at = "pass" => p.dev \in n

RxDone == \A r \in Rx : Done(rx[r], arp, Noted, connected)

\* A registration passed on, and the reply to it, have a way back; those of an
\* earlier life are not answered in this one.
StreamsReturn ==
  /\ \A q \in toVtsd \cup fromVtsd : q.dst = Bs /\ q.life <= life
  /\ \A q \in toVtsd : q.src # Bs => q.life = life /\ Up
  /\ ~Up => fromVtsd = {}
  /\ Up => life > 0
  /\ \A q \in toVtsd \cup fromVtsd : q.src # Bs => q.src \in Noted

\* Who is connected has a route here, or has been connected in an earlier life.
ConnectedRouted ==
  /\ \A d \in connected : d \in elder \/ (Up /\ d \in Noted)
  /\ talking \subseteq connected
  /\ state = "connected" => gw = Bs

VnfRouted ==
  /\ mutex = "free"
  /\ vnf.at \in {"idle", "route", "address"}
  /\ vnf.at # "idle" => vnf.type \in {"reply", "data"} /\ vnf.dev \in Device
  /\ vnf.type = "reply" => vnf.dev \in Noted
  /\ vnf.type = "data" => vnf.dev \in connected
  /\ vnf.at = "address" => vnf.via \in arp

Inv == TypeOK /\ RoutesAddressed /\ RxDone /\ StreamsReturn /\ ConnectedRouted /\ VnfRouted

\* The invariant holds of the empty tables of a process not yet started.
LEMMA InitInv == Init => Inv
<1>. SUFFICES ASSUME Init PROVE Inv
  OBVIOUS
<1>. USE BaseStationAssumption DEF Init, NoRoutes, Noted
<1>1. TypeOK
  BY SMT DEF TypeOK, Idle, Idle, Packet
<1>2. RoutesAddressed
  BY SMT DEF RoutesAddressed
<1>3. RxDone
  BY SMT DEF RxDone, Done, Idle
<1>4. StreamsReturn
  BY SMT DEF StreamsReturn, Up
<1>5. ConnectedRouted
  BY SMT DEF ConnectedRouted
<1>6. VnfRouted
  BY SMT DEF VnfRouted, Idle
<1>. QED BY <1>1, <1>2, <1>3, <1>4, <1>5, <1>6 DEF Inv

\* A process that stops leaves nothing behind that could be forwarded.
LEMMA StopsKeepsInv ==
  ASSUME Inv, Stops
  PROVE  Inv'
<1>. USE BaseStationAssumption DEF Inv, Stops, core, NoRoutes, Noted
<1>1. TypeOK'
  BY SMT DEF TypeOK, Idle, Idle, Packet
<1>2. RoutesAddressed'
  BY SMT DEF RoutesAddressed
<1>3. RxDone'
  BY SMT DEF RxDone, Done, Idle
<1>4. StreamsReturn'
  BY SMT DEF StreamsReturn, Up
<1>5. ConnectedRouted'
  BY SMT DEF ConnectedRouted
<1>6. VnfRouted'
  BY SMT DEF VnfRouted, Idle
<1>. QED BY <1>1, <1>2, <1>3, <1>4, <1>5, <1>6 DEF Inv

LEMMA StartKeepsInv ==
  ASSUME Inv, Start
  PROVE  Inv'
<1>. USE BaseStationAssumption
     DEF Inv, Start, steady, routes, tables, streams, outside, core,
         process, Up, VnfAt, Handles, GoesOn, Noted
<1>1. TypeOK'
  BY SMT DEF TypeOK, Packet, Request, Node, Idle, StreamsReturn
<1>2. RoutesAddressed'
  BY SMT DEF RoutesAddressed, TypeOK, RxDone, Done
<1>3. RxDone'
  BY SMT DEF RxDone, Done, Idle, TypeOK, ConnectedRouted
<1>4. StreamsReturn'
  BY SMT DEF StreamsReturn, TypeOK, Request, Node
<1>5. ConnectedRouted'
  BY SMT DEF ConnectedRouted, TypeOK, StreamsReturn
<1>6. VnfRouted'
  BY SMT DEF VnfRouted, TypeOK, StreamsReturn, ConnectedRouted, Request, Node
<1>. QED BY <1>1, <1>2, <1>3, <1>4, <1>5, <1>6 DEF Inv

LEMMA TxRegisterKeepsInv ==
  ASSUME Inv, TxRegister
  PROVE  Inv'
<1>. USE BaseStationAssumption
     DEF Inv, TxRegister, steady, routes, tables, streams, outside, core,
         process, Up, VnfAt, Handles, GoesOn, Noted
<1>1. TypeOK'
  BY SMT DEF TypeOK, Packet, Request, Node, Idle, StreamsReturn
<1>2. RoutesAddressed'
  BY SMT DEF RoutesAddressed, TypeOK, RxDone, Done
<1>3. RxDone'
  BY SMT DEF RxDone, Done, Idle, TypeOK, ConnectedRouted
<1>4. StreamsReturn'
  BY SMT DEF StreamsReturn, RxDone, Done, TypeOK
<1>5. ConnectedRouted'
  BY SMT DEF ConnectedRouted, TypeOK, StreamsReturn
<1>6. VnfRouted'
  BY SMT DEF VnfRouted, TypeOK, StreamsReturn, ConnectedRouted, Request, Node
<1>. QED BY <1>1, <1>2, <1>3, <1>4, <1>5, <1>6 DEF Inv

LEMMA TxWakeKeepsInv ==
  ASSUME Inv, TxWake
  PROVE  Inv'
<1>. USE BaseStationAssumption
     DEF Inv, TxWake, steady, routes, tables, streams, outside, core,
         process, Up, VnfAt, Handles, GoesOn, Noted
<1>1. TypeOK'
  BY SMT DEF TypeOK, Packet, Request, Node, Idle, StreamsReturn
<1>2. RoutesAddressed'
  BY SMT DEF RoutesAddressed, TypeOK, RxDone, Done
<1>3. RxDone'
  BY SMT DEF RxDone, Done, Idle, TypeOK, ConnectedRouted
<1>4. StreamsReturn'
  BY SMT DEF StreamsReturn, RxDone, Done, TypeOK
<1>5. ConnectedRouted'
  BY SMT DEF ConnectedRouted, TypeOK, StreamsReturn
<1>6. VnfRouted'
  BY SMT DEF VnfRouted, TypeOK, StreamsReturn, ConnectedRouted, Request, Node
<1>. QED BY <1>1, <1>2, <1>3, <1>4, <1>5, <1>6 DEF Inv

LEMMA TxReportKeepsInv ==
  ASSUME Inv, TxReport
  PROVE  Inv'
<1>. USE BaseStationAssumption
     DEF Inv, TxReport, steady, routes, tables, streams, outside, core,
         process, Up, VnfAt, Handles, GoesOn, Noted
<1>1. TypeOK'
  BY SMT DEF TypeOK, Packet, Request, Node, Idle, StreamsReturn
<1>2. RoutesAddressed'
  BY SMT DEF RoutesAddressed, TypeOK, RxDone, Done
<1>3. RxDone'
  BY SMT DEF RxDone, Done, Idle, TypeOK, ConnectedRouted
<1>4. StreamsReturn'
  BY SMT DEF StreamsReturn, RxDone, Done, TypeOK
<1>5. ConnectedRouted'
  BY SMT DEF ConnectedRouted, TypeOK, StreamsReturn
<1>6. VnfRouted'
  BY SMT DEF VnfRouted, TypeOK, StreamsReturn, ConnectedRouted, Request, Node
<1>. QED BY <1>1, <1>2, <1>3, <1>4, <1>5, <1>6 DEF Inv

\* A step of an rx thread that changes nothing but the packet it handles.
LEMMA RxMoves ==
  ASSUME Inv, NEW r \in Rx, NEW p \in Packet, Up, Done(p, arp, Noted, connected),
         rx' = [rx EXCEPT ![r] = p],
         UNCHANGED <<steady, tables, seen, tx, vnf, streams, outside>>
  PROVE  Inv'
<1>. USE DEF Inv, steady, tables, routes, streams, outside, core
<1>1. TypeOK'
  BY SMT DEF TypeOK
<1>2. RoutesAddressed'
  BY DEF RoutesAddressed
<1>3. Noted' = Noted
  BY DEF Noted
<1>4. RxDone'
  <2>1. ASSUME NEW x \in Rx PROVE Done(rx'[x], arp', Noted', connected')
    <3>1. rx'[x] = p \/ (rx'[x] = rx[x] /\ Done(rx[x], arp, Noted, connected))
      BY DEF TypeOK, RxDone
    <3>. QED BY <1>3, <3>1 DEF Done
  <2>. QED BY <2>1 DEF RxDone
<1>5. StreamsReturn'
  BY <1>3 DEF StreamsReturn, Up
<1>6. ConnectedRouted'
  BY <1>3 DEF ConnectedRouted, Up
<1>7. VnfRouted'
  BY <1>3 DEF VnfRouted
<1>. QED BY <1>1, <1>2, <1>4, <1>5, <1>6, <1>7

\* An idle thread has nothing to have done.
LEMMA IdleDone == Idle \in Packet /\ Done(Idle, arp, Noted, connected)
  BY BaseStationAssumption, SMT DEF Idle, Packet, Done

LEMMA HearBeaconKeepsInv ==
  ASSUME Inv, NEW r \in Rx, NEW d \in Device, NEW m \in Device, HearBeacon(r, d, m)
  PROVE  Inv'
<1>. DEFINE p == [at |-> IF m = d THEN "arp" ELSE "whose", type |-> "beacon",
                  dev |-> d, via |-> m, dst |-> IF m = d THEN gw ELSE Bs]
<1>1. gw = Bs
  BY DEF Inv, ConnectedRouted, HearBeacon
<1>2. p \in Packet /\ Done(p, arp, Noted, connected)
  BY <1>1, SMT DEF Packet, Done
<1>3. /\ Up /\ rx' = [rx EXCEPT ![r] = p]
      /\ UNCHANGED <<steady, tables, seen, tx, vnf, streams, outside>>
  BY DEF HearBeacon, Handles
<1>. QED BY <1>2, <1>3, RxMoves

LEMMA HearAdvertKeepsInv ==
  ASSUME Inv, NEW r \in Rx, NEW m \in Device, HearAdvert(r, m)
  PROVE  Inv'
<1>. DEFINE p == [at |-> "arp", type |-> "advert", dev |-> None, via |-> m, dst |-> None]
<1>1. p \in Packet /\ Done(p, arp, Noted, connected)
  BY SMT DEF Packet, Done
<1>2. /\ Up /\ rx' = [rx EXCEPT ![r] = p]
      /\ UNCHANGED <<steady, tables, seen, tx, vnf, streams, outside>>
  BY DEF HearAdvert, Handles
<1>. QED BY <1>1, <1>2, RxMoves

LEMMA HearDataKeepsInv ==
  ASSUME Inv, NEW r \in Rx, NEW d \in Device, HearData(r, d)
  PROVE  Inv'
<1>. USE BaseStationAssumption
     DEF Inv, HearData, steady, routes, tables, streams, outside, core,
         process, Up, VnfAt, Handles, GoesOn, Noted
<1>1. TypeOK'
  BY SMT DEF TypeOK, Packet, Request, Node, Idle, StreamsReturn
<1>2. RoutesAddressed'
  BY SMT DEF RoutesAddressed, TypeOK, RxDone, Done
<1>3. RxDone'
  BY SMT DEF RxDone, Done, Idle, TypeOK, ConnectedRouted
<1>4. StreamsReturn'
  BY SMT DEF StreamsReturn, RxDone, Done, TypeOK
<1>5. ConnectedRouted'
  BY SMT DEF ConnectedRouted, TypeOK, StreamsReturn
<1>6. VnfRouted'
  BY SMT DEF VnfRouted, TypeOK, StreamsReturn, ConnectedRouted, Request, Node
<1>. QED BY <1>1, <1>2, <1>3, <1>4, <1>5, <1>6 DEF Inv

LEMMA HearDataForKeepsInv ==
  ASSUME Inv, NEW r \in Rx, NEW d \in Device, HearDataFor(r, d)
  PROVE  Inv'
<1>. DEFINE p == [at |-> "route", type |-> "data", dev |-> d, via |-> None, dst |-> None]
<1>1. d \in connected
  BY DEF HearDataFor
<1>2. p \in Packet /\ Done(p, arp, Noted, connected)
  BY <1>1, SMT DEF Packet, Done
<1>3. /\ Up /\ rx' = [rx EXCEPT ![r] = p]
      /\ UNCHANGED <<steady, tables, seen, tx, vnf, streams, outside>>
  BY DEF HearDataFor, Handles
<1>. QED BY <1>2, <1>3, RxMoves

\* A step of an rx thread that goes on with the same packet, or is done with it.
LEMMA RxGoesOn ==
  ASSUME Inv, NEW r \in Rx, NEW place, Up, GoesOn(r, place),
         place # "idle" => [rx[r] EXCEPT !.at = place] \in Packet
                           /\ Done([rx[r] EXCEPT !.at = place], arp, Noted, connected),
         UNCHANGED <<steady, tables, seen, tx, vnf, streams, outside>>
  PROVE  Inv'
<1>1. CASE place = "idle"
  BY <1>1, IdleDone, RxMoves DEF GoesOn
<1>2. CASE place # "idle"
  <2>1. rx' = [rx EXCEPT ![r] = [rx[r] EXCEPT !.at = place]]
    BY <1>2 DEF GoesOn
  <2>. QED BY <1>2, <2>1, RxMoves
<1>. QED BY <1>1, <1>2

LEMMA ArpLookupKeepsInv ==
  ASSUME Inv, NEW r \in Rx, ArpLookup(r)
  PROVE  Inv'
<1>. DEFINE place == IF rx[r].via \notin arp THEN "note"
                     ELSE IF rx[r].type = "beacon" THEN "fwd" ELSE "idle"
<1>1. /\ rx[r] \in Packet /\ Done(rx[r], arp, Noted, connected) /\ rx[r].at = "arp"
  BY DEF Inv, TypeOK, RxDone, ArpLookup, Handles
<1>2. place # "idle" => [rx[r] EXCEPT !.at = place] \in Packet
                        /\ Done([rx[r] EXCEPT !.at = place], arp, Noted, connected)
  BY <1>1, SMT DEF Packet, Done
<1>3. /\ Up /\ GoesOn(r, place)
      /\ UNCHANGED <<steady, tables, seen, tx, vnf, streams, outside>>
  BY DEF ArpLookup, Handles
<1>. QED BY <1>2, <1>3, RxGoesOn

LEMMA ArpAddKeepsInv ==
  ASSUME Inv, NEW r \in Rx, ArpAdd(r)
  PROVE  Inv'
<1>. USE BaseStationAssumption
     DEF Inv, ArpAdd, steady, routes, tables, streams, outside, core,
         process, Up, VnfAt, Handles, GoesOn, Noted
<1>1. TypeOK'
  BY SMT DEF TypeOK, Packet, Request, Node, Idle, StreamsReturn, RxDone, Done
<1>2. RoutesAddressed'
  BY SMT DEF RoutesAddressed, TypeOK, RxDone, Done
<1>3. RxDone'
  BY SMT DEF RxDone, Done, Idle, TypeOK, ConnectedRouted
<1>4. StreamsReturn'
  BY SMT DEF StreamsReturn, RxDone, Done, TypeOK
<1>5. ConnectedRouted'
  BY SMT DEF ConnectedRouted, TypeOK, StreamsReturn
<1>6. VnfRouted'
  BY SMT DEF VnfRouted, TypeOK, StreamsReturn, ConnectedRouted, Request, Node
<1>. QED BY <1>1, <1>2, <1>3, <1>4, <1>5, <1>6 DEF Inv

\* A device found in the table is noted.
LEMMA FwdLookupKeepsInv ==
  ASSUME Inv, NEW r \in Rx, FwdLookup(r)
  PROVE  Inv'
<1>. DEFINE place == IF local[rx[r].dev] = None THEN "add" ELSE "pass"
<1>1. /\ rx[r] \in Packet /\ Done(rx[r], arp, Noted, connected) /\ rx[r].at = "fwd"
  BY DEF Inv, TypeOK, RxDone, FwdLookup, Handles
<1>2. rx[r].dev \in Device /\ (place = "pass" => rx[r].dev \in Noted)
  BY <1>1 DEF Done, Noted
<1>3. place # "idle" => [rx[r] EXCEPT !.at = place] \in Packet
                        /\ Done([rx[r] EXCEPT !.at = place], arp, Noted, connected)
  BY <1>1, <1>2, SMT DEF Packet, Done
<1>4. /\ Up /\ GoesOn(r, place)
      /\ UNCHANGED <<steady, tables, seen, tx, vnf, streams, outside>>
  BY DEF FwdLookup, Handles
<1>. QED BY <1>3, <1>4, RxGoesOn

LEMMA FwdReadKeepsInv ==
  ASSUME Inv, NEW r \in Rx, FwdRead(r)
  PROVE  Inv'
<1>. USE BaseStationAssumption
     DEF Inv, FwdRead, steady, routes, tables, streams, outside, core,
         process, Up, VnfAt, Handles, GoesOn, Noted
<1>1. TypeOK'
  BY SMT DEF TypeOK, Packet, Request, Node, Idle, StreamsReturn, RxDone, Done
<1>2. RoutesAddressed'
  BY SMT DEF RoutesAddressed, TypeOK, RxDone, Done
<1>3. RxDone'
  BY SMT DEF RxDone, Done, Idle, TypeOK, ConnectedRouted
<1>4. StreamsReturn'
  BY SMT DEF StreamsReturn, RxDone, Done, TypeOK
<1>5. ConnectedRouted'
  BY SMT DEF ConnectedRouted, TypeOK, RxDone, Done
<1>6. VnfRouted'
  BY SMT DEF VnfRouted, TypeOK, RxDone, Done
<1>. QED BY <1>1, <1>2, <1>3, <1>4, <1>5, <1>6 DEF Inv

\* Linking a route cuts off what the thread has not seen; what is cut off stays
\* noted, and what comes back was there with its address.
LEMMA FwdLinkKeepsInv ==
  ASSUME Inv, NEW r \in Rx, FwdLink(r)
  PROVE  Inv'
<1>1. /\ rx \in [Rx -> Packet] /\ rx[r].at = "link" /\ Up
      /\ rx[r].type = "beacon" /\ rx[r].dev \in Device /\ rx[r].dst = Bs
      /\ rx[r].via \in Device /\ rx[r].via \in arp
  BY BaseStationAssumption, SMT DEF Inv, TypeOK, RxDone, Done, FwdLink, Handles
<1>2. /\ rx' = [rx EXCEPT ![r] = [@ EXCEPT !.at = "pass"]]
      /\ seen' = [seen EXCEPT ![r] = NoRoutes]
      /\ UNCHANGED <<proc, life, state, gw, mutex, arp, tx, vnf, streams, outside>>
  BY DEF FwdLink, GoesOn, steady
<1>3. /\ local' = [d \in Device |-> IF d = rx[r].dev THEN rx[r].via
                                   ELSE IF Bucket[d] = Bucket[rx[r].dev] THEN seen[r][d]
                                   ELSE local[d]]
      /\ lost' = {d \in Device : local'[d] = None /\ (local[d] # None \/ d \in lost)}
  BY DEF FwdLink
<1>4. local' \in [Device -> Device \cup {None}] /\ lost' \subseteq Device
  BY <1>1, <1>3 DEF Inv, TypeOK
<1>5. Noted \subseteq Noted' /\ rx[r].dev \in Noted'
  <2>1. local'[rx[r].dev] # None
    BY <1>1, <1>3, BaseStationAssumption
  <2>. QED BY <1>1, <1>3, <2>1 DEF Noted, Inv, TypeOK
<1>6. TypeOK'
  BY <1>1, <1>2, <1>4, SMT DEF Inv, TypeOK, NoRoutes, Packet, streams, outside, core
<1>7. RoutesAddressed'
  BY <1>1, <1>2, <1>3, SMT DEF Inv, TypeOK, RoutesAddressed, NoRoutes
<1>8. RxDone'
  <2>1. ASSUME NEW x \in Rx PROVE Done(rx'[x], arp', Noted', connected')
    <3>1. Done(rx[x], arp, Noted, connected)
      BY DEF Inv, RxDone
    <3>2. CASE x = r
      <4>1. /\ rx'[x].at = "pass" /\ rx'[x].type = "beacon" /\ rx'[x].dev = rx[r].dev
            /\ rx'[x].via = rx[r].via /\ rx'[x].dst = Bs
        BY <1>1, <1>2, <3>2 DEF Packet
      <4>. QED BY <1>1, <1>2, <1>5, <4>1 DEF Done
    <3>3. CASE x # r
      <4>1. rx'[x] = rx[x] /\ arp' = arp /\ connected' = connected
        BY <1>1, <1>2, <3>3 DEF outside
      <4>2. Noted \subseteq Noted'
        BY <1>5
      <4>. QED BY <3>1, <4>1, <4>2, SMT DEF Done
    <3>. QED BY <3>2, <3>3
  <2>. QED BY <2>1 DEF RxDone
<1>9. StreamsReturn'
  BY <1>2, <1>5 DEF Inv, StreamsReturn, Up, streams
<1>10. ConnectedRouted'
  BY <1>2, <1>5 DEF Inv, ConnectedRouted, Up, streams, outside
<1>11. VnfRouted'
  BY <1>2, <1>5 DEF Inv, VnfRouted, outside
<1>. QED BY <1>6, <1>7, <1>8, <1>9, <1>10, <1>11 DEF Inv

LEMMA PassBeaconKeepsInv ==
  ASSUME Inv, NEW r \in Rx, PassBeacon(r)
  PROVE  Inv'
<1>. USE BaseStationAssumption
     DEF Inv, PassBeacon, steady, routes, tables, streams, outside, core,
         process, Up, VnfAt, Handles, GoesOn, Noted
<1>1. TypeOK'
  BY SMT DEF TypeOK, Packet, Request, Node, Idle, StreamsReturn, RxDone, Done
<1>2. RoutesAddressed'
  BY SMT DEF RoutesAddressed, TypeOK, RxDone, Done
<1>3. RxDone'
  BY SMT DEF RxDone, Done, Idle, TypeOK, ConnectedRouted
<1>4. StreamsReturn'
  BY SMT DEF StreamsReturn, RxDone, Done, TypeOK
<1>5. ConnectedRouted'
  BY SMT DEF ConnectedRouted, TypeOK, StreamsReturn
<1>6. VnfRouted'
  BY SMT DEF VnfRouted, TypeOK, StreamsReturn, ConnectedRouted, Request, Node
<1>. QED BY <1>1, <1>2, <1>3, <1>4, <1>5, <1>6 DEF Inv

LEMMA TakeOwnReplyKeepsInv ==
  ASSUME Inv, NEW q \in fromVtsd, TakeOwnReply(q)
  PROVE  Inv'
<1>. USE BaseStationAssumption
     DEF Inv, TakeOwnReply, steady, routes, tables, streams, outside, core,
         process, Up, VnfAt, Handles, GoesOn, Noted
<1>1. TypeOK'
  BY SMT DEF TypeOK, Packet, Request, Node, Idle, StreamsReturn
<1>2. RoutesAddressed'
  BY SMT DEF RoutesAddressed, TypeOK, RxDone, Done
<1>3. RxDone'
  BY SMT DEF RxDone, Done, Idle, TypeOK, ConnectedRouted
<1>4. StreamsReturn'
  BY SMT DEF StreamsReturn, RxDone, Done, TypeOK
<1>5. ConnectedRouted'
  BY SMT DEF ConnectedRouted, TypeOK, StreamsReturn
<1>6. VnfRouted'
  BY SMT DEF VnfRouted, TypeOK, StreamsReturn, ConnectedRouted, Request, Node
<1>. QED BY <1>1, <1>2, <1>3, <1>4, <1>5, <1>6 DEF Inv

LEMMA TakeReplyKeepsInv ==
  ASSUME Inv, NEW q \in fromVtsd, TakeReply(q)
  PROVE  Inv'
<1>. USE BaseStationAssumption
     DEF Inv, TakeReply, steady, routes, tables, streams, outside, core,
         process, Up, VnfAt, Handles, GoesOn, Noted
<1>1. TypeOK'
  BY SMT DEF TypeOK, Packet, Request, Node, Idle, StreamsReturn
<1>2. RoutesAddressed'
  BY SMT DEF RoutesAddressed, TypeOK, RxDone, Done
<1>3. RxDone'
  BY SMT DEF RxDone, Done, Idle, TypeOK, ConnectedRouted
<1>4. StreamsReturn'
  BY SMT DEF StreamsReturn, RxDone, Done, TypeOK
<1>5. ConnectedRouted'
  BY SMT DEF ConnectedRouted, TypeOK, StreamsReturn
<1>6. VnfRouted'
  BY SMT DEF VnfRouted, TypeOK, StreamsReturn, ConnectedRouted, Request, Node
<1>. QED BY <1>1, <1>2, <1>3, <1>4, <1>5, <1>6 DEF Inv

LEMMA TakeDataKeepsInv ==
  ASSUME Inv, NEW d \in talking, TakeData(d)
  PROVE  Inv'
<1>. USE BaseStationAssumption
     DEF Inv, TakeData, steady, routes, tables, streams, outside, core,
         process, Up, VnfAt, Handles, GoesOn, Noted
<1>1. TypeOK'
  BY SMT DEF TypeOK, Packet, Request, Node, Idle, StreamsReturn
<1>2. RoutesAddressed'
  BY SMT DEF RoutesAddressed, TypeOK, RxDone, Done
<1>3. RxDone'
  BY SMT DEF RxDone, Done, Idle, TypeOK, ConnectedRouted
<1>4. StreamsReturn'
  BY SMT DEF StreamsReturn, RxDone, Done, TypeOK
<1>5. ConnectedRouted'
  BY SMT DEF ConnectedRouted, TypeOK, StreamsReturn
<1>6. VnfRouted'
  BY SMT DEF VnfRouted, TypeOK, StreamsReturn, ConnectedRouted, Request, Node
<1>. QED BY <1>1, <1>2, <1>3, <1>4, <1>5, <1>6 DEF Inv

LEMMA RegisterKeepsInv ==
  ASSUME Inv, NEW q \in toVtsd, Register(q)
  PROVE  Inv'
<1>. USE BaseStationAssumption
     DEF Inv, Register, steady, routes, tables, streams, outside, core,
         process, Up, VnfAt, Handles, GoesOn, Noted
<1>1. TypeOK'
  BY SMT DEF TypeOK, Packet, Request, Node, Idle, StreamsReturn
<1>2. RoutesAddressed'
  BY SMT DEF RoutesAddressed, TypeOK, RxDone, Done
<1>3. RxDone'
  BY SMT DEF RxDone, Done, Idle, TypeOK, ConnectedRouted
<1>4. StreamsReturn'
  BY SMT DEF StreamsReturn, RxDone, Done, TypeOK
<1>5. ConnectedRouted'
  BY SMT DEF ConnectedRouted, TypeOK, StreamsReturn
<1>6. VnfRouted'
  BY SMT DEF VnfRouted, TypeOK, StreamsReturn, ConnectedRouted, Request, Node
<1>. QED BY <1>1, <1>2, <1>3, <1>4, <1>5, <1>6 DEF Inv

LEMMA MonitorTickKeepsInv ==
  ASSUME Inv, MonitorTick
  PROVE  Inv'
<1>. USE BaseStationAssumption
     DEF Inv, MonitorTick, steady, routes, tables, streams, outside, core,
         process, Up, VnfAt, Handles, GoesOn, Noted
<1>1. TypeOK'
  BY SMT DEF TypeOK, Packet, Request, Node, Idle, StreamsReturn
<1>2. RoutesAddressed'
  BY SMT DEF RoutesAddressed, TypeOK, RxDone, Done
<1>3. RxDone'
  BY SMT DEF RxDone, Done, Idle, TypeOK, ConnectedRouted
<1>4. StreamsReturn'
  BY SMT DEF StreamsReturn, RxDone, Done, TypeOK
<1>5. ConnectedRouted'
  BY SMT DEF ConnectedRouted, TypeOK, StreamsReturn
<1>6. VnfRouted'
  BY SMT DEF VnfRouted, TypeOK, StreamsReturn, ConnectedRouted, Request, Node
<1>. QED BY <1>1, <1>2, <1>3, <1>4, <1>5, <1>6 DEF Inv

\* A relayed beacon: the thread goes on, or the process exits.
LEMMA ArpWhoseKeepsInv ==
  ASSUME Inv, NEW r \in Rx, ArpWhose(r)
  PROVE  Inv'
<1>1. CASE Stops
  BY <1>1, StopsKeepsInv
<1>2. CASE ~Stops
  <2>1. /\ Up /\ rx[r].at = "whose" /\ rx[r].via \in arp /\ GoesOn(r, "fwd")
        /\ UNCHANGED <<steady, tables, seen, tx, vnf, streams, outside>>
    BY <1>2 DEF ArpWhose, Handles
  <2>2. rx[r] \in Packet /\ Done(rx[r], arp, Noted, connected)
    BY DEF Inv, TypeOK, RxDone
  <2>3. /\ [rx[r] EXCEPT !.at = "fwd"] \in Packet
        /\ Done([rx[r] EXCEPT !.at = "fwd"], arp, Noted, connected)
    BY <2>1, <2>2, SMT DEF Packet, Done
  <2>. QED BY <2>1, <2>3, RxGoesOn
<1>. QED BY <1>1, <1>2

\* An rx thread forwards what it has overheard.
LEMMA RxRouteKeepsInv ==
  ASSUME Inv, NEW r \in Rx, RxRoute(r)
  PROVE  Inv'
<1>1. /\ rx[r] \in Packet /\ Done(rx[r], arp, Noted, connected) /\ rx[r].at = "route" /\ Up
      /\ rx' = [rx EXCEPT ![r] = Routed(rx[r])]
      /\ UNCHANGED <<steady, tables, seen, tx, vnf, streams, outside>>
  BY DEF Inv, TypeOK, RxDone, RxRoute, Handles
<1>2. CASE local[rx[r].dev] = None
  BY <1>1, <1>2, IdleDone, RxMoves DEF Routed
<1>3. CASE local[rx[r].dev] # None
  <2>1. rx[r].type = "data" /\ rx[r].dev \in Device
    BY <1>1, BaseStationAssumption, SMT DEF Done, Inv, TypeOK
  <2>2. local[rx[r].dev] \in Device /\ local[rx[r].dev] \in arp
    BY <1>3, <2>1 DEF Inv, TypeOK, RoutesAddressed
  <2>3. /\ Routed(rx[r]) \in Packet /\ Routed(rx[r]).at = "address"
        /\ Routed(rx[r]).type = "data" /\ Routed(rx[r]).dev = rx[r].dev
        /\ Routed(rx[r]).via = local[rx[r].dev]
    BY <1>1, <1>3, <2>1, <2>2 DEF Routed, Packet
  <2>4. rx[r].dev \in connected
    BY <1>1, <2>1 DEF Done
  <2>5. Done(Routed(rx[r]), arp, Noted, connected)
    BY <2>2, <2>3, <2>4, SMT DEF Done
  <2>. QED BY <1>1, <2>3, <2>5, RxMoves
<1>. QED BY <1>2, <1>3

LEMMA RxAddressKeepsInv ==
  ASSUME Inv, NEW r \in Rx, RxAddress(r)
  PROVE  Inv'
<1>1. rx[r].via \in arp /\ mutex = "free"
  BY DEF Inv, RxDone, Done, RxAddress, Handles
<1>2. /\ Up /\ GoesOn(r, "idle")
      /\ UNCHANGED <<steady, tables, seen, tx, vnf, streams, outside>>
  BY <1>1 DEF RxAddress, Handles, steady
<1>. QED BY <1>2, RxGoesOn

\* nso_layer_fwd by the VNF thread: what it has a route for has an address.
LEMMA FwdRouteKeepsInv ==
  ASSUME Inv, FwdRoute
  PROVE  Inv'
<1>. USE DEF Inv, FwdRoute, VnfAt, steady, tables, routes, streams, outside, core, Up
<1>1. vnf.type \in {"reply", "data"} /\ vnf.dev \in Device /\ vnf \in Packet
  BY DEF VnfRouted, TypeOK
<1>2. \/ vnf' = Idle
      \/ /\ vnf' \in Packet /\ vnf'.at = "address" /\ vnf'.via \in arp
         /\ vnf'.dev = vnf.dev /\ vnf'.type = vnf.type
  <2>1. local[vnf.dev] # None => local[vnf.dev] \in Device /\ local[vnf.dev] \in arp
    BY <1>1 DEF TypeOK, RoutesAddressed
  <2>. QED BY <1>1, <2>1 DEF Routed, Packet
<1>3. Noted' = Noted
  BY DEF Noted
<1>4. TypeOK'
  BY <1>2, IdleDone DEF TypeOK
<1>5. RoutesAddressed'
  BY DEF RoutesAddressed
<1>6. RxDone'
  BY <1>3 DEF RxDone
<1>7. StreamsReturn'
  BY <1>3 DEF StreamsReturn
<1>8. ConnectedRouted'
  BY <1>3 DEF ConnectedRouted
<1>9. VnfRouted'
  BY <1>1, <1>2, <1>3 DEF VnfRouted, Idle
<1>. QED BY <1>4, <1>5, <1>6, <1>7, <1>8, <1>9

LEMMA FwdAddressKeepsInv ==
  ASSUME Inv, FwdAddress
  PROVE  Inv'
<1>1. vnf.via \in arp /\ vnf.dev \in Device /\ (vnf.type = "reply" => vnf.dev \in Noted)
  BY DEF FwdAddress, VnfAt, Inv, VnfRouted
<1>. USE <1>1 DEF Inv, FwdAddress, tables, routes, streams, core, Up, VnfAt
<1>2. Noted' = Noted /\ connected \subseteq connected'
  BY DEF Noted
<1>3. TypeOK'
  BY IdleDone DEF TypeOK
<1>4. RoutesAddressed'
  BY DEF RoutesAddressed
<1>5. RxDone'
  <2>1. ASSUME NEW r \in Rx PROVE Done(rx'[r], arp', Noted', connected')
    BY <1>2 DEF RxDone, Done
  <2>. QED BY <2>1 DEF RxDone
<1>6. StreamsReturn'
  BY <1>2 DEF StreamsReturn
<1>7. ConnectedRouted'
  BY <1>2 DEF ConnectedRouted
<1>8. VnfRouted'
  BY DEF VnfRouted, Idle
<1>. QED BY <1>3, <1>4, <1>5, <1>6, <1>7, <1>8

\* Every step keeps the invariant.
LEMMA NextKeepsInv ==
  ASSUME Inv, [Next]_vars
  PROVE  Inv'
<1>1. CASE Start
  BY <1>1, StartKeepsInv
<1>2. CASE Crash \/ UndefinedFree
  BY <1>2, StopsKeepsInv DEF Crash, UndefinedFree
<1>3. CASE Tx
  BY <1>3, TxRegisterKeepsInv, TxWakeKeepsInv, TxReportKeepsInv DEF Tx
<1>4. CASE Vnf
  BY <1>4, TakeOwnReplyKeepsInv, TakeReplyKeepsInv, TakeDataKeepsInv, FwdRouteKeepsInv,
     FwdAddressKeepsInv DEF Vnf
<1>5. ASSUME NEW r \in Rx, RxStep(r) PROVE Inv'
  <2>1. ASSUME NEW d \in Device, HearUnknown(r, d) PROVE Inv'
    BY <2>1, StopsKeepsInv DEF HearUnknown
  <2>2. CASE HearForeign(r)
    BY <2>2, StopsKeepsInv DEF HearForeign
  <2>. QED BY <1>5, <2>1, <2>2, HearBeaconKeepsInv, HearAdvertKeepsInv, HearDataKeepsInv,
              HearDataForKeepsInv, ArpLookupKeepsInv, ArpAddKeepsInv, ArpWhoseKeepsInv,
              FwdLookupKeepsInv, FwdReadKeepsInv, FwdLinkKeepsInv, PassBeaconKeepsInv,
              RxRouteKeepsInv, RxAddressKeepsInv
           DEF RxStep
<1>6. ASSUME NEW q \in toVtsd, Register(q) PROVE Inv'
  BY <1>6, RegisterKeepsInv
<1>7. CASE MonitorTick
  BY <1>7, MonitorTickKeepsInv
<1>8. CASE UNCHANGED vars
  <2>. USE <1>8 DEF Inv, vars, process, steady, tables, routes, streams, outside, core, Noted
  <2>1. TypeOK'
    BY SMT DEF TypeOK
  <2>2. RoutesAddressed'
    BY SMT DEF RoutesAddressed
  <2>3. RxDone'
    BY SMT DEF RxDone
  <2>4. StreamsReturn'
    BY SMT DEF StreamsReturn, Up
  <2>5. ConnectedRouted'
    BY SMT DEF ConnectedRouted, Up
  <2>6. VnfRouted'
    BY SMT DEF VnfRouted
  <2>. QED BY <2>1, <2>2, <2>3, <2>4, <2>5, <2>6
<1>. QED BY <1>1, <1>2, <1>3, <1>4, <1>5, <1>6, <1>7, <1>8 DEF Next

LEMMA InvHolds == Spec => []Inv
<1>. QED BY InitInv, NextKeepsInv, PTL DEF Spec

\* Type correctness.
THEOREM TypeCorrect == Spec => []TypeOK
<1>1. Inv => TypeOK
  BY DEF Inv
<1>. QED BY <1>1, InvHolds, PTL

\* Whatever the threads are in the middle of and however often the process has
\* been started: what is forwarded has a route and an address, unless the route
\* has been cut off by another addition or is that of a device connected in an
\* earlier life; and the ARP table is never left locked.
THEOREM RouteBack == Spec => []ForwardsOnlyWithRoute
<1>1. Inv => ForwardsOnlyWithRoute
  <2> SUFFICES ASSUME Inv PROVE ForwardsOnlyWithRoute
    OBVIOUS
  <2>1. mutex = "free"
    BY DEF Inv, VnfRouted
  <2>2. ASSUME vnf.at = "route", local[vnf.dev] = None
        PROVE  vnf.dev \in lost \/ (vnf.type = "data" /\ vnf.dev \in elder)
    BY <2>2 DEF Inv, VnfRouted, ConnectedRouted, Noted
  <2>3. ASSUME NEW r \in Rx, rx[r].at = "route", local[rx[r].dev] = None
        PROVE  rx[r].dev \in lost \/ (rx[r].type = "data" /\ rx[r].dev \in elder)
    <3>1. Done(rx[r], arp, Noted, connected) /\ rx[r] \in Packet
      BY DEF Inv, RxDone, TypeOK
    <3>2. rx[r].type = "data" /\ rx[r].dev \in connected
      BY <2>3, <3>1, SMT DEF Done
    <3>. QED BY <2>3, <3>2 DEF Inv, ConnectedRouted, Noted
  <2>4. vnf.at = "address" => vnf.via \in arp
    BY DEF Inv, VnfRouted
  <2>5. \A r \in Rx : rx[r].at = "address" => rx[r].via \in arp
    BY DEF Inv, RxDone, Done
  <2>. QED BY <2>1, <2>2, <2>3, <2>4, <2>5 DEF ForwardsOnlyWithRoute, Handled
<1>. QED BY <1>1, InvHolds, PTL

\* A beacon is passed on with the gateway set, by every thread.
THEOREM GatewayBack == Spec => []PassedWithGateway
<1>1. Inv => PassedWithGateway
  BY SMT DEF Inv, StreamsReturn, PassedWithGateway
<1>. QED BY <1>1, InvHolds, PTL

\* One interface means one rx thread.
OneRx == \A r, s \in Rx : r = s

\* What the only rx thread has read of a chain is what is there when it links.
Alone == lost = {} /\ \A r \in Rx : rx[r].at = "link" => seen[r] = local

\* With one interface no addition cuts off the route of another: then nothing but
\* a restart of the base station makes the way back disappear.
THEOREM OneInterfaceLosesNoRoute == OneRx => (Spec => [](lost = {}))
<1>. SUFFICES ASSUME OneRx PROVE Spec => [](lost = {})
  OBVIOUS
<1>1. Init => Alone
  BY DEF Init, Alone, Idle
<1>2. ASSUME Inv, Alone, [Next]_vars PROVE Alone'
  <2>. USE DEF steady, tables, routes, process, streams, outside, core
  <2>1. CASE Stops
    BY <2>1 DEF Stops, Alone, Idle
  <2>2. ASSUME NEW r \in Rx, FwdRead(r) PROVE Alone'
    BY <1>2, <2>2 DEF FwdRead, Alone, OneRx, Inv, TypeOK
  <2>3. ASSUME NEW r \in Rx, FwdLink(r) PROVE Alone'
    <3>1. seen[r] = local /\ lost = {} /\ rx[r].via \in Device /\ rx \in [Rx -> Packet]
          /\ local \in [Device -> Device \cup {None}] /\ rx[r].dev \in Device
      BY <1>2, <2>3, SMT DEF FwdLink, Handles, Alone, Inv, TypeOK, RxDone, Done
    <3>2. \A d \in Device : local'[d] = None => local[d] = None
      BY <2>3, <3>1, BaseStationAssumption DEF FwdLink
    <3>3. lost' = {}
      BY <2>3, <3>1, <3>2 DEF FwdLink
    <3>4. \A x \in Rx : x = r /\ rx'[x].at = "pass"
      BY <2>3, <3>1 DEF FwdLink, GoesOn, OneRx, Packet
    <3>. QED BY <3>3, <3>4 DEF Alone
  <2>4. ASSUME UNCHANGED <<routes, seen>>,
               \A r \in Rx : rx'[r].at = "link" => rx[r].at = "link"
        PROVE  Alone'
    BY <1>2, <2>4 DEF Alone
  <2>5. CASE UNCHANGED <<rx, seen, lost, local>>
    BY <2>5, <2>4
  <2>6. CASE Start \/ Tx \/ MonitorTick \/ UNCHANGED vars \/ \E q \in toVtsd : Register(q)
    BY <2>5, <2>6 DEF Start, Tx, TxRegister, TxWake, TxReport, MonitorTick, Register, vars
  <2>7. CASE Vnf
    BY <2>5, <2>7 DEF Vnf, TakeOwnReply, TakeReply, TakeData, FwdRoute, FwdAddress
  <2>8. ASSUME NEW r \in Rx, RxStep(r) PROVE Alone'
    <3>1. rx \in [Rx -> Packet]
      BY <1>2 DEF Inv, TypeOK
    <3>2. ASSUME UNCHANGED <<routes, seen>>, NEW p, p.at # "link",
                 rx' = [rx EXCEPT ![r] = p]
          PROVE  Alone'
      BY <2>4, <3>1, <3>2
    <3>3. ASSUME UNCHANGED <<routes, seen>>, NEW place, place # "link", GoesOn(r, place)
          PROVE  Alone'
      <4>1. (IF place = "idle" THEN Idle ELSE [rx[r] EXCEPT !.at = place]).at # "link"
        BY <3>1, <3>3 DEF Idle, Packet
      <4>. QED BY <3>2, <3>3, <4>1 DEF GoesOn
    <3>4. ASSUME NEW d \in Device, NEW m \in Device, HearBeacon(r, d, m) PROVE Alone'
      BY <3>2, <3>4 DEF HearBeacon
    <3>5. ASSUME NEW d \in Device, HearAdvert(r, d) \/ HearDataFor(r, d) PROVE Alone'
      BY <3>2, <3>5 DEF HearAdvert, HearDataFor
    <3>6. ASSUME NEW d \in Device, HearData(r, d) \/ HearUnknown(r, d) PROVE Alone'
      BY <2>1, <2>5, <3>6 DEF HearData, HearUnknown
    <3>7. CASE HearForeign(r) \/ ArpWhose(r)
      BY <2>1, <3>3, <3>7 DEF HearForeign, ArpWhose
    <3>8. CASE ArpLookup(r) \/ ArpAdd(r) \/ FwdLookup(r) \/ PassBeacon(r) \/ RxAddress(r)
      BY <3>3, <3>8 DEF ArpLookup, ArpAdd, FwdLookup, PassBeacon, RxAddress
    <3>9. CASE RxRoute(r)
      <4>1. rx[r].at = "route" /\ Routed(rx[r]).at # "link"
        BY <3>1, <3>9 DEF RxRoute, Handles, Routed, Idle, Packet
      <4>. QED BY <3>2, <3>9, <4>1 DEF RxRoute
    <3>. QED BY <2>2, <2>3, <2>8, <3>4, <3>5, <3>6, <3>7, <3>8, <3>9 DEF RxStep
  <2>. QED BY <1>2, <2>1, <2>6, <2>7, <2>8 DEF Next, Crash, UndefinedFree
<1>3. Alone => lost = {}
  BY DEF Alone
<1>. QED BY <1>1, <1>2, <1>3, InvHolds, PTL DEF Spec
=============================================================================
