------------------------ MODULE TopologyGraph_proofs ------------------------
(***************************************************************************)
(* Theorems about TopologyGraph, for every set of nodes, base stations,    *)
(* interfaces and qualities and every bound on faults.                     *)
(***************************************************************************)
EXTENDS TopologyGraph, TLAPS

\* What every step keeps by itself of the type: that the links end at nodes
\* of the graph needs the lists to mirror each other.
Types ==
  /\ nodes \subseteq ID
  /\ alive \subseteq nodes
  /\ olinks \in [ID -> SUBSET Link]
  /\ ilinks \in [ID -> SUBSET Link]
  /\ changed \in BOOLEAN
  /\ njg \in [node : SUBSET ID, link : SUBSET Link]
  /\ monitor \in {"sleep", "sweep", "dead"}
  /\ toDelete \subseteq ID
  /\ listeners \subseteq Bs
  /\ expired \subseteq ID \ nodes
  /\ faults \in 0..MaxFaults

\* Enforcing the links of a report keeps the lists of links.
LEMMA EnforceLinksType ==
  ASSUME Types, NEW src \in ID, NEW S \in ReportsOf(src), EnforceLinks(S)
  PROVE  /\ olinks' \in [ID -> SUBSET Link]
         /\ ilinks' \in [ID -> SUBSET Link]
  BY DEF Types, EnforceLinks, AddTo, ReportsOf

\* Removing a node keeps the types.
LEMMA RemoveType ==
  ASSUME Types, NEW n \in ID, Remove(n)
  PROVE  /\ olinks' \in [ID -> SUBSET Link]
         /\ ilinks' \in [ID -> SUBSET Link]
         /\ nodes' \subseteq ID
         /\ alive' \subseteq nodes'
  <1>1. /\ nodes' \subseteq ID
        /\ alive' \subseteq nodes'
    BY DEF Types, Remove
  <1>2. olinks' \in [ID -> SUBSET Link]
    BY DEF Types, Remove
  <1>3. ilinks' \in [ID -> SUBSET Link]
    BY DEF Types, Remove
  <1>4. QED
    BY <1>1, <1>2, <1>3

\* What the cache may hold after a publication, complete or failed.
LEMMA PublishType ==
  ASSUME Types, Publish \/ PublishFails,
         nodes' \subseteq ID, olinks' \in [ID -> SUBSET Link]
  PROVE  /\ changed' \in BOOLEAN
         /\ njg' \in [node : SUBSET ID, link : SUBSET Link]
         /\ faults' \in 0..MaxFaults
  <1>1. NetGraph(nodes', olinks') \in [node : SUBSET ID, link : SUBSET Link]
    BY DEF NetGraph
  <1>2. CASE Publish
    BY <1>1, <1>2 DEF Publish, Types
  <1>3. CASE PublishFails
    <2>1. faults' \in 0..MaxFaults
      BY <1>3, FaultBound DEF PublishFails, Types
    <2>2. /\ changed' \in BOOLEAN
          /\ njg' = njg \/ njg' = NetGraph(nodes', olinks')
      BY <1>3 DEF PublishFails
    <2>3. QED
      BY <1>1, <2>1, <2>2 DEF Types
  <1>4. QED
    BY <1>2, <1>3

\* Every step keeps the types.
LEMMA TypeStep == Types /\ [Next]_vars => Types'
  <1> SUFFICES ASSUME Types, [Next]_vars PROVE Types'
    OBVIOUS
  <1>1. ASSUME NEW c \in Bs, NEW src \in ID, NEW S \in ReportsOf(src),
               ReceiveReport(c, src, S)
        PROVE  Types'
    <2>1. EnforceLinks(S) /\ nodes' = nodes /\ alive' = alive \cup {src}
          /\ src \in nodes /\ UNCHANGED <<monitor, toDelete, expired>>
          /\ (Publish \/ PublishFails)
          /\ (listeners' = listeners \/ listeners' = listeners \ {c})
      BY <1>1 DEF ReceiveReport
    <2>2. olinks' \in [ID -> SUBSET Link] /\ ilinks' \in [ID -> SUBSET Link]
      BY <2>1, EnforceLinksType
    <2>3. nodes' \subseteq ID
      BY <2>1 DEF Types
    <2>4. /\ changed' \in BOOLEAN
          /\ njg' \in [node : SUBSET ID, link : SUBSET Link]
          /\ faults' \in 0..MaxFaults
      BY <2>1, <2>2, <2>3, PublishType
    <2>5. QED
      BY <2>1, <2>2, <2>3, <2>4 DEF Types
  <1>2. ASSUME NEW c \in Bs, ReceiveUndecodable(c)
        PROVE  Types'
    BY <1>2, FaultBound DEF ReceiveUndecodable, graph, cache, Types
  <1>3. ASSUME NEW c \in Bs, Accept(c)
        PROVE  Types'
    BY <1>3 DEF Accept, graph, cache, Types
  <1>4. ASSUME NEW n \in ID, PostNode(n)
        PROVE  Types'
    <2>1. /\ nodes' = nodes \cup {n} /\ alive' = alive \cup {n}
          /\ expired' = expired \ {n}
          /\ UNCHANGED <<olinks, ilinks, monitor, toDelete, listeners>>
          /\ Publish \/ PublishFails
      BY <1>4 DEF PostNode
    <2>2. /\ changed' \in BOOLEAN
          /\ njg' \in [node : SUBSET ID, link : SUBSET Link]
          /\ faults' \in 0..MaxFaults
      BY <2>1, PublishType DEF Types
    <2>3. QED
      BY <2>1, <2>2 DEF Types
  <1>5. ASSUME NEW n \in ID, DeleteNode(n)
        PROVE  Types'
    <2>1. /\ Remove(n) /\ toDelete' = toDelete \ {n}
          /\ Publish \/ PublishFails
          /\ UNCHANGED <<monitor, listeners, expired>>
      BY <1>5 DEF DeleteNode
    <2>2. /\ olinks' \in [ID -> SUBSET Link] /\ ilinks' \in [ID -> SUBSET Link]
          /\ nodes' \subseteq ID /\ alive' \subseteq nodes'
          /\ nodes' = nodes \ {n}
      BY <2>1, RemoveType DEF Remove
    <2>3. /\ changed' \in BOOLEAN
          /\ njg' \in [node : SUBSET ID, link : SUBSET Link]
          /\ faults' \in 0..MaxFaults
      BY <2>1, <2>2, PublishType
    <2>4. QED
      BY <2>1, <2>2, <2>3 DEF Types
  <1>6. CASE GetTopology
    <2>1. NetGraph(nodes, olinks) \in [node : SUBSET ID, link : SUBSET Link]
      BY DEF NetGraph, Types
    <2>2. QED
      BY <1>6, <2>1 DEF GetTopology, graph, Types
  <1>7. CASE MonitorTick
    BY <1>7 DEF MonitorTick, cache, Types
  <1>8. ASSUME NEW n \in ID, MonitorDelete(n)
        PROVE  Types'
    <2>1. /\ Remove(n) /\ toDelete' = toDelete \ {n}
          /\ Publish \/ PublishFails
          /\ monitor' = monitor \/ monitor' = "dead"
          /\ expired' = expired \cup {n}
          /\ UNCHANGED listeners
      BY <1>8 DEF MonitorDelete
    <2>2. /\ olinks' \in [ID -> SUBSET Link] /\ ilinks' \in [ID -> SUBSET Link]
          /\ nodes' \subseteq ID /\ alive' \subseteq nodes'
          /\ nodes' = nodes \ {n}
      BY <2>1, RemoveType DEF Remove
    <2>3. /\ changed' \in BOOLEAN
          /\ njg' \in [node : SUBSET ID, link : SUBSET Link]
          /\ faults' \in 0..MaxFaults
      BY <2>1, <2>2, PublishType
    <2>4. QED
      BY <2>1, <2>2, <2>3 DEF Types
  <1>9. CASE MonitorSleep
    BY <1>9 DEF MonitorSleep, graph, cache, Types
  <1>10. CASE UNCHANGED vars
    BY <1>10 DEF vars, graph, cache, Types
  <1>11. QED
    BY <1>1, <1>2, <1>3, <1>4, <1>5, <1>6, <1>7, <1>8, <1>9, <1>10
    DEF Next, MonitorStep

\* And so they hold of every reachable state.
LEMMA TypesHold == Spec => []Types
  <1>1. Init => Types
    <2> SUFFICES ASSUME Init PROVE Types
      OBVIOUS
    <2>1. faults \in 0..MaxFaults
      BY FaultBound DEF Init
    <2>2. njg \in [node : SUBSET ID, link : SUBSET Link]
      BY DEF Init, NetGraph
    <2>3. QED
      BY <2>1, <2>2 DEF Init, Types
  <1>2. QED
    BY <1>1, TypeStep, PTL DEF Spec
-----------------------------------------------------------------------------
(* The links *)

\* A report adds a link to both lists or to neither: a twin in one list is,
\* by symmetry, a twin in the other.
LEMMA EnforceLinksSymmetric ==
  ASSUME Types, LinkSymmetry, NEW src \in ID, NEW S \in ReportsOf(src),
         EnforceLinks(S), nodes' = nodes
  PROVE  LinkSymmetry'
  <1>1. ASSUME NEW n \in ID, NEW l \in olinks'[n]
        PROVE  n \in nodes' /\ l.begin = n /\ l.end \in nodes' /\ l \in ilinks'[l.end]
    <2>1. CASE l \in olinks[n]
      BY <2>1 DEF LinkSymmetry, EnforceLinks, AddTo, Types, Link
    <2>2. CASE l \notin olinks[n]
      <3>1. /\ l \in S /\ l \in Link /\ l.begin = n /\ n \in nodes /\ l.end \in nodes
            /\ \A k \in olinks[n] : ~Same(l, k)
        BY <1>1, <2>2 DEF EnforceLinks, AddTo, ReportsOf
      <3>2. \A k \in ilinks[l.end] : ~Same(l, k)
        BY <3>1 DEF LinkSymmetry, Same, Types
      <3>3. l \in ilinks'[l.end]
        BY <3>1, <3>2 DEF EnforceLinks, AddTo, Types
      <3>4. QED
        BY <3>1, <3>3
    <2>3. QED
      BY <2>1, <2>2
  <1>2. ASSUME NEW n \in ID, NEW l \in ilinks'[n]
        PROVE  n \in nodes' /\ l.end = n /\ l.begin \in nodes' /\ l \in olinks'[l.begin]
    <2>1. CASE l \in ilinks[n]
      BY <2>1 DEF LinkSymmetry, EnforceLinks, AddTo, Types, Link
    <2>2. CASE l \notin ilinks[n]
      <3>1. /\ l \in S /\ l \in Link /\ l.end = n /\ n \in nodes /\ l.begin \in nodes
            /\ \A k \in ilinks[n] : ~Same(l, k)
        BY <1>2, <2>2 DEF EnforceLinks, AddTo, ReportsOf
      <3>2. \A k \in olinks[l.begin] : ~Same(l, k)
        BY <3>1 DEF LinkSymmetry, Same, Types
      <3>3. l \in olinks'[l.begin]
        BY <3>1, <3>2 DEF EnforceLinks, AddTo, Types
      <3>4. QED
        BY <3>1, <3>3
    <2>3. QED
      BY <2>1, <2>2
  <1>3. QED
    BY <1>1, <1>2 DEF LinkSymmetry

\* Deleting n cleans every node that has a link with n: symmetry says that
\* the lists of n name them all.
LEMMA RemoveSymmetric ==
  ASSUME Types, LinkSymmetry, NEW n \in ID, Remove(n)
  PROVE  LinkSymmetry'
  <1>1. ASSUME NEW m \in ID, NEW l \in olinks'[m]
        PROVE  m \in nodes' /\ l.begin = m /\ l.end \in nodes' /\ l \in ilinks'[l.end]
    <2>1. m # n /\ l \in olinks[m]
      BY <1>1 DEF Remove
    <2>2. m \in nodes /\ l.begin = m /\ l.end \in nodes /\ l \in ilinks[l.end]
      BY <2>1 DEF LinkSymmetry
    <2>3. l.end # n
      BY <1>1, <2>1, <2>2 DEF Remove
    <2>4. l \in ilinks'[l.end]
      BY <2>1, <2>2, <2>3 DEF Remove, Types
    <2>5. QED
      BY <2>1, <2>2, <2>3, <2>4 DEF Remove
  <1>2. ASSUME NEW m \in ID, NEW l \in ilinks'[m]
        PROVE  m \in nodes' /\ l.end = m /\ l.begin \in nodes' /\ l \in olinks'[l.begin]
    <2>1. m # n /\ l \in ilinks[m]
      BY <1>2 DEF Remove
    <2>2. m \in nodes /\ l.end = m /\ l.begin \in nodes /\ l \in olinks[l.begin]
      BY <2>1 DEF LinkSymmetry
    <2>3. l.begin # n
      BY <1>2, <2>1, <2>2 DEF Remove
    <2>4. l \in olinks'[l.begin]
      BY <2>1, <2>2, <2>3 DEF Remove, Types
    <2>5. QED
      BY <2>1, <2>2, <2>3, <2>4 DEF Remove
  <1>3. QED
    BY <1>1, <1>2 DEF LinkSymmetry

\* Every step keeps the lists mirrored: only reports and removals touch them.
LEMMA SymmetryStep == Types /\ LinkSymmetry /\ [Next]_vars => LinkSymmetry'
  <1> SUFFICES ASSUME Types, LinkSymmetry, [Next]_vars PROVE LinkSymmetry'
    OBVIOUS
  <1>1. ASSUME NEW c \in Bs, NEW src \in ID, NEW S \in ReportsOf(src),
               ReceiveReport(c, src, S)
        PROVE  LinkSymmetry'
    BY <1>1, EnforceLinksSymmetric DEF ReceiveReport
  <1>2. ASSUME NEW n \in ID, PostNode(n)
        PROVE  LinkSymmetry'
    BY <1>2 DEF PostNode, LinkSymmetry
  <1>3. ASSUME NEW n \in ID, DeleteNode(n) \/ MonitorDelete(n)
        PROVE  LinkSymmetry'
    BY <1>3, RemoveSymmetric DEF DeleteNode, MonitorDelete
  <1>4. CASE UNCHANGED <<nodes, olinks, ilinks>>
    BY <1>4 DEF LinkSymmetry
  <1>5. QED
    BY <1>1, <1>2, <1>3, <1>4
    DEF Next, MonitorStep, ReceiveUndecodable, Accept, GetTopology,
        MonitorTick, MonitorSleep, vars, graph

\* Links are symmetric and have both ends in the graph, whatever is reported,
\* deleted or expired, in any order.
THEOREM LinksAreSymmetric == Spec => []LinkSymmetry
  <1>1. Init => LinkSymmetry
    BY DEF Init, LinkSymmetry
  <1>2. QED
    BY <1>1, TypesHold, SymmetryStep, PTL DEF Spec

\* The state of the service is always of its type, and its lists hold links
\* between nodes of the graph only.
THEOREM TypeCorrect == Spec => []TypeOK
  <1>1. Types /\ LinkSymmetry => TypeOK
    <2> SUFFICES ASSUME Types, LinkSymmetry PROVE TypeOK
      OBVIOUS
    <2>1. \A n \in ID : olinks[n] \subseteq GraphLink /\ ilinks[n] \subseteq GraphLink
      <3>1. ASSUME NEW n \in ID, NEW l \in olinks[n] PROVE l \in GraphLink
        <4>1. l \in Link
          BY DEF Types
        <4>2. l.begin \in nodes /\ l.end \in nodes
          BY DEF LinkSymmetry
        <4>3. QED
          BY <4>1, <4>2 DEF GraphLink
      <3>2. ASSUME NEW n \in ID, NEW l \in ilinks[n] PROVE l \in GraphLink
        <4>1. l \in Link
          BY DEF Types
        <4>2. l.begin \in nodes /\ l.end \in nodes
          BY DEF LinkSymmetry
        <4>3. QED
          BY <4>1, <4>2 DEF GraphLink
      <3>3. QED
        BY <3>1, <3>2
    <2>2. olinks \in [ID -> SUBSET GraphLink] /\ ilinks \in [ID -> SUBSET GraphLink]
      BY <2>1 DEF Types
    <2>3. QED
      BY <2>2 DEF Types, TypeOK
  <1>2. QED
    BY <1>1, TypesHold, LinksAreSymmetric, PTL
-----------------------------------------------------------------------------
(* One link per begin, end and interface *)

\* A new link has no twin among the old ones (AddTo), and the report that
\* brings it lists no twins; by symmetry the outgoing lists speak for both.
LEMMA EnforceLinksUnique ==
  ASSUME Types, LinkSymmetry, UniqueLinks, NEW src \in ID,
         NEW S \in ReportsOf(src), EnforceLinks(S), LinkSymmetry'
  PROVE  UniqueLinks'
  <1>1. ASSUME NEW n \in ID, NEW l \in olinks'[n], NEW k \in olinks'[n], Same(l, k)
        PROVE  l = k
    <2>1. (l \in olinks[n] \/ l \in S) /\ (k \in olinks[n] \/ k \in S)
      BY <1>1 DEF EnforceLinks, AddTo
    <2>2. CASE l \in olinks[n] /\ k \in olinks[n]
      BY <1>1, <2>2 DEF UniqueLinks
    <2>3. CASE l \in S /\ k \in S
      BY <1>1, <2>3 DEF ReportsOf
    <2>4. CASE l \in olinks[n] /\ k \notin olinks[n]
      BY <1>1, <2>4 DEF EnforceLinks, AddTo, Same
    <2>5. CASE l \notin olinks[n] /\ k \in olinks[n]
      BY <1>1, <2>5 DEF EnforceLinks, AddTo, Same
    <2>6. QED
      BY <2>1, <2>2, <2>3, <2>4, <2>5
  <1>2. ASSUME NEW n \in ID, NEW l \in ilinks'[n], NEW k \in ilinks'[n], Same(l, k)
        PROVE  l = k
    <2>1. /\ l \in olinks'[l.begin] /\ k \in olinks'[l.begin]
          /\ l.begin \in nodes'
      BY <1>2 DEF LinkSymmetry, Same
    <2>2. l.begin \in ID
      <3>1. \A x \in ID : \A y \in ilinks[x] : y.begin \in ID
        BY DEF Types, Link
      <3>2. \A y \in S : y.begin \in ID
        BY DEF ReportsOf, Link
      <3>3. l \in ilinks[n] \/ l \in S
        BY <1>2 DEF EnforceLinks, AddTo
      <3>4. QED
        BY <3>1, <3>2, <3>3
    <2>3. QED
      BY <1>1, <1>2, <2>1, <2>2
  <1>3. ASSUME NEW n \in ID, NEW l \in olinks'[n], NEW k \in ilinks'[n], Same(l, k)
        PROVE  l = k
    BY <1>1, <1>3 DEF LinkSymmetry, Same
  <1>4. ASSUME NEW n \in ID, NEW l \in olinks'[n] \cup ilinks'[n],
               NEW k \in olinks'[n] \cup ilinks'[n], Same(l, k)
        PROVE  l = k
    <2>1. Same(k, l)
      BY <1>4 DEF Same
    <2>2. QED
      BY <1>1, <1>2, <1>3, <1>4, <2>1
  <1>5. QED
    BY <1>4 DEF UniqueLinks

\* Every step keeps links unique; it needs symmetry to know the other list.
LEMMA UniqueStep ==
  Types /\ LinkSymmetry /\ UniqueLinks /\ [Next]_vars => UniqueLinks'
  <1> SUFFICES ASSUME Types, LinkSymmetry, UniqueLinks, [Next]_vars
               PROVE  UniqueLinks'
    OBVIOUS
  <1>1. ASSUME NEW c \in Bs, NEW src \in ID, NEW S \in ReportsOf(src),
               ReceiveReport(c, src, S)
        PROVE  UniqueLinks'
    BY <1>1, SymmetryStep, EnforceLinksUnique DEF ReceiveReport
  <1>2. ASSUME NEW n \in ID, DeleteNode(n) \/ MonitorDelete(n)
        PROVE  UniqueLinks'
    <2>1. \A m \in ID : olinks'[m] \subseteq olinks[m] /\ ilinks'[m] \subseteq ilinks[m]
      BY <1>2 DEF DeleteNode, MonitorDelete, Remove
    <2>2. QED
      BY <2>1 DEF UniqueLinks
  <1>3. CASE UNCHANGED <<olinks, ilinks>>
    BY <1>3 DEF UniqueLinks
  <1>4. QED
    BY <1>1, <1>2, <1>3
    DEF Next, MonitorStep, ReceiveUndecodable, Accept, PostNode, GetTopology,
        MonitorTick, MonitorSleep, vars, graph

\* However often a node reports, leaves and comes back, a link has no twin.
THEOREM LinksAreUnique == Spec => []UniqueLinks
  <1>1. Init => UniqueLinks
    BY DEF Init, UniqueLinks
  <1>2. QED
    BY <1>1, TypesHold, LinksAreSymmetric, UniqueStep, PTL DEF Spec
-----------------------------------------------------------------------------
(* The cache *)

\* Every step keeps the cache coherent.
LEMMA CacheStep == Types /\ CacheCoherent /\ [Next]_vars => CacheCoherent'
  <1> SUFFICES ASSUME Types, CacheCoherent, [Next]_vars PROVE CacheCoherent'
    OBVIOUS
  <1>1. CASE Publish \/ PublishFails
    BY <1>1 DEF Publish, PublishFails, CacheCoherent
  <1>2. CASE GetTopology
    BY <1>2 DEF GetTopology, graph, CacheCoherent, Types
  <1>3. CASE UNCHANGED <<nodes, olinks, changed, njg>>
    BY <1>3 DEF CacheCoherent
  <1>4. QED
    BY <1>1, <1>2, <1>3
    DEF Next, MonitorStep, ReceiveReport, ReceiveUndecodable, Accept, PostNode,
        DeleteNode, MonitorTick, MonitorDelete, MonitorSleep, vars, graph, cache

\* The cached graph is the graph unless it is marked out of date, although a
\* file error may interrupt any publication.
THEOREM CacheIsCoherent == Spec => []CacheCoherent
  <1>1. Init => CacheCoherent
    BY DEF Init, CacheCoherent, NetGraph
  <1>2. QED
    BY <1>1, TypesHold, CacheStep, PTL DEF Spec
-----------------------------------------------------------------------------
(* TopologyGraph implements Membership *)

\* During a sweep no flag is set; between sweeps no node awaits deletion.
SweepInv ==
  /\ toDelete \subseteq nodes
  /\ monitor = "sweep" => alive = {}
  /\ monitor = "sleep" => toDelete = {}

\* Every step keeps what the sweep relies on.
LEMMA SweepStep == Types /\ SweepInv /\ [Next]_vars => SweepInv'
  <1> SUFFICES ASSUME Types, SweepInv, [Next]_vars PROVE SweepInv'
    OBVIOUS
  <1> USE DEF SweepInv, Types
  <1>1. ASSUME NEW c \in Bs, NEW src \in ID, NEW S \in ReportsOf(src),
               ReceiveReport(c, src, S)
        PROVE  SweepInv'
    BY <1>1 DEF ReceiveReport, LockFree
  <1>2. ASSUME NEW n \in ID, PostNode(n)
        PROVE  SweepInv'
    BY <1>2 DEF PostNode, LockFree
  <1>3. ASSUME NEW n \in ID, DeleteNode(n)
        PROVE  SweepInv'
    BY <1>3 DEF DeleteNode, Remove, LockFree
  <1>4. CASE MonitorTick
    BY <1>4 DEF MonitorTick
  <1>5. ASSUME NEW n \in ID, MonitorDelete(n)
        PROVE  SweepInv'
    BY <1>5 DEF MonitorDelete, Remove
  <1>6. CASE MonitorSleep
    BY <1>6 DEF MonitorSleep, graph
  <1>7. CASE UNCHANGED <<nodes, alive, monitor, toDelete>>
    BY <1>7
  <1>8. QED
    BY <1>1, <1>2, <1>3, <1>4, <1>5, <1>6, <1>7
    DEF Next, MonitorStep, ReceiveUndecodable, Accept, GetTopology, vars, graph

\* And so it holds of every reachable state.
LEMMA SweepInvariant == Spec => []SweepInv
  <1>1. Init => SweepInv
    BY DEF Init, SweepInv
  <1>2. QED
    BY <1>1, TypesHold, SweepStep, PTL DEF Spec

\* Every step of the service is a step of the membership or leaves it alone:
\* a report renews, a DELETE withdraws, a sweep's start ages everybody at
\* once, each of its deletions expires a node that two ticks found silent.
LEMMA MembershipStep ==
  Types /\ SweepInv /\ SweepInv' /\ [Next]_vars => [M!Next]_MarkOf
  <1> SUFFICES ASSUME Types, SweepInv, SweepInv', [Next]_vars
               PROVE  M!Next \/ MarkOf' = MarkOf
    OBVIOUS
  <1>1. ASSUME NEW c \in Bs, NEW src \in ID, NEW S \in ReportsOf(src),
               ReceiveReport(c, src, S)
        PROVE  M!Renew(src)
    BY <1>1 DEF ReceiveReport, M!Renew, M!Known, MarkOf, Types
  <1>2. ASSUME NEW n \in ID, PostNode(n)
        PROVE  M!Admit(n)
    BY <1>2 DEF PostNode, M!Admit, M!Known, MarkOf, Types
  <1>3. ASSUME NEW n \in ID, DeleteNode(n)
        PROVE  M!Withdraw(n)
    BY <1>3 DEF DeleteNode, Remove, M!Withdraw, M!Known, MarkOf, Types
  <1>4. CASE MonitorTick
    <2>1. \A n \in ID : MarkOf[n] # "doomed"
      BY <1>4 DEF MonitorTick, MarkOf, SweepInv
    <2>2. MarkOf' = [n \in ID |-> M!Older(MarkOf[n])]
      BY <1>4 DEF MonitorTick, MarkOf, SweepInv, M!Older, Types
    <2>3. M!Tick
      BY <2>1, <2>2 DEF M!Tick
    <2>4. QED
      BY <2>3 DEF M!Next
  <1>5. ASSUME NEW n \in ID, MonitorDelete(n)
        PROVE  M!Expire(n)
    BY <1>5 DEF MonitorDelete, Remove, M!Expire, MarkOf, SweepInv, Types
  <1>6. CASE UNCHANGED <<nodes, alive, toDelete, expired>>
    BY <1>6 DEF MarkOf
  <1>7. QED
    BY <1>1, <1>2, <1>3, <1>4, <1>5, <1>6
    DEF Next, MonitorStep, ReceiveUndecodable, Accept, GetTopology,
        MonitorSleep, vars, graph, M!Next

\* Admission, renewal, withdrawal and expiry of the service are those of
\* Membership: no interleaving of reports, deletions, failed publications and
\* sweeps makes the monitor remove a node that was heard within the last full
\* period.
THEOREM GraphImplementsMembership == Spec => ImplementsMembership
  <1>1. Init => M!Init
    BY DEF Init, M!Init, MarkOf
  <1>2. QED
    BY <1>1, TypesHold, SweepInvariant, MembershipStep, PTL
    DEF Spec, M!Spec, ImplementsMembership
=============================================================================
