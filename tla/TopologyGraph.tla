--------------------------- MODULE TopologyGraph ---------------------------
(***************************************************************************)
(* The vSON topology service (vson/): the graph of nodes and directed      *)
(* links, the southbound threads that feed it with topology reports, the   *)
(* REST interface that adds, removes and reads, and the monitor thread     *)
(* that expires silent nodes.                                              *)
(*                                                                         *)
(* Every handler runs under the global `lock' from its first to its last   *)
(* access to the graph, so a handler is one step.  The monitor's sweep is  *)
(* several steps, because one of its deletions may fail after others have  *)
(* been done; it keeps the lock, so nothing else moves meanwhile.          *)
(***************************************************************************)
EXTENDS Naturals

CONSTANTS
  ID,        \* node identifiers
  Bs,        \* base stations: one TCP connection and one thread each
  Intf,      \* interface indexes
  Quality,   \* link qualities
  MaxFaults  \* bound: file errors and undecodable reports in a behaviour

ASSUME FaultBound == MaxFaults \in Nat

VARIABLES
  nodes,     \* the keys of TopologyGraph.nodes
  alive,     \* the nodes whose `alive' flag is set
  olinks,    \* Node.o_links of every node
  ilinks,    \* Node.i_links of every node
  changed,   \* TopologyGraph.__changed
  njg,       \* TopologyGraph.__njg, the cached network graph
  monitor,   \* the __device_monitor thread
  toDelete,  \* its local list of expired nodes
  listeners, \* the base stations whose __listen_to_bs thread runs
  expired,   \* history: the nodes whose last removal was the monitor's
  faults     \* how many of the MaxFaults have happened

graph == <<nodes, alive, olinks, ilinks>>
cache == <<changed, njg>>
vars  == <<graph, cache, monitor, toDelete, listeners, expired, faults>>

Link == [begin : ID, end : ID, lq : Quality, intf : Intf]

\* Link.isSame: the same two ends and interface, whatever the quality.
Same(l, k) == l.begin = k.begin /\ l.end = k.end /\ l.intf = k.intf

\* The links a report of src may list.  The neighbour table it is taken
\* from is keyed by neighbour; of two entries for one neighbour and
\* interface the graph keeps the first, so a report is a set without twins.
ReportsOf(src) ==
  {S \in SUBSET {l \in Link : l.begin = src} :
     \A l, k \in S : Same(l, k) => l = k}

NetGraph(N, O) == [node |-> N, link |-> UNION {O[n] : n \in N}]

Init ==
  /\ nodes = {} /\ alive = {}
  /\ olinks = [n \in ID |-> {}] /\ ilinks = [n \in ID |-> {}]
  /\ changed = FALSE /\ njg = NetGraph({}, [n \in ID |-> {}])
  /\ monitor = "sleep" /\ toDelete = {}
  /\ listeners = Bs /\ expired = {} /\ faults = 0

\* The links between nodes of the graph.
GraphLink == {l \in Link : l.begin \in nodes /\ l.end \in nodes}

\* The lists hold links of the graph only.
TypeOK ==
  /\ nodes \subseteq ID
  /\ alive \subseteq nodes
  /\ olinks \in [ID -> SUBSET GraphLink]
  /\ ilinks \in [ID -> SUBSET GraphLink]
  /\ changed \in BOOLEAN
  /\ njg \in [node : SUBSET ID, link : SUBSET Link]
  /\ monitor \in {"sleep", "sweep", "dead"}
  /\ toDelete \subseteq ID
  /\ listeners \subseteq Bs
  /\ expired \subseteq ID \ nodes
  /\ faults \in 0..MaxFaults
-----------------------------------------------------------------------------
(* __update_netgraph, called with __changed set: refresh the cache, write  *)
(* it to NETGRAPH_PATH.                                                     *)

Publish ==
  /\ changed' = FALSE
  /\ njg' = NetGraph(nodes', olinks')
  /\ UNCHANGED faults

\* open() raises before the cache is refreshed, json.dump after.
PublishFails ==
  /\ faults < MaxFaults
  /\ faults' = faults + 1
  /\ \/ changed' = TRUE /\ UNCHANGED njg
     \/ changed' = FALSE /\ njg' = NetGraph(nodes', olinks')

\* Mutated: the handlers do not take the lock.
LockIgnored == TRUE

\* The lock is free: the monitor is the only holder that spans steps.
LockFree == monitor # "sweep"

\* add_outlink and add_inlink: append unless a link with the same ends and
\* interface is there; the branch that finds one rebinds a local name.

\* Mutated: the search for a link that is already there is forgotten.
AddToUnchecked(links, S) == links \cup S

AddTo(links, S) == links \cup {l \in S : \A k \in links : ~Same(l, k)}

\* Mutated: the link is in the outgoing list before the end is looked up.
EnforceLinksLate(S) ==
  LET ok == {l \in S : l.begin \in nodes /\ l.end \in nodes}
  IN /\ olinks' = [n \in ID |-> AddTo(olinks[n], {l \in S : l.begin = n})]
     /\ ilinks' = [n \in ID |-> AddTo(ilinks[n], {l \in ok : l.end = n})]

\* __enforce_link refuses a link with an end that is not in the graph.
EnforceLinks(S) ==
  LET ok == {l \in S : l.begin \in nodes /\ l.end \in nodes}
  IN /\ olinks' = [n \in ID |-> AddTo(olinks[n], {l \in ok : l.begin = n})]
     /\ ilinks' = [n \in ID |-> AddTo(ilinks[n], {l \in ok : l.end = n})]

\* A topology report of src reaches vSON through base station c.  A file
\* error is not an NSOException: it ends the thread that serves c.
ReceiveReport(c, src, S) ==
  /\ LockFree /\ c \in listeners /\ src \in nodes
  /\ alive' = alive \cup {src}
  /\ EnforceLinks(S)
  /\ UNCHANGED <<nodes, monitor, toDelete, expired>>
  /\ \/ Publish /\ UNCHANGED listeners
     \/ PublishFails /\ listeners' = listeners \ {c}

\* A payload that struct.unpack refuses, or with no interface (M is then
\* read before it is assigned), ends the thread; the lock is released.
ReceiveUndecodable(c) ==
  /\ LockFree /\ c \in listeners /\ faults < MaxFaults
  /\ listeners' = listeners \ {c}
  /\ faults' = faults + 1
  /\ UNCHANGED <<graph, cache, monitor, toDelete, expired>>

\* The base station connects again: vson.listen starts a thread.
Accept(c) ==
  /\ c \notin listeners
  /\ listeners' = listeners \cup {c}
  /\ UNCHANGED <<graph, cache, monitor, toDelete, expired, faults>>
-----------------------------------------------------------------------------
(* The REST interface. A POST of a node that is there answers 400.          *)

PostNode(n) ==
  /\ LockFree /\ n \notin nodes
  /\ nodes' = nodes \cup {n}
  /\ alive' = alive \cup {n}
  /\ expired' = expired \ {n}
  /\ UNCHANGED <<olinks, ilinks, monitor, toDelete, listeners>>
  /\ Publish \/ PublishFails

\* Mutated: only the nodes that n reported are cleaned, not those that
\* reported n.
RemoveOutLinksOnly(n) ==
  /\ nodes' = nodes \ {n}
  /\ alive' = alive \ {n}
  /\ olinks' = [olinks EXCEPT ![n] = {}]
  /\ ilinks' = [m \in ID |-> IF m = n THEN {} ELSE {l \in ilinks[m] : l.begin # n}]

\* The graph part of delete_node: the links of n tell which other nodes to
\* clean; each loses its links with n; then n goes.
Remove(n) ==
  /\ nodes' = nodes \ {n}
  /\ alive' = alive \ {n}
  /\ olinks' = [m \in ID |->
       IF m = n THEN {}
       ELSE IF \E l \in ilinks[n] : l.begin = m THEN {l \in olinks[m] : l.end # n}
       ELSE olinks[m]]
  /\ ilinks' = [m \in ID |->
       IF m = n THEN {}
       ELSE IF \E l \in olinks[n] : l.end = m THEN {l \in ilinks[m] : l.begin # n}
       ELSE ilinks[m]]

DeleteNode(n) ==
  /\ LockFree /\ n \in nodes
  /\ Remove(n)
  /\ toDelete' = toDelete \ {n}
  /\ Publish \/ PublishFails
  /\ UNCHANGED <<monitor, listeners, expired>>

\* Mutated: the out-of-date mark is cleared and the old graph returned.
GetTopologyStale ==
  /\ LockFree
  /\ changed' = FALSE
  /\ UNCHANGED <<graph, njg, monitor, toDelete, listeners, expired, faults>>

\* get_topo_all refreshes the cache when it is marked out of date.
GetTopology ==
  /\ LockFree
  /\ changed' = FALSE
  /\ njg' = IF changed THEN NetGraph(nodes, olinks) ELSE njg
  /\ UNCHANGED <<graph, monitor, toDelete, listeners, expired, faults>>
-----------------------------------------------------------------------------
(* __device_monitor                                                         *)

\* Mutated: the flags are read and never cleared.
MonitorTickKeepsFlags ==
  /\ monitor = "sleep"
  /\ monitor' = "sweep"
  /\ toDelete' = nodes \ alive
  /\ UNCHANGED <<graph, cache, listeners, expired, faults>>

\* Take the lock; nodes not heard since the last tick are to be deleted.
MonitorTick ==
  /\ monitor = "sleep"
  /\ monitor' = "sweep"
  /\ toDelete' = nodes \ alive
  /\ alive' = {}
  /\ UNCHANGED <<nodes, olinks, ilinks, cache, listeners, expired, faults>>

\* Delete one of them.  An exception is logged and raised again: the lock is
\* released and the thread ends, the other nodes of its list undeleted.
MonitorDelete(n) ==
  /\ monitor = "sweep" /\ n \in toDelete
  /\ Remove(n)
  /\ toDelete' = toDelete \ {n}
  /\ expired' = expired \cup {n}
  /\ \/ Publish /\ UNCHANGED monitor
     \/ PublishFails /\ monitor' = "dead"
  /\ UNCHANGED listeners

\* Release the lock and sleep until the next period.
MonitorSleep ==
  /\ monitor = "sweep" /\ toDelete = {}
  /\ monitor' = "sleep"
  /\ UNCHANGED <<graph, cache, toDelete, listeners, expired, faults>>

MonitorStep == MonitorTick \/ MonitorSleep \/ \E n \in ID : MonitorDelete(n)

Next ==
  \/ \E c \in Bs, src \in ID : \E S \in ReportsOf(src) : ReceiveReport(c, src, S)
  \/ \E c \in Bs : ReceiveUndecodable(c) \/ Accept(c)
  \/ \E n \in ID : PostNode(n) \/ DeleteNode(n)
  \/ GetTopology
  \/ MonitorStep

Spec == Init /\ [][Next]_vars

\* The monitor is a thread with a periodic timer and nothing else holds the
\* lock across steps; nobody is obliged to report, post or delete.
FairSpec == Spec /\ WF_vars(MonitorStep)
-----------------------------------------------------------------------------
(* Properties                                                               *)

\* Every link is in the outgoing list of its begin and in the incoming list
\* of its end, with the same quality, and both ends are in the graph: so
\* delete_node finds every node it cleans (`self.nodes[l.end]' never raises
\* KeyError) and leaves no link to a node that is gone.
LinkSymmetry ==
  /\ \A n \in ID : \A l \in olinks[n] :
       n \in nodes /\ l.begin = n /\ l.end \in nodes /\ l \in ilinks[l.end]
  /\ \A n \in ID : \A l \in ilinks[n] :
       n \in nodes /\ l.end = n /\ l.begin \in nodes /\ l \in olinks[l.begin]

\* However often a node reports, expires and comes back, the graph holds at
\* most one link per begin, end and interface.
UniqueLinks ==
  \A n \in ID : \A l, k \in olinks[n] \cup ilinks[n] : Same(l, k) => l = k

\* A cached graph not marked out of date is the graph, file errors or not:
\* the REST reader never sees a node or link that is gone, nor misses one.
CacheCoherent == ~changed => njg = NetGraph(nodes, olinks)

\* What the graph, the flags and the monitor's list say of a node.
MarkOf == [n \in ID |-> IF n \in expired THEN "expired"
                        ELSE IF n \notin nodes THEN "absent"
                        ELSE IF n \in alive THEN "fresh"
                        ELSE IF n \in toDelete THEN "doomed" ELSE "stale"]

M == INSTANCE Membership WITH mark <- MarkOf

\* Nodes are admitted once, renewed by reports, withdrawn by a DELETE, and
\* removed by the monitor only after a full silent period: whatever fails
\* during a sweep, and whatever is reported, posted or deleted around it, no
\* node that was heard since the last tick is among those a sweep removes.
ImplementsMembership == M!Spec

\* A node that falls silent for good leaves the graph, unless a file error
\* has ended the monitor thread: a node that stays is heard again and again.
SilentNodeLeaves ==
  \A n \in ID : \/ []<>(n \notin nodes)
               \/ []<><<n \notin alive /\ n \in alive'>>_vars
               \/ <>(monitor = "dead")
=============================================================================
