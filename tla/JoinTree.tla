------------------------------ MODULE JoinTree ------------------------------
(***************************************************************************)
(* What joining the network comes to, with no frame, table or connection: *)
(* vTSD accepts nodes; an accepted base station is its own gateway; an     *)
(* accepted device joins once, below a node that has joined before it, and *)
(* takes over that node's gateway.  So the devices of each gateway are a   *)
(* tree below it that only ever grows by leaves.                           *)
(*                                                                         *)
(* Registration is shown to implement this module.                        *)
(***************************************************************************)
CONSTANTS
  Device, Bs,
  None        \* no node

Node == Device \cup Bs

VARIABLES
  accepted,   \* the nodes vTSD has accepted
  gateway,    \* gateway[n]: the base station below which n has joined, or None
  parent      \* parent[d]: the node that device d has joined over, or None

vars == <<accepted, gateway, parent>>

Init ==
  /\ accepted = {}
  /\ gateway = [n \in Node |-> None]
  /\ parent = [d \in Device |-> None]

Accept(n) ==
  /\ accepted' = accepted \cup {n}
  /\ UNCHANGED <<gateway, parent>>

\* Base station b joins.
Open(b) ==
  /\ b \in accepted /\ gateway[b] = None
  /\ gateway' = [gateway EXCEPT ![b] = b]
  /\ UNCHANGED <<accepted, parent>>

\* Device d joins below p.
Join(d, p) ==
  /\ d \in accepted /\ gateway[d] = None
  /\ gateway[p] # None
  /\ gateway' = [gateway EXCEPT ![d] = gateway[p]]
  /\ parent' = [parent EXCEPT ![d] = p]
  /\ UNCHANGED accepted

Next ==
  \/ \E n \in Node : Accept(n)
  \/ \E b \in Bs : Open(b)
  \/ \E d \in Device, p \in Node : Join(d, p)

Spec == Init /\ [][Next]_vars
=============================================================================
