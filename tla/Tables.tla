------------------------------- MODULE Tables -------------------------------
(***************************************************************************)
(* The tables of a node: ARP ("arp", arp.c), neighbours ("nbr",            *)
(* neighbor.c), routes left by beacons ("local") and sent by vSON ("son",  *)
(* both fwding.c), and a base station's connections to VNFs ("bspc",       *)
(* bspc.c).  Each is a list of entries that also hang in the buckets of a  *)
(* hash table; ARP has a second one, by address.  The callers are those of *)
(* bs/src/bs_lib, which looks up under the lock and then, in a section of  *)
(* its own, adds what it did not find.                                     *)
(*                                                                         *)
(* A behaviour is of one table, whose kind the first state chooses.  ARP   *)
(* and neighbour tables take their mutex: a critical section is a step.    *)
(* Routes are added and deleted without one (fwding.c tests                *)
(* FWD_THREAD_SAFE, fwding.h defines FWDT_THREAD_SAFE): each read and each *)
(* group of writes of an addition is a step.                               *)
(***************************************************************************)
EXTENDS LinkedList, Integers, FiniteSetsExt

CONSTANTS
  Kinds,      \* the tables looked at
  Id,         \* device ids (protocol numbers in "bspc")
  Hop,        \* next hops; those who hear a device itself note Direct
  Direct,
  Rx,         \* threads that handle packets
  FwdWriter,  \* those of them that change the routes
  HashId(_),  \* the bucket of an id
  HashAddr(_),\* the bucket of its address
  None        \* no id: the entry is not allocated; no next hop

ASSUME TableAssumption ==
  /\ Kinds \subseteq {"arp", "nbr", "local", "son", "bspc"}
  /\ None \notin Id /\ Direct \in Hop /\ None \notin Hop
  /\ FwdWriter \subseteq Rx
  /\ \A i \in Id : HashId(i) \in Bucket /\ HashAddr(i) \in Bucket
  /\ IsFiniteSet(Entry) /\ IsFiniteSet(Rx)

VARIABLES
  kind,
  list,     \* ll_head and ll
  byId,     \* ht_dev_id, ht_dest or ht_proto
  byAddr,   \* ht_l2addr
  key,      \* the entries' ids
  hop,      \* their next hops
  expired,  \* entries whose status is EXPIRED
  size,
  th,       \* where each thread is: its place, id, next hop, entry, and the
            \* pointer or number it has read
  aging,    \* the aging pass: its place, the room in its array rec of entries to
            \* delete, where it is in the list, and rec
  main,     \* the main thread, which fills a "bspc" table
  wanted,   \* history: the next hop that a lookup has to find, or None
  heard     \* history: ids noted since the last aging pass

memory  == <<list, byId, byAddr, key, hop, expired, size>>
history == <<wanted, heard>>
vars    == <<kind, memory, th, aging, main, history>>

Idle == [at |-> "idle", id |-> None, hop |-> None, e |-> Null, read |-> Null]

NotAging == [at |-> "idle", room |-> 0, pos |-> Head, rec |-> {}]

\* alloc_.._entry and malloc: some address that is not in use.
Free  == {e \in Entry : key[e] = None}
InUse == Entry \ Free

Init ==
  /\ kind \in Kinds
  /\ list = INIT_LIST_HEAD /\ byId = hash_init /\ byAddr = hash_init /\ size = 0
  /\ key = [e \in Entry |-> None] /\ hop = [e \in Entry |-> None] /\ expired = {}
  /\ th = [t \in Rx |-> Idle]
  /\ aging = NotAging
  /\ main = IF kind = "bspc" THEN "filling" ELSE "ready"
  /\ wanted = [i \in Id |-> None] /\ heard = {}

\* The entries a loop over a bucket that looks for id stops at.
Match(id) == {e \in Entry : key[e] = id}

\* Mutant of Found: the first entry of the bucket, whatever its id.
FoundFirst(e, id) == e = byId.first[HashId(id)]

\* .._lookup returns e.
Found(e, id) == e \in Match(id) \cap hash_for_each_possible(byId, HashId(id), Match(id))

\* arp_table_lookup_from_l2addr, for the address of id, returns e.
FoundAddr(e, id) ==
  e \in Match(id) \cap hash_for_each_possible(byAddr, HashAddr(id), Match(id))

Absent(id) == \A e \in Entry : ~Found(e, id)

Locking == kind \in {"arp", "nbr"}

\* The mutex of an ARP or neighbour table is free: the aging pass holds it
\* from its walk through the list to its last deletion.
Unlocked == aging.at \notin {"walking", "deleting"}

\* id has been noted with next hop h.
Noted(id, h) ==
  /\ wanted' = [wanted EXCEPT ![id] = IF @ = None \/ kind = "son" THEN h ELSE @]
  /\ heard' = heard \cup {id}
-----------------------------------------------------------------------------
(* ARP and neighbour tables: __neighbor_maintain, __fwd_beacon               *)

Refresh(e) == expired' = expired \ {e}

\* With the lock: an entry found is active again, else one will be added.
Lookup(t, id) ==
  /\ kind \in {"arp", "nbr", "local"} /\ Unlocked /\ th[t] = Idle
  /\ kind = "local" => t \in FwdWriter
  /\ \/ /\ \E e \in Entry : Found(e, id) /\ Refresh(e)
        /\ Noted(id, Direct)
        /\ UNCHANGED th
     \/ /\ Absent(id)
        /\ th' = [th EXCEPT ![t] = [Idle EXCEPT !.at = IF Locking THEN "add" ELSE "alloc",
                                                !.id = id, !.hop = Direct]]
        /\ UNCHANGED <<expired, history>>
  /\ UNCHANGED <<kind, list, byId, byAddr, key, hop, size, aging, main>>

\* alloc_.._entry: zeroed, active, with its id and next hop.
Alloc(e, id, h) ==
  /\ e \in Free
  /\ key' = [key EXCEPT ![e] = id]
  /\ hop' = [hop EXCEPT ![e] = h]
  /\ expired' = expired \ {e}

\* arp_table_add and nbr_table_add, with the lock taken again.
ArpAdd(t, e) ==
  /\ kind = "arp" /\ Unlocked /\ th[t].at = "add"
  /\ Alloc(e, th[t].id, th[t].hop)
  /\ list' = list_add(list, e, Head)
  /\ byId' = hlist_add_head(byId, e, HashId(th[t].id))
  /\ byAddr' = hlist_add_head(byAddr, e, HashAddr(th[t].id))
  /\ size' = size + 1
  /\ Noted(th[t].id, th[t].hop)
  /\ th' = [th EXCEPT ![t] = Idle]
  /\ UNCHANGED <<kind, aging, main>>

NbrAdd(t, e) ==
  /\ kind = "nbr" /\ Unlocked /\ th[t].at = "add"
  /\ Alloc(e, th[t].id, th[t].hop)
  /\ list' = list_add(list, e, Head)
  /\ byId' = hlist_add_head(byId, e, HashId(th[t].id))
  /\ size' = size + 1
  /\ Noted(th[t].id, th[t].hop)
  /\ th' = [th EXCEPT ![t] = Idle]
  /\ UNCHANGED <<kind, byAddr, aging, main>>
-----------------------------------------------------------------------------
(* arp_table_aging and nbr_table_aging                                       *)

\* The array for the entries to delete is made before the lock is taken.
AgingAlloc ==
  /\ Locking /\ aging.at = "idle"
  /\ aging' = [aging EXCEPT !.at = "sized", !.room = size]
  /\ UNCHANGED <<kind, memory, th, main, history>>

\* Lock: ids not heard since the last pass will be gone after this one.
AgingLock ==
  /\ Locking /\ aging.at = "sized"
  /\ aging' = [aging EXCEPT !.at = "walking", !.pos = list.next[Head]]
  /\ heard' = {}
  /\ wanted' = [i \in Id |-> IF i \in heard THEN wanted[i] ELSE None]
  /\ UNCHANGED <<kind, memory, th, main>>

\* Mutants of AgingVisit: an entry is recorded in its first pass; the end of
\* the list is seen too late.
AgingVisitAll ==
  /\ aging.at = "walking" /\ aging.pos # Head
  /\ aging' = [aging EXCEPT !.pos = list.next[@], !.rec = @ \cup {aging.pos}]
  /\ expired' = expired \cup {aging.pos}
  /\ UNCHANGED <<kind, list, byId, byAddr, key, hop, size, th, main, history>>

AgingVisitHead ==
  /\ aging.at = "walking" /\ aging.pos \notin expired
  /\ aging' = [aging EXCEPT !.pos = list.next[@]]
  /\ expired' = expired \cup {aging.pos}
  /\ UNCHANGED <<kind, list, byId, byAddr, key, hop, size, th, main, history>>

\* list_for_each_entry: an entry that expired before is recorded, any other
\* expires now.
AgingVisit ==
  /\ aging.at = "walking" /\ aging.pos # Head
  /\ aging' = [aging EXCEPT !.pos = list.next[@],
                            !.rec = @ \cup ({aging.pos} \cap expired)]
  /\ expired' = expired \cup {aging.pos}
  /\ UNCHANGED <<kind, list, byId, byAddr, key, hop, size, th, main, history>>

AgingVisited ==
  /\ aging.at = "walking" /\ aging.pos = Head
  /\ aging' = [aging EXCEPT !.at = "deleting"]
  /\ UNCHANGED <<kind, memory, th, main, history>>

\* __arp_table_del_nolock (in byAddr there is nothing of a neighbour table)
\* and free, of those recorded; then the lock is released.
AgingDelete(e) ==
  /\ aging.at = "deleting" /\ e \in aging.rec
  /\ list' = list_del(list, e)
  /\ byId' = hlist_del_init(byId, e)
  /\ byAddr' = hlist_del_init(byAddr, e)
  /\ size' = size - 1
  /\ key' = [key EXCEPT ![e] = None] /\ hop' = [hop EXCEPT ![e] = None]
  /\ expired' = expired \ {e}
  /\ aging' = [aging EXCEPT !.rec = @ \ {e}]
  /\ UNCHANGED <<kind, th, main, history>>

AgingDone ==
  /\ aging.at = "deleting" /\ aging.rec = {}
  /\ aging' = NotAging
  /\ UNCHANGED <<kind, memory, th, main, history>>
-----------------------------------------------------------------------------
(* Forwarding tables: fwd_table_add, step by step, and fwd_table_del         *)

At(t, place) == t \in FwdWriter /\ th[t].at = place

\* fwd_table_del and free_fwd_entry.
FwdDel(e) ==
  /\ list' = list_del(list, e)
  /\ byId' = hlist_del_init(byId, e)
  /\ size' = size - 1
  /\ key' = [key EXCEPT ![e] = None] /\ hop' = [hop EXCEPT ![e] = None]
  /\ UNCHANGED <<byAddr, expired>>

\* A rule of __route_update: what is there for the destination is deleted and
\* freed; a rule to add then adds, with the next hop given.
RouteRule(t, id, h) ==
  /\ kind = "son" /\ At(t, "idle")
  /\ \/ \E e \in Entry : Found(e, id) /\ FwdDel(e)
     \/ Absent(id) /\ UNCHANGED memory
  /\ \/ /\ h # None
        /\ th' = [th EXCEPT ![t] = [Idle EXCEPT !.at = "alloc", !.id = id, !.hop = h]]
        /\ UNCHANGED history
     \/ /\ h = None
        /\ wanted' = [wanted EXCEPT ![id] = None]
        /\ UNCHANGED <<th, heard>>
  /\ UNCHANGED <<kind, aging, main>>

\* alloc_fwd_entry; then list_add_tail reads the last entry.
FwdAlloc(t, e) ==
  /\ At(t, "alloc")
  /\ Alloc(e, th[t].id, th[t].hop)
  /\ th' = [th EXCEPT ![t].at = "link", ![t].e = e, ![t].read = list.prev[Head]]
  /\ UNCHANGED <<kind, list, byId, byAddr, size, aging, main, history>>

FwdLink(t) ==
  /\ At(t, "link")
  /\ list' = __list_add(list, th[t].e, th[t].read, Head)
  /\ th' = [th EXCEPT ![t].at = "first"]
  /\ UNCHANGED <<kind, byId, byAddr, key, hop, expired, size, aging, main, history>>

\* hlist_add_head reads the bucket's first entry, then writes.
FwdFirst(t) ==
  /\ At(t, "first")
  /\ th' = [th EXCEPT ![t].at = "hash", ![t].read = byId.first[HashId(th[t].id)]]
  /\ UNCHANGED <<kind, memory, aging, main, history>>

FwdHash(t) ==
  /\ At(t, "hash")
  /\ byId' = PutFirst(byId, th[t].e, HashId(th[t].id), th[t].read)
  /\ th' = [th EXCEPT ![t].at = "size"]
  /\ UNCHANGED <<kind, list, byAddr, key, hop, expired, size, aging, main, history>>

FwdSize(t) ==
  /\ At(t, "size")
  /\ th' = [th EXCEPT ![t].at = "count", ![t].read = size]
  /\ UNCHANGED <<kind, memory, aging, main, history>>

FwdCount(t) ==
  /\ At(t, "count")
  /\ size' = th[t].read + 1
  /\ Noted(th[t].id, th[t].hop)
  /\ th' = [th EXCEPT ![t] = Idle]
  /\ UNCHANGED <<kind, list, byId, byAddr, key, hop, expired, aging, main>>
-----------------------------------------------------------------------------
(* The connections to VNFs: __nso_layer_init and bspc_table_destroy          *)

\* A VNF of the configuration is connected: bspc_table_add.
BspcAdd(id, e) ==
  /\ main = "filling" /\ wanted[id] = None
  /\ Alloc(e, id, Direct)
  /\ list' = list_add(list, e, Head)
  /\ byId' = hlist_add_head(byId, e, HashId(id))
  /\ size' = size + 1
  /\ Noted(id, Direct)
  /\ UNCHANGED <<kind, byAddr, th, aging, main>>

\* Or it is not: the table is destroyed.
BspcFail ==
  /\ main = "filling"
  /\ main' = "destroying"
  /\ wanted' = [i \in Id |-> None]
  /\ UNCHANGED <<kind, memory, th, aging, heard>>

\* while (tbl->size--): unlink the first entry and free it.
Destroy ==
  /\ main = "destroying" /\ list.next[Head] \in Entry /\ size > 0
  /\ LET e == list.next[Head]
     IN /\ list' = list_del(list, e)
        /\ byId' = hlist_del_init(byId, e)
        /\ key' = [key EXCEPT ![e] = None] /\ hop' = [hop EXCEPT ![e] = None]
  /\ size' = size - 1
  /\ UNCHANGED <<kind, byAddr, expired, th, aging, main, history>>

\* The size is then -1, and the table itself is freed.
Destroyed ==
  /\ main = "destroying" /\ size = 0
  /\ main' = "freed" /\ size' = -1
  /\ UNCHANGED <<kind, list, byId, byAddr, key, hop, expired, th, aging, history>>
-----------------------------------------------------------------------------
Adding(t) ==
  \/ \E e \in Entry : ArpAdd(t, e) \/ NbrAdd(t, e) \/ FwdAlloc(t, e)
  \/ FwdLink(t) \/ FwdFirst(t) \/ FwdHash(t) \/ FwdSize(t) \/ FwdCount(t)

Next ==
  \/ \E t \in Rx, id \in Id : Lookup(t, id) \/ \E h \in Hop \cup {None} : RouteRule(t, id, h)
  \/ \E t \in Rx : Adding(t)
  \/ AgingAlloc \/ AgingLock \/ AgingVisit \/ AgingVisited \/ AgingDone \/ \E e \in Entry : AgingDelete(e)
  \/ \E id \in Id, e \in Entry : BspcAdd(id, e)
  \/ BspcFail \/ Destroy \/ Destroyed

Spec == Init /\ [][Next]_vars
-----------------------------------------------------------------------------
(* Properties                                                               *)

TypeOK ==
  /\ kind \in Kinds
  /\ list \in List /\ byId \in Hash /\ byAddr \in Hash
  /\ key \in [Entry -> Id \cup {None}] /\ hop \in [Entry -> Hop \cup {None}]
  /\ expired \subseteq Entry /\ size \in Int
  /\ th \in [Rx -> [at : {"idle", "add", "alloc", "link", "first", "hash", "size", "count"},
                    id : Id \cup {None}, hop : Hop \cup {None}, e : Entry \cup {Null},
                    read : Pointer \cup Int]]
  /\ aging \in [at : {"idle", "sized", "walking", "deleting"}, room : Int, pos : Pointer,
                rec : SUBSET Entry]
  /\ main \in {"ready", "filling", "destroying", "freed"}
  /\ wanted \in [Id -> Hop \cup {None}] /\ heard \subseteq Id

\* Entries allocated and not yet in the list, by a thread half-way through
\* fwd_table_add; likewise not yet in their chain.
Unlinked == {th[t].e : t \in {u \in Rx : th[u].at = "link"}}
Unhashed == {th[t].e : t \in {u \in Rx : th[u].at \in {"link", "first", "hash"}}}
Uncounted == {t \in Rx : th[t].at \in {"link", "first", "hash", "size", "count"}}

\* Whatever the threads are at, the list leads back as it leads on, and every
\* entry of a chain knows the one pointer that leads to it, so that it can be
\* unlinked.  With mutexes this is so for any number of threads, without them
\* for one that writes.
PointersMatch ==
  /\ Linked(list, {Head} \cup (InUse \ Unlinked))
  /\ Hashed(byId, InUse \ Unhashed)
  /\ kind = "arp" => Hashed(byAddr, InUse)

\* And everything can be found: the list and the chain of its id, or address,
\* lead to every entry, `size' counts them, and destroying the table for want
\* of a VNF frees them all.
TableCoherent ==
  /\ list_for_each_entry(list) = InUse \ Unlinked
  /\ \A e \in InUse \ Unhashed : \E f \in Entry : Found(f, key[e])
  /\ kind = "arp" => \A e \in InUse : \E f \in Entry : FoundAddr(f, key[e])
  /\ main # "freed" => size = Cardinality(InUse) - Cardinality(Uncounted)
  /\ main = "freed" => InUse = {}

\* A lookup finds an id exactly if it has been noted and neither been deleted
\* nor gone unheard from one aging pass to the next; and finds the next hop it
\* was noted with, the last one told by vSON or the first one heard.
LookupFindsLatest ==
  (Unlocked /\ Uncounted = {} /\ main \notin {"destroying", "freed"}) =>
    \A id \in Id :
      \/ \E t \in Rx : kind = "son" /\ th[t].id = id
      \/ Absent(id) /\ wanted[id] = None
      \/ \E e \in Entry : Found(e, id) /\ wanted[id] = hop[e]

\* Threads that looked up before any of them added leave an id with several
\* entries, but no more than there are threads; without threads that race, one.
DuplicatesBounded ==
  \A id \in Id :
    Cardinality({e \in InUse : key[e] = id}) <= IF Locking THEN Cardinality(Rx) ELSE 1

\* The aging pass records no more entries than there is room for in an array
\* whose size it read before it took the lock.
RecFits == aging.at = "deleting" => Cardinality(aging.rec) <= aging.room
=============================================================================
