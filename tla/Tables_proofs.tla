---------------------------- MODULE Tables_proofs ----------------------------
(***************************************************************************)
(* The tables, for any number of entries, buckets and threads, of which    *)
(* one at most writes the routes.  First as memory: insertion and deletion *)
(* keep lists and hash chains in one piece, also half-way through, and     *)
(* loops over them see all they should.  Then what the tables are for:     *)
(* lookups find the latest, threads that race leave few duplicates, and    *)
(* the aging pass keeps to its array.                                      *)
(***************************************************************************)
EXTENDS Tables, FiniteSetTheorems, TLAPS

-----------------------------------------------------------------------------
(* Lists                                                                    *)

\* A node put between one of a list and the next is in the list.
LEMMA ListAdd ==
  ASSUME NEW l \in List, NEW S \in SUBSET Node, Linked(l, S),
         NEW p \in S, NEW e \in Entry, e \notin S
  PROVE  /\ __list_add(l, e, p, l.next[p]) \in List
         /\ Linked(__list_add(l, e, p, l.next[p]), S \cup {e})
<1> DEFINE k == __list_add(l, e, p, l.next[p])
           nx == l.next[p]
<1>1. e \in Node /\ p \in Node /\ nx \in S /\ nx \in Node /\ l.prev[nx] = p /\ e # p /\ e # nx
  BY DEF Linked, Node
<1>2. l.next \in [Node -> Pointer] /\ l.prev \in [Node -> Pointer]
  BY DEF List
<1>3. k.next = [l.next EXCEPT ![e] = nx, ![p] = e] /\ k.prev = [l.prev EXCEPT ![nx] = e, ![e] = p]
  BY DEF __list_add
<1>4. k \in List
  BY <1>1, <1>2, <1>3 DEF __list_add, List, Pointer
<1>5. /\ \A n \in Node : k.next[n] = IF n = p THEN e ELSE IF n = e THEN nx ELSE l.next[n]
      /\ \A n \in Node : k.prev[n] = IF n = e THEN p ELSE IF n = nx THEN e ELSE l.prev[n]
  BY <1>1, <1>2, <1>3
<1> HIDE DEF k, nx
<1>6. \A n \in S \cup {e} : k.next[n] \in S \cup {e} /\ k.prev[n] \in S \cup {e}
  BY <1>1, <1>5 DEF Linked
<1>7. \A n \in S : l.next[n] = nx => n = p
  BY <1>1 DEF Linked
<1>8. \A n \in S : l.prev[n] = p => n = nx
  BY <1>1 DEF Linked, nx
<1>9. \A n \in S \cup {e} : k.prev[k.next[n]] = n /\ k.next[k.prev[n]] = n
  BY <1>1, <1>5, <1>7, <1>8 DEF Linked
<1>10. Linked(k, S \cup {e})
  BY <1>6, <1>9 DEF Linked
<1> QED BY <1>4, <1>10 DEF k

\* A node taken out of a list leaves a list.
LEMMA ListDel ==
  ASSUME NEW l \in List, NEW S \in SUBSET Node, Linked(l, S),
         NEW e \in S
  PROVE  /\ list_del(l, e) \in List
         /\ Linked(list_del(l, e), S \ {e})
<1> DEFINE k == list_del(l, e)
           nx == l.next[e]
           pv == l.prev[e]
<1>1. /\ e \in Node /\ nx \in S /\ nx \in Node /\ pv \in S /\ pv \in Node
      /\ l.prev[nx] = e /\ l.next[pv] = e
  BY DEF Linked
<1>2. l.next \in [Node -> Pointer] /\ l.prev \in [Node -> Pointer]
  BY DEF List
<1>3. /\ k.next = [[l.next EXCEPT ![pv] = nx] EXCEPT ![e] = Poison1]
      /\ k.prev = [[l.prev EXCEPT ![nx] = pv] EXCEPT ![e] = Poison2]
  BY DEF list_del, __list_del
<1>4. k = [next |-> k.next, prev |-> k.prev]
  BY DEF list_del
<1>5. /\ \A n \in Node \ {e} : k.next[n] = IF n = pv THEN nx ELSE l.next[n]
      /\ \A n \in Node \ {e} : k.prev[n] = IF n = nx THEN pv ELSE l.prev[n]
      /\ k.next \in [Node -> Pointer] /\ k.prev \in [Node -> Pointer]
  BY <1>1, <1>2, <1>3 DEF Pointer
<1>6. k \in List
  BY <1>4, <1>5 DEF List
<1> HIDE DEF k
<1>7. \A n \in S \ {e} : (l.next[n] = e <=> n = pv) /\ (l.prev[n] = e <=> n = nx)
  BY <1>1 DEF Linked
<1>8. \A n \in S \ {e} : pv = n => nx # e
  BY <1>1
<1>9. \A n \in S \ {e} : nx = n => pv # e
  BY <1>1
<1>10. \A n \in S \ {e} : k.next[n] \in S \ {e} /\ k.prev[n] \in S \ {e}
  BY <1>1, <1>5, <1>7, <1>8, <1>9 DEF Linked
<1>11. \A n \in S : (l.next[n] = nx => n = e) /\ (l.prev[n] = pv => n = e)
  BY <1>1 DEF Linked
<1>12. \A n \in S \ {e} : k.prev[k.next[n]] = n
  <2> TAKE n \in S \ {e}
  <2>1. n \in Node /\ n # e /\ k.next[n] \in Node \ {e} /\ l.prev[l.next[n]] = n
    BY <1>10 DEF Linked
  <2>2. CASE n = pv
    BY <1>5, <2>1, <2>2
  <2>3. CASE n # pv
    <3>1. k.next[n] = l.next[n]
      BY <1>5, <2>1, <2>3
    <3>2. l.next[n] # nx
      BY <1>11, <2>1
    <3> QED BY <1>5, <2>1, <3>1, <3>2
  <2> QED BY <2>2, <2>3
<1>13. \A n \in S \ {e} : k.next[k.prev[n]] = n
  <2> TAKE n \in S \ {e}
  <2>1. n \in Node /\ n # e /\ k.prev[n] \in Node \ {e} /\ l.next[l.prev[n]] = n
    BY <1>10 DEF Linked
  <2>2. CASE n = nx
    BY <1>5, <2>1, <2>2
  <2>3. CASE n # nx
    <3>1. k.prev[n] = l.prev[n]
      BY <1>5, <2>1, <2>3
    <3>2. l.prev[n] # pv
      BY <1>11, <2>1
    <3> QED BY <1>5, <2>1, <3>1, <3>2
  <2> QED BY <2>2, <2>3
<1>14. Linked(k, S \ {e})
  BY <1>10, <1>12, <1>13 DEF Linked
<1> QED BY <1>6, <1>14 DEF k
-----------------------------------------------------------------------------
(* Hash chains                                                              *)

\* An entry put first in a chain is in the table.
LEMMA HashAdd ==
  ASSUME NEW h \in Hash, NEW S \in SUBSET Entry, Hashed(h, S),
         NEW e \in Entry, e \notin S, NEW b \in Bucket
  PROVE  /\ PutFirst(h, e, b, h.first[b]) \in Hash
         /\ Hashed(PutFirst(h, e, b, h.first[b]), S \cup {e})
<1> DEFINE k == PutFirst(h, e, b, h.first[b])
           f == h.first[b]
<1>0. Null \notin Entry /\ Null \notin Bucket /\ Entry \cap Bucket = {}
  BY PointerAssumption
<1>1. /\ h.first \in [Bucket -> Entry \cup {Null}] /\ h.next \in [Entry -> Entry \cup {Null}]
      /\ h.pprev \in [Entry -> Entry \cup Bucket \cup {Null}]
  BY DEF Hash
<1>2. f # Null => f \in S /\ h.pprev[f] = b /\ f # e
  BY DEF Hashed
<1>3. /\ k.first = [h.first EXCEPT ![b] = e] /\ k.next = [h.next EXCEPT ![e] = f]
      /\ k.pprev = IF f = Null THEN [h.pprev EXCEPT ![e] = b]
                   ELSE [h.pprev EXCEPT ![f] = e, ![e] = b]
      /\ k = [first |-> k.first, next |-> k.next, pprev |-> k.pprev]
  BY DEF PutFirst
<1>4. /\ k.first \in [Bucket -> Entry \cup {Null}] /\ k.next \in [Entry -> Entry \cup {Null}]
      /\ k.pprev \in [Entry -> Entry \cup Bucket \cup {Null}]
  BY <1>1, <1>3
<1>5. k \in Hash
  BY <1>3, <1>4 DEF Hash
<1>6. /\ \A c \in Bucket : k.first[c] = IF c = b THEN e ELSE h.first[c]
      /\ \A n \in Entry : k.next[n] = IF n = e THEN f ELSE h.next[n]
  BY <1>1, <1>3
<1>7. \A n \in Entry : k.pprev[n] = IF n = e THEN b ELSE IF n = f THEN e ELSE h.pprev[n]
  BY <1>0, <1>1, <1>2, <1>3
<1> HIDE DEF k, f
<1>8. \A c \in Bucket : k.first[c] # Null => k.first[c] \in S \cup {e} /\ k.pprev[k.first[c]] = c
  <2> SUFFICES ASSUME NEW c \in Bucket, k.first[c] # Null
               PROVE  k.first[c] \in S \cup {e} /\ k.pprev[k.first[c]] = c
    OBVIOUS
  <2>1. CASE c = b
    BY <1>6, <1>7, <2>1
  <2>2. CASE c # b
    <3>1. h.first[c] \in S /\ h.pprev[h.first[c]] = c /\ k.first[c] = h.first[c]
      BY <1>6, <2>2 DEF Hashed
    <3>2. h.first[c] # f
      BY <1>2, <2>2, <3>1, <1>6
    <3> QED BY <1>7, <3>1, <3>2
  <2> QED BY <2>1, <2>2
<1>9. \A n \in S \cup {e} : k.next[n] # Null => k.next[n] \in S \cup {e} /\ k.pprev[k.next[n]] = n
  <2> SUFFICES ASSUME NEW n \in S \cup {e}, k.next[n] # Null
               PROVE  k.next[n] \in S \cup {e} /\ k.pprev[k.next[n]] = n
    OBVIOUS
  <2>1. CASE n = e
    BY <1>2, <1>6, <1>7, <2>1
  <2>2. CASE n # e
    <3>1. h.next[n] \in S /\ h.pprev[h.next[n]] = n /\ k.next[n] = h.next[n]
      BY <1>6, <2>2 DEF Hashed
    <3>2. h.next[n] # f
      BY <1>0, <1>2, <3>1, <2>2
    <3> QED BY <1>7, <3>1, <3>2
  <2> QED BY <2>1, <2>2
<1>10. \A n \in S \cup {e} :
         \/ k.pprev[n] \in Bucket /\ k.first[k.pprev[n]] = n
         \/ k.pprev[n] \in S \cup {e} /\ k.next[k.pprev[n]] = n
  <2> SUFFICES ASSUME NEW n \in S \cup {e}
               PROVE  \/ k.pprev[n] \in Bucket /\ k.first[k.pprev[n]] = n
                      \/ k.pprev[n] \in S \cup {e} /\ k.next[k.pprev[n]] = n
    OBVIOUS
  <2>1. CASE n = e
    BY <1>6, <1>7, <2>1
  <2>2. CASE n = f /\ n # e
    BY <1>6, <1>7, <2>2
  <2>3. CASE n # f /\ n # e
    <3>1. k.pprev[n] = h.pprev[n]
      BY <1>7, <2>3
    <3>2. CASE h.pprev[n] \in Bucket /\ h.first[h.pprev[n]] = n
      <4>1. h.pprev[n] # b
        BY <2>3, <3>2 DEF f
      <4> QED BY <1>6, <3>1, <3>2, <4>1
    <3>3. CASE h.pprev[n] \in S /\ h.next[h.pprev[n]] = n
      BY <1>6, <3>1, <3>3
    <3> QED BY <2>3, <3>2, <3>3 DEF Hashed
  <2> QED BY <2>1, <2>2, <2>3
<1>11. Hashed(k, S \cup {e})
  BY <1>8, <1>9, <1>10 DEF Hashed
<1> QED BY <1>5, <1>11 DEF k

\* An entry taken out of its chain leaves the others in theirs.
LEMMA HashDel ==
  ASSUME NEW h \in Hash, NEW S \in SUBSET Entry, Hashed(h, S),
         NEW e \in S
  PROVE  /\ hlist_del_init(h, e) \in Hash
         /\ Hashed(hlist_del_init(h, e), S \ {e})
<1> DEFINE k == hlist_del_init(h, e)
           nx == h.next[e]
           pp == h.pprev[e]
<1>0. Null \notin Entry /\ Null \notin Bucket /\ Entry \cap Bucket = {}
  BY PointerAssumption
<1>1. /\ h.first \in [Bucket -> Entry \cup {Null}] /\ h.next \in [Entry -> Entry \cup {Null}]
      /\ h.pprev \in [Entry -> Entry \cup Bucket \cup {Null}]
  BY DEF Hash
<1>2. /\ nx # Null => nx \in S /\ h.pprev[nx] = e
      /\ (pp \in Bucket /\ h.first[pp] = e) \/ (pp \in S /\ h.next[pp] = e)
  BY DEF Hashed
<1>3. pp # Null
  BY <1>0, <1>2
<1>4. /\ k.first = IF pp \in Bucket THEN [h.first EXCEPT ![pp] = nx] ELSE h.first
      /\ k.next = [(IF pp \in Entry THEN [h.next EXCEPT ![pp] = nx] ELSE h.next) EXCEPT ![e] = Null]
      /\ k.pprev = [(IF nx = Null THEN h.pprev ELSE [h.pprev EXCEPT ![nx] = pp]) EXCEPT ![e] = Null]
      /\ k = [first |-> k.first, next |-> k.next, pprev |-> k.pprev]
  BY <1>3 DEF hlist_del_init, hlist_unhashed, INIT_HLIST_NODE, __hlist_del
<1>5. nx \in Entry \cup {Null} /\ pp \in Entry \cup Bucket \cup {Null}
  BY <1>1
<1>6. k \in Hash
  <2>1. k.first \in [Bucket -> Entry \cup {Null}]
    BY <1>1, <1>4, <1>5
  <2>2. k.next \in [Entry -> Entry \cup {Null}]
    BY <1>1, <1>4, <1>5
  <2>3. k.pprev \in [Entry -> Entry \cup Bucket \cup {Null}]
    BY <1>1, <1>4, <1>5
  <2> QED BY <1>4, <2>1, <2>2, <2>3 DEF Hash
<1>7. \A c \in Bucket : k.first[c] = IF c = pp THEN nx ELSE h.first[c]
  BY <1>1, <1>4
<1>8. \A n \in Entry \ {e} : k.next[n] = IF n = pp THEN nx ELSE h.next[n]
  BY <1>1, <1>4
<1>9. \A n \in Entry \ {e} : k.pprev[n] = IF n = nx THEN pp ELSE h.pprev[n]
  BY <1>0, <1>1, <1>4, <1>5
<1> HIDE DEF k, nx, pp
<1>10. nx = e => pp = e
  BY <1>0, <1>2 DEF pp
<1>11. \A c \in Bucket : k.first[c] # Null => k.first[c] \in S \ {e} /\ k.pprev[k.first[c]] = c
  <2> SUFFICES ASSUME NEW c \in Bucket, k.first[c] # Null
               PROVE  k.first[c] \in S \ {e} /\ k.pprev[k.first[c]] = c
    OBVIOUS
  <2>1. CASE c = pp
    BY <1>0, <1>2, <1>7, <1>9, <1>10, <2>1
  <2>2. CASE c # pp
    <3>1. h.first[c] \in S /\ h.pprev[h.first[c]] = c /\ k.first[c] = h.first[c]
      BY <1>7, <2>2 DEF Hashed
    <3>2. h.first[c] # e
      BY <2>2, <3>1 DEF pp
    <3>3. h.first[c] # nx
      BY <1>0, <1>2, <3>1
    <3> QED BY <1>9, <3>1, <3>2, <3>3
  <2> QED BY <2>1, <2>2
<1>12. \A n \in S \ {e} : k.next[n] # Null => k.next[n] \in S \ {e} /\ k.pprev[k.next[n]] = n
  <2> SUFFICES ASSUME NEW n \in S \ {e}, k.next[n] # Null
               PROVE  k.next[n] \in S \ {e} /\ k.pprev[k.next[n]] = n
    OBVIOUS
  <2>1. CASE n = pp
    BY <1>0, <1>2, <1>8, <1>9, <1>10, <2>1
  <2>2. CASE n # pp
    <3>1. h.next[n] \in S /\ h.pprev[h.next[n]] = n /\ k.next[n] = h.next[n]
      BY <1>8, <2>2 DEF Hashed
    <3>2. h.next[n] # e
      BY <2>2, <3>1 DEF pp
    <3>3. h.next[n] # nx
      BY <1>2, <3>1
    <3> QED BY <1>9, <3>1, <3>2, <3>3
  <2> QED BY <2>1, <2>2
<1>13. \A n \in S \ {e} :
         \/ k.pprev[n] \in Bucket /\ k.first[k.pprev[n]] = n
         \/ k.pprev[n] \in S \ {e} /\ k.next[k.pprev[n]] = n
  <2> SUFFICES ASSUME NEW n \in S \ {e}
               PROVE  \/ k.pprev[n] \in Bucket /\ k.first[k.pprev[n]] = n
                      \/ k.pprev[n] \in S \ {e} /\ k.next[k.pprev[n]] = n
    OBVIOUS
  <2>1. CASE n = nx
    <3>1. pp # e /\ k.pprev[n] = pp
      BY <1>2, <1>9, <2>1, <1>0 DEF pp, nx
    <3> QED BY <1>2, <1>7, <1>8, <2>1, <3>1
  <2>2. CASE n # nx
    <3>1. k.pprev[n] = h.pprev[n]
      BY <1>9, <2>2
    <3>2. CASE h.pprev[n] \in Bucket /\ h.first[h.pprev[n]] = n
      <4>1. h.pprev[n] # pp
        BY <1>0, <1>2, <3>2
      <4> QED BY <1>7, <3>1, <3>2, <4>1
    <3>3. CASE h.pprev[n] \in S /\ h.next[h.pprev[n]] = n
      <4>1. h.pprev[n] # pp /\ h.pprev[n] # e
        BY <1>0, <1>2, <2>2, <3>3 DEF nx
      <4> QED BY <1>8, <3>1, <3>3, <4>1
    <3> QED BY <3>2, <3>3 DEF Hashed
  <2> QED BY <2>1, <2>2
<1>14. Hashed(k, S \ {e})
  BY <1>11, <1>12, <1>13 DEF Hashed
<1> QED BY <1>6, <1>14 DEF k
-----------------------------------------------------------------------------
(* The inductive invariant                                                  *)

\* vSON's thread or the one that takes beacons, not both, writes a table of
\* routes: no lock keeps them apart.
OneWriter == \A t, u \in FwdWriter : t = u

\* What a thread half-way through an addition relies on: what it has read is
\* still so.
ThreadOK(t) ==
  /\ th[t].at # "idle" => th[t].id \in Id /\ th[t].hop \in Hop
  /\ th[t].at = "add" => Locking
  /\ th[t].at \notin {"idle", "add"} => t \in FwdWriter /\ kind \in {"local", "son"}
  /\ th[t].at \in {"link", "first", "hash"} => th[t].e \in InUse
  /\ th[t].at = "link" => th[t].read = list.prev[Head]
  /\ th[t].at = "hash" => th[t].read = byId.first[HashId(th[t].id)]
  /\ th[t].at = "count" => th[t].read \in Int

ThreadsInv == \A t \in Rx : ThreadOK(t)

\* The aging pass walks along and deletes entries of the table only.
AgingInv ==
  /\ aging.at # "idle" => Locking
  /\ aging.rec \subseteq InUse
  /\ aging.at \in {"idle", "sized"} => aging.rec = {}
  /\ aging.at = "walking" => aging.pos \in {Head} \cup InUse

KindInv ==
  /\ kind # "arp" => byAddr = hash_init
  /\ main # "ready" => kind = "bspc"

Inv == TypeOK /\ PointersMatch /\ ThreadsInv /\ AgingInv /\ KindInv

\* Unlinked and Unhashed of any state of the threads.
LinkingIn(f) == {f[t].e : t \in {u \in Rx : f[u].at = "link"}}
HashingIn(f) == {f[t].e : t \in {u \in Rx : f[u].at \in {"link", "first", "hash"}}}

LEMMA Linking == /\ Unlinked = LinkingIn(th) /\ Unlinked' = LinkingIn(th')
                 /\ Unhashed = HashingIn(th) /\ Unhashed' = HashingIn(th')
BY DEF Unlinked, Unhashed, LinkingIn, HashingIn

\* A step of a thread that is not in between before or after changes neither.
LEMMA NotBetween ==
  ASSUME NEW f, NEW g, NEW t \in Rx, \A u \in Rx \ {t} : g[u] = f[u],
         f[t].at \notin {"link", "first", "hash"}, g[t].at \notin {"link", "first", "hash"}
  PROVE  LinkingIn(g) = LinkingIn(f) /\ HashingIn(g) = HashingIn(f)
<1>1. {u \in Rx : g[u].at = "link"} = {u \in Rx : f[u].at = "link"}
  OBVIOUS
<1>2. {u \in Rx : g[u].at \in {"link", "first", "hash"}}
        = {u \in Rx : f[u].at \in {"link", "first", "hash"}}
  OBVIOUS
<1>3. \A u \in Rx : f[u].at = "link" => g[u] = f[u]
  OBVIOUS
<1>4. \A u \in Rx : f[u].at \in {"link", "first", "hash"} => g[u] = f[u]
  OBVIOUS
<1>5. LinkingIn(g) = LinkingIn(f)
  BY <1>1, <1>3 DEF LinkingIn
<1>6. HashingIn(g) = HashingIn(f)
  BY <1>2, <1>4 DEF HashingIn
<1> QED BY <1>5, <1>6

\* If all others are idle, the sets have one entry at most.
LEMMA OneBetween ==
  ASSUME NEW f, NEW t \in Rx, \A u \in Rx \ {t} : f[u].at = "idle"
  PROVE  /\ LinkingIn(f) = IF f[t].at = "link" THEN {f[t].e} ELSE {}
         /\ HashingIn(f) = IF f[t].at \in {"link", "first", "hash"} THEN {f[t].e} ELSE {}
<1>1. {u \in Rx : f[u].at = "link"} = IF f[t].at = "link" THEN {t} ELSE {}
  OBVIOUS
<1>2. {u \in Rx : f[u].at \in {"link", "first", "hash"}}
        = IF f[t].at \in {"link", "first", "hash"} THEN {t} ELSE {}
  OBVIOUS
<1>3. LinkingIn(f) = IF f[t].at = "link" THEN {f[t].e} ELSE {}
  BY <1>1 DEF LinkingIn
<1>4. HashingIn(f) = IF f[t].at \in {"link", "first", "hash"} THEN {f[t].e} ELSE {}
  BY <1>2 DEF HashingIn
<1> QED BY <1>3, <1>4

\* Nobody is in between in a table that is locked or filled by the main thread.
LEMMA NoneBetween ==
  ASSUME ThreadsInv, kind \notin {"local", "son"}
  PROVE  Unlinked = {} /\ Unhashed = {}
BY DEF ThreadsInv, ThreadOK, Unlinked, Unhashed

\* In a table of routes all but the one that writes are idle.
LEMMA OthersIdle ==
  ASSUME ThreadsInv, OneWriter, kind \in {"local", "son"}, NEW t \in FwdWriter, TypeOK
  PROVE  \A u \in Rx \ {t} : th[u].at = "idle"
<1> TAKE u \in Rx \ {t}
<1>1. u \notin FwdWriter
  BY DEF OneWriter
<1>2. th[u].at # "add"
  BY DEF ThreadsInv, ThreadOK, Locking
<1> QED BY <1>1, <1>2 DEF ThreadsInv, ThreadOK

\* An entry allocated is in use from then on.
LEMMA AllocUses ==
  ASSUME TypeOK, NEW e \in Entry, NEW id \in Id, NEW h \in Hop, Alloc(e, id, h)
  PROVE  /\ e \notin InUse /\ InUse' = InUse \cup {e}
         /\ key' \in [Entry -> Id \cup {None}] /\ hop' \in [Entry -> Hop \cup {None}]
         /\ expired' \subseteq Entry
BY TableAssumption DEF TypeOK, Alloc, InUse, Free

\* An entry freed is not.
LEMMA FreeUses ==
  ASSUME TypeOK, NEW e \in Entry,
         key' = [key EXCEPT ![e] = None], hop' = [hop EXCEPT ![e] = None]
  PROVE  /\ InUse' = InUse \ {e}
         /\ key' \in [Entry -> Id \cup {None}] /\ hop' \in [Entry -> Hop \cup {None}]
BY DEF TypeOK, InUse, Free

LEMMA NotedType ==
  ASSUME TypeOK, NEW id \in Id, NEW h \in Hop, Noted(id, h)
  PROVE  wanted' \in [Id -> Hop \cup {None}] /\ heard' \subseteq Id
BY DEF TypeOK, Noted
-----------------------------------------------------------------------------
(* Tables with a mutex                                                      *)

\* What is kept while no thread is in between and none moves.
LEMMA QuietThreads ==
  ASSUME ThreadsInv, kind \notin {"local", "son"}, UNCHANGED <<kind, th>>
  PROVE  ThreadsInv' /\ Unlinked' = {} /\ Unhashed' = {}
<1>1. ThreadsInv'
  BY DEF ThreadsInv, ThreadOK, Locking
<1>2. Unlinked' = {} /\ Unhashed' = {}
  BY NoneBetween, Linking
<1> QED BY <1>1, <1>2

LEMMA LookupKeeps ==
  ASSUME Inv, NEW t \in Rx, NEW id \in Id, Lookup(t, id)
  PROVE  Inv'
<1> USE DEF Inv
<1>1. /\ th[t] = Idle /\ UNCHANGED <<kind, list, byId, byAddr, key, hop, size, aging, main>>
      /\ kind = "local" => t \in FwdWriter
      /\ kind \in {"arp", "nbr", "local"}
      /\ \A u \in Rx \ {t} : th'[u] = th[u]
      /\ InUse' = InUse /\ expired' \subseteq Entry
  BY DEF Lookup, TypeOK, InUse, Free, Refresh
<1> DEFINE r == [at |-> IF Locking THEN "add" ELSE "alloc", id |-> id, hop |-> Direct,
                e |-> Null, read |-> Null]
<1>2. /\ wanted' \in [Id -> Hop \cup {None}] /\ heard' \subseteq Id
  <2>1. CASE Noted(id, Direct)
    BY <2>1, NotedType, TableAssumption
  <2>2. CASE UNCHANGED history
    BY <2>2 DEF history, TypeOK
  <2> QED BY <2>1, <2>2 DEF Lookup
<1>3. th' = th \/ th' = [th EXCEPT ![t] = r]
  BY DEF Lookup, Idle
<1> HIDE DEF r
<1>4. TypeOK'
  <2>1. r \in [at : {"idle", "add", "alloc", "link", "first", "hash", "size", "count"},
               id : Id \cup {None}, hop : Hop \cup {None}, e : Entry \cup {Null},
               read : Pointer \cup Int]
    BY TableAssumption DEF r, Pointer
  <2>2. th' \in [Rx -> [at : {"idle", "add", "alloc", "link", "first", "hash", "size", "count"},
                        id : Id \cup {None}, hop : Hop \cup {None}, e : Entry \cup {Null},
                        read : Pointer \cup Int]]
    BY <1>3, <2>1 DEF TypeOK
  <2> QED BY <1>1, <1>2, <2>2 DEF TypeOK
<1>5. ThreadsInv'
  <2>1. ASSUME NEW u \in Rx, th'[u] = th[u] PROVE ThreadOK(u)'
    BY <1>1, <2>1 DEF ThreadsInv, ThreadOK, Locking
  <2>2. ASSUME th'[t] = r PROVE ThreadOK(t)'
    BY <1>1, <2>2, TableAssumption DEF ThreadOK, Locking, r
  <2>3. th'[t] = th[t] \/ th'[t] = r
    BY <1>3 DEF TypeOK
  <2> QED BY <1>1, <2>1, <2>2, <2>3 DEF ThreadsInv
<1>6. th'[t].at \notin {"link", "first", "hash"} /\ th[t].at \notin {"link", "first", "hash"}
  <2>1. th[t].at = "idle" /\ r.at \in {"add", "alloc"}
    BY <1>1 DEF r, Idle
  <2>2. th'[t] = th[t] \/ th'[t] = r
    BY <1>3 DEF TypeOK
  <2> QED BY <2>1, <2>2
<1>7. Unlinked' = Unlinked /\ Unhashed' = Unhashed
  BY <1>1, <1>6, NotBetween, Linking
<1>8. PointersMatch'
  BY <1>1, <1>7 DEF PointersMatch
<1>9. AgingInv' /\ KindInv'
  BY <1>1 DEF AgingInv, KindInv, Locking
<1> QED BY <1>4, <1>5, <1>8, <1>9

\* An addition in one critical section, of an ARP or neighbour table.
LEMMA AddKeeps ==
  ASSUME Inv, NEW t \in Rx, NEW e \in Entry, ArpAdd(t, e) \/ NbrAdd(t, e)
  PROVE  Inv'
<1> USE DEF Inv
<1> DEFINE id == th[t].id
<1>1. /\ kind \in {"arp", "nbr"} /\ th[t].at = "add"
      /\ Alloc(e, id, th[t].hop) /\ Noted(id, th[t].hop)
      /\ list' = list_add(list, e, Head) /\ byId' = hlist_add_head(byId, e, HashId(id))
      /\ byAddr' = IF kind = "arp" THEN hlist_add_head(byAddr, e, HashAddr(id)) ELSE byAddr
      /\ size' = size + 1 /\ th' = [th EXCEPT ![t] = Idle] /\ UNCHANGED <<kind, aging, main>>
      /\ Unlocked
  BY DEF ArpAdd, NbrAdd
<1>2. id \in Id /\ th[t].hop \in Hop /\ HashId(id) \in Bucket /\ HashAddr(id) \in Bucket
  BY <1>1, TableAssumption DEF ThreadsInv, ThreadOK
<1>3. /\ e \notin InUse /\ InUse' = InUse \cup {e}
      /\ key' \in [Entry -> Id \cup {None}] /\ hop' \in [Entry -> Hop \cup {None}]
      /\ expired' \subseteq Entry
  BY <1>1, <1>2, AllocUses
<1>4. wanted' \in [Id -> Hop \cup {None}] /\ heard' \subseteq Id
  BY <1>1, <1>2, NotedType
<1>5. Unlinked = {} /\ Unhashed = {}
  BY <1>1, NoneBetween
<1>6. Unlinked' = {} /\ Unhashed' = {}
  <2>1. \A u \in Rx \ {t} : th'[u] = th[u]
    BY <1>1 DEF TypeOK
  <2>2. th'[t].at = "idle"
    BY <1>1 DEF TypeOK, Idle
  <2> QED BY <1>1, <1>5, <2>1, <2>2, NotBetween, Linking
<1>7. list' \in List /\ Linked(list', {Head} \cup InUse \cup {e})
  <2>1. list \in List /\ Linked(list, {Head} \cup InUse) /\ e \notin {Head} \cup InUse
    BY <1>3, <1>5, PointerAssumption DEF TypeOK, PointersMatch
  <2>2. {Head} \cup InUse \in SUBSET Node
    BY DEF InUse, Node
  <2> QED BY <1>1, <2>1, <2>2, ListAdd DEF list_add
<1>8. byId' \in Hash /\ Hashed(byId', InUse \cup {e})
  <2>1. byId \in Hash /\ Hashed(byId, InUse) /\ InUse \in SUBSET Entry
    BY <1>5 DEF TypeOK, PointersMatch, InUse
  <2> QED BY <1>1, <1>2, <1>3, <2>1, HashAdd DEF hlist_add_head
<1>9. byAddr' \in Hash /\ (kind = "arp" => Hashed(byAddr', InUse \cup {e}))
  <2>1. byAddr \in Hash /\ (kind = "arp" => Hashed(byAddr, InUse)) /\ InUse \in SUBSET Entry
    BY DEF TypeOK, PointersMatch, InUse
  <2> QED BY <1>1, <1>2, <1>3, <2>1, HashAdd DEF hlist_add_head
<1>10. th' \in [Rx -> [at : {"idle", "add", "alloc", "link", "first", "hash", "size", "count"},
                       id : Id \cup {None}, hop : Hop \cup {None}, e : Entry \cup {Null},
                       read : Pointer \cup Int]]
  BY <1>1 DEF TypeOK, Idle, Pointer
<1>11. TypeOK'
  BY <1>1, <1>3, <1>4, <1>7, <1>8, <1>9, <1>10 DEF TypeOK
<1>12. PointersMatch'
  <2>1. {Head} \cup (InUse' \ Unlinked') = {Head} \cup InUse \cup {e} /\ InUse' \ Unhashed' = InUse \cup {e}
    BY <1>3, <1>6
  <2> QED BY <1>1, <1>3, <1>7, <1>8, <1>9, <2>1 DEF PointersMatch
<1>13. ThreadsInv'
  BY <1>1 DEF ThreadsInv, ThreadOK, Locking, Idle, TypeOK
<1>14. AgingInv' /\ KindInv'
  BY <1>1, <1>3 DEF AgingInv, KindInv, Locking
<1> QED BY <1>11, <1>12, <1>13, <1>14

\* The aging pass up to its deletions.
LEMMA AgingKeeps ==
  ASSUME Inv, AgingAlloc \/ AgingLock \/ AgingVisit \/ AgingVisited \/ AgingDone
  PROVE  Inv'
<1> USE DEF Inv
<1>1. /\ UNCHANGED <<kind, list, byId, byAddr, key, hop, size, th, main>> /\ InUse' = InUse
      /\ Locking
  BY DEF AgingAlloc, AgingLock, AgingVisit, AgingVisited, AgingDone, memory, InUse, Free, AgingInv
<1>2. ThreadsInv' /\ Unlinked' = {} /\ Unhashed' = {} /\ Unlinked = {} /\ Unhashed = {}
  BY <1>1, QuietThreads, NoneBetween DEF Locking
<1>3. PointersMatch' /\ KindInv'
  BY <1>1, <1>2 DEF PointersMatch, KindInv
<1>4. list.next[Head] \in {Head} \cup InUse
  BY <1>2 DEF PointersMatch, Linked
<1>5. \A p \in InUse : list.next[p] \in {Head} \cup InUse
  BY <1>2 DEF PointersMatch, Linked
<1>6. InUse \subseteq Entry /\ {Head} \cup InUse \subseteq Pointer
  BY DEF InUse, Pointer, Node
<1>7. AgingInv' /\ aging' \in [at : {"idle", "sized", "walking", "deleting"}, room : Int,
                               pos : Pointer, rec : SUBSET Entry] /\ expired' \subseteq Entry
  <2>1. CASE AgingAlloc
    BY <1>1, <1>6, <2>1 DEF AgingAlloc, AgingInv, TypeOK, Locking, memory
  <2>2. CASE AgingLock
    BY <1>1, <1>4, <1>6, <2>2 DEF AgingLock, AgingInv, TypeOK, Locking, memory
  <2>3. CASE AgingVisit
    BY <1>1, <1>5, <1>6, <2>3 DEF AgingVisit, AgingInv, TypeOK, Locking
  <2>4. CASE AgingVisited
    BY <1>1, <1>6, <2>4 DEF AgingVisited, AgingInv, TypeOK, Locking, memory
  <2>5. CASE AgingDone
    BY <1>1, <1>6, <2>5 DEF AgingDone, AgingInv, TypeOK, NotAging, memory
  <2> QED BY <2>1, <2>2, <2>3, <2>4, <2>5
<1>8. wanted' \in [Id -> Hop \cup {None}] /\ heard' \subseteq Id
  BY DEF AgingAlloc, AgingLock, AgingVisit, AgingVisited, AgingDone, history, TypeOK
<1>9. TypeOK'
  BY <1>1, <1>7, <1>8 DEF TypeOK
<1> QED BY <1>2, <1>3, <1>7, <1>9

\* In a hash table without entries there is nothing to delete.
LEMMA NothingHashed == \A e \in Entry : hlist_del_init(hash_init, e) = hash_init
BY DEF hlist_del_init, hash_init, hlist_unhashed

\* Deletion of an entry of a table that no thread is half-way through adding to.
LEMMA DelMatches ==
  ASSUME TypeOK, PointersMatch, Unlinked = {}, Unhashed = {}, NEW e \in InUse,
         list' = list_del(list, e), byId' = hlist_del_init(byId, e),
         key' = [key EXCEPT ![e] = None], hop' = [hop EXCEPT ![e] = None]
  PROVE  /\ InUse' = InUse \ {e}
         /\ key' \in [Entry -> Id \cup {None}] /\ hop' \in [Entry -> Hop \cup {None}]
         /\ list' \in List /\ Linked(list', {Head} \cup InUse')
         /\ byId' \in Hash /\ Hashed(byId', InUse')
<1>1. e \in Entry /\ e # Head /\ InUse \in SUBSET Entry /\ {Head} \cup InUse \in SUBSET Node
  BY PointerAssumption DEF InUse, Node
<1>2. /\ InUse' = InUse \ {e}
      /\ key' \in [Entry -> Id \cup {None}] /\ hop' \in [Entry -> Hop \cup {None}]
  BY <1>1, FreeUses
<1>3. Linked(list, {Head} \cup InUse) /\ Hashed(byId, InUse) /\ list \in List /\ byId \in Hash
  BY DEF TypeOK, PointersMatch
<1>4. list' \in List /\ Linked(list', ({Head} \cup InUse) \ {e})
  BY <1>1, <1>3, ListDel
<1>5. ({Head} \cup InUse) \ {e} = {Head} \cup InUse'
  BY <1>1, <1>2
<1>6. byId' \in Hash /\ Hashed(byId', InUse \ {e})
  BY <1>1, <1>3, HashDel
<1> QED BY <1>2, <1>4, <1>5, <1>6

LEMMA AgingDeleteKeeps ==
  ASSUME Inv, NEW e \in Entry, AgingDelete(e)
  PROVE  Inv'
<1> USE DEF Inv
<1>1. /\ aging.at = "deleting" /\ e \in InUse /\ Locking
      /\ list' = list_del(list, e) /\ byId' = hlist_del_init(byId, e)
      /\ byAddr' = hlist_del_init(byAddr, e) /\ size' = size - 1
      /\ key' = [key EXCEPT ![e] = None] /\ hop' = [hop EXCEPT ![e] = None]
      /\ aging' = [aging EXCEPT !.rec = @ \ {e}]
      /\ UNCHANGED <<kind, th, main, wanted, heard>> /\ expired' \subseteq Entry
  BY DEF AgingDelete, AgingInv, history, TypeOK
<1>2. ThreadsInv' /\ Unlinked' = {} /\ Unhashed' = {} /\ Unlinked = {} /\ Unhashed = {}
  BY <1>1, QuietThreads, NoneBetween DEF Locking
<1>3. /\ InUse' = InUse \ {e}
      /\ key' \in [Entry -> Id \cup {None}] /\ hop' \in [Entry -> Hop \cup {None}]
      /\ list' \in List /\ Linked(list', {Head} \cup InUse')
      /\ byId' \in Hash /\ Hashed(byId', InUse')
  BY <1>1, <1>2, DelMatches
<1>4. byAddr' \in Hash /\ (kind = "arp" => Hashed(byAddr', InUse')) /\ (kind # "arp" => byAddr' = byAddr)
  <2>1. CASE kind = "arp"
    <3>1. byAddr \in Hash /\ Hashed(byAddr, InUse) /\ InUse \in SUBSET Entry
      BY <2>1 DEF TypeOK, PointersMatch, InUse
    <3> QED BY <1>1, <1>3, <2>1, <3>1, HashDel
  <2>2. CASE kind # "arp"
    BY <1>1, <2>2, NothingHashed DEF KindInv, TypeOK
  <2> QED BY <2>1, <2>2
<1>5. aging' \in [at : {"idle", "sized", "walking", "deleting"}, room : Int, pos : Pointer,
                  rec : SUBSET Entry] /\ AgingInv'
  BY <1>1, <1>3 DEF AgingInv, TypeOK, Locking
<1>6. TypeOK'
  BY <1>1, <1>3, <1>4, <1>5 DEF TypeOK
<1>7. PointersMatch' /\ KindInv'
  BY <1>1, <1>2, <1>3, <1>4 DEF PointersMatch, KindInv
<1> QED BY <1>2, <1>5, <1>6, <1>7
-----------------------------------------------------------------------------
(* Routes, step by step, with one thread that writes them                   *)

\* The threads of a table of routes of which only t is not idle, after a step of
\* t alone.
LEMMA SoleThread ==
  ASSUME Inv, OneWriter, kind \in {"local", "son"}, NEW t \in FwdWriter, NEW r,
         th' = [th EXCEPT ![t] = r], kind' = kind, ThreadOK(t)'
  PROVE  /\ ThreadsInv'
         /\ Unlinked = IF th[t].at = "link" THEN {th[t].e} ELSE {}
         /\ Unhashed = IF th[t].at \in {"link", "first", "hash"} THEN {th[t].e} ELSE {}
         /\ Unlinked' = IF r.at = "link" THEN {r.e} ELSE {}
         /\ Unhashed' = IF r.at \in {"link", "first", "hash"} THEN {r.e} ELSE {}
<1>1. t \in Rx /\ \A u \in Rx \ {t} : th[u].at = "idle"
  BY OthersIdle, TableAssumption DEF Inv
<1>2. th'[t] = r /\ \A u \in Rx \ {t} : th'[u].at = "idle"
  BY <1>1 DEF Inv, TypeOK
<1>3. ThreadsInv'
  BY <1>1, <1>2 DEF ThreadsInv, ThreadOK
<1> QED BY <1>1, <1>2, <1>3, OneBetween, Linking, ZenonT(60)

\* What a step on routes leaves alone.
LEMMA RoutesRest ==
  ASSUME Inv, kind \in {"local", "son"}, UNCHANGED <<kind, byAddr, aging, main>>
  PROVE  AgingInv' /\ KindInv'
<1>1. aging.at = "idle"
  BY DEF Inv, AgingInv, Locking, TypeOK
<1> QED BY <1>1 DEF Inv, AgingInv, KindInv

LEMMA RouteRuleKeeps ==
  ASSUME Inv, OneWriter, NEW t \in Rx, NEW id \in Id, NEW h \in Hop \cup {None}, RouteRule(t, id, h)
  PROVE  Inv'
<1> USE DEF Inv
<1>1. t \in FwdWriter /\ th[t].at = "idle" /\ kind = "son" /\ UNCHANGED <<kind, aging, main>>
  BY DEF RouteRule, At
<1>2. \A u \in Rx : th[u].at = "idle"
  BY <1>1, OthersIdle
<1>3. Unlinked = {} /\ Unhashed = {}
  BY <1>2 DEF Unlinked, Unhashed
<1> DEFINE r == [at |-> "alloc", id |-> id, hop |-> h, e |-> Null, read |-> Null]
<1>4. th' = th \/ (th' = [th EXCEPT ![t] = r] /\ h \in Hop)
  BY DEF RouteRule, Idle
<1> HIDE DEF r
<1>5. \A u \in Rx : th'[u].at \notin {"link", "first", "hash"}
  BY <1>2, <1>4 DEF r, TypeOK
<1>6. Unlinked' = {} /\ Unhashed' = {}
  BY <1>5 DEF Unlinked, Unhashed
<1>7. ThreadsInv'
  <2>1. ASSUME NEW u \in Rx, th'[u] = th[u] PROVE ThreadOK(u)'
    BY <1>2, <2>1 DEF ThreadOK
  <2>2. ASSUME th'[t] = r, h \in Hop PROVE ThreadOK(t)'
    BY <1>1, <2>2 DEF ThreadOK, r
  <2>3. \A u \in Rx : th'[u] = th[u] \/ (u = t /\ th'[u] = r /\ h \in Hop)
    BY <1>4 DEF TypeOK
  <2> QED BY <2>1, <2>2, <2>3 DEF ThreadsInv
<1>8. /\ key' \in [Entry -> Id \cup {None}] /\ hop' \in [Entry -> Hop \cup {None}]
      /\ list' \in List /\ Linked(list', {Head} \cup InUse')
      /\ byId' \in Hash /\ Hashed(byId', InUse')
      /\ UNCHANGED <<byAddr, expired>> /\ size' \in Int
  <2>1. CASE \E e \in Entry : Found(e, id) /\ FwdDel(e)
    <3> PICK e \in Entry : Found(e, id) /\ FwdDel(e)
      BY <2>1
    <3>1. e \in InUse
      BY TableAssumption DEF Found, Match, InUse, Free
    <3>2. /\ list' = list_del(list, e) /\ byId' = hlist_del_init(byId, e) /\ size' = size - 1
          /\ key' = [key EXCEPT ![e] = None] /\ hop' = [hop EXCEPT ![e] = None]
          /\ UNCHANGED <<byAddr, expired>>
      BY DEF FwdDel
    <3>3. size' \in Int
      BY <3>2 DEF TypeOK
    <3> QED BY <1>3, <3>1, <3>2, <3>3, DelMatches
  <2>2. CASE UNCHANGED memory
    BY <1>3, <2>2 DEF memory, TypeOK, PointersMatch, InUse, Free
  <2> QED BY <2>1, <2>2 DEF RouteRule
<1>9. wanted' \in [Id -> Hop \cup {None}] /\ heard' \subseteq Id
  BY DEF RouteRule, history, TypeOK
<1>10. TypeOK'
  <2>1. th' \in [Rx -> [at : {"idle", "add", "alloc", "link", "first", "hash", "size", "count"},
                        id : Id \cup {None}, hop : Hop \cup {None}, e : Entry \cup {Null},
                        read : Pointer \cup Int]]
    BY <1>4 DEF TypeOK, r, Pointer
  <2> QED BY <1>1, <1>8, <1>9, <2>1 DEF TypeOK
<1>11. PointersMatch'
  BY <1>1, <1>6, <1>8 DEF PointersMatch
<1>12. AgingInv' /\ KindInv'
  BY <1>1, <1>8, RoutesRest
<1> QED BY <1>7, <1>10, <1>11, <1>12

\* The type of what a thread is at.
Place == [at : {"idle", "add", "alloc", "link", "first", "hash", "size", "count"},
          id : Id \cup {None}, hop : Hop \cup {None}, e : Entry \cup {Null},
          read : Pointer \cup Int]

\* alloc_fwd_entry: the entry is in use and neither linked nor hashed.
LEMMA FwdAllocKeeps ==
  ASSUME Inv, OneWriter, NEW t \in Rx, NEW e \in Entry, FwdAlloc(t, e)
  PROVE  Inv'
<1> USE DEF Inv
<1> DEFINE r == [th[t] EXCEPT !.at = "link", !.e = e, !.read = list.prev[Head]]
<1>1. /\ t \in FwdWriter /\ th[t].at = "alloc" /\ th[t] \in Place
      /\ Alloc(e, th[t].id, th[t].hop) /\ th' = [th EXCEPT ![t] = r]
      /\ UNCHANGED <<kind, list, byId, byAddr, size, aging, main, wanted, heard>>
  BY DEF FwdAlloc, At, history, TypeOK, Place
<1>2. th[t].id \in Id /\ th[t].hop \in Hop /\ kind \in {"local", "son"}
  BY <1>1 DEF ThreadsInv, ThreadOK
<1>3. /\ e \notin InUse /\ InUse' = InUse \cup {e}
      /\ key' \in [Entry -> Id \cup {None}] /\ hop' \in [Entry -> Hop \cup {None}]
      /\ expired' \subseteq Entry
  BY <1>1, <1>2, AllocUses
<1>4. /\ r \in Place /\ r.at = "link" /\ r.e = e /\ r.read = list.prev[Head]
      /\ r.id = th[t].id /\ r.hop = th[t].hop
  BY <1>1 DEF TypeOK, Place, List, Node
<1> HIDE DEF r
<1>5. ThreadOK(t)'
  BY <1>1, <1>2, <1>3, <1>4 DEF ThreadOK, TypeOK
<1>6. ThreadsInv' /\ Unlinked = {} /\ Unhashed = {} /\ Unlinked' = {e} /\ Unhashed' = {e}
  BY <1>1, <1>2, <1>4, <1>5, SoleThread
<1>7. TypeOK'
  BY <1>1, <1>3, <1>4 DEF TypeOK, Place
<1>8. PointersMatch'
  <2>1. InUse' \ Unlinked' = InUse \ Unlinked /\ InUse' \ Unhashed' = InUse \ Unhashed
    BY <1>3, <1>6
  <2> QED BY <1>1, <1>2, <2>1 DEF PointersMatch
<1>9. AgingInv' /\ KindInv'
  BY <1>1, <1>2, RoutesRest
<1> QED BY <1>6, <1>7, <1>8, <1>9

\* list_add_tail: the last entry is still the one that was read.
LEMMA FwdLinkKeeps ==
  ASSUME Inv, OneWriter, NEW t \in Rx, FwdLink(t)
  PROVE  Inv'
<1> USE DEF Inv
<1> DEFINE r == [th[t] EXCEPT !.at = "first"]
           e == th[t].e
           last == list.prev[Head]
<1>1. /\ t \in FwdWriter /\ th[t].at = "link" /\ th[t] \in Place
      /\ list' = __list_add(list, e, th[t].read, Head) /\ th' = [th EXCEPT ![t] = r]
      /\ UNCHANGED <<kind, byId, byAddr, key, hop, expired, size, aging, main, wanted, heard>>
  BY DEF FwdLink, At, history, TypeOK, Place
<1>2. /\ th[t].id \in Id /\ th[t].hop \in Hop /\ kind \in {"local", "son"}
      /\ e \in InUse /\ th[t].read = last /\ InUse' = InUse
  BY <1>1 DEF ThreadsInv, ThreadOK, InUse, Free
<1>3. r \in Place /\ r.at = "first" /\ r.e = e /\ r.id = th[t].id /\ r.hop = th[t].hop
  BY <1>1 DEF Place
<1> HIDE DEF r
<1>4. ThreadOK(t)'
  BY <1>1, <1>2, <1>3 DEF ThreadOK, TypeOK
<1>5. ThreadsInv' /\ Unlinked = {e} /\ Unhashed = {e} /\ Unlinked' = {} /\ Unhashed' = {e}
  BY <1>1, <1>2, <1>3, <1>4, SoleThread, ZenonT(60)
<1>6. list' \in List /\ Linked(list', {Head} \cup (InUse \ {e}) \cup {e})
  <2> DEFINE S == {Head} \cup (InUse \ {e})
  <2>1. list \in List /\ Linked(list, S) /\ S \in SUBSET Node /\ e \in Entry /\ e \notin S
    BY <1>2, <1>5, PointerAssumption DEF TypeOK, PointersMatch, InUse, Node
  <2>2. last \in S /\ list.next[last] = Head
    BY <2>1 DEF Linked
  <2> QED BY <1>1, <1>2, <2>1, <2>2, ListAdd
<1>7. TypeOK'
  BY <1>1, <1>3, <1>6 DEF TypeOK, Place
<1>8. PointersMatch'
  <2>1. {Head} \cup (InUse' \ Unlinked') = {Head} \cup (InUse \ {e}) \cup {e}
    BY <1>2, <1>5
  <2> QED BY <1>1, <1>2, <1>5, <1>6, <2>1 DEF PointersMatch
<1>9. AgingInv' /\ KindInv'
  BY <1>1, <1>2, RoutesRest
<1> QED BY <1>5, <1>7, <1>8, <1>9

\* Reads: of the bucket's first entry and of the size.
LEMMA FwdReadKeeps ==
  ASSUME Inv, OneWriter, NEW t \in Rx, FwdFirst(t) \/ FwdSize(t)
  PROVE  Inv'
<1> USE DEF Inv
<1> DEFINE r == IF FwdFirst(t)
                THEN [th[t] EXCEPT !.at = "hash", !.read = byId.first[HashId(th[t].id)]]
                ELSE [th[t] EXCEPT !.at = "count", !.read = size]
<1>1. /\ t \in FwdWriter /\ th[t] \in Place /\ th' = [th EXCEPT ![t] = r]
      /\ th[t].at = IF FwdFirst(t) THEN "first" ELSE "size"
      /\ UNCHANGED <<kind, list, byId, byAddr, key, hop, expired, size, aging, main, wanted, heard>>
  BY DEF FwdFirst, FwdSize, At, history, memory, TypeOK, Place
<1>2. /\ th[t].id \in Id /\ th[t].hop \in Hop /\ kind \in {"local", "son"}
      /\ FwdFirst(t) => th[t].e \in InUse
      /\ InUse' = InUse
  BY <1>1 DEF ThreadsInv, ThreadOK, InUse, Free
<1>3. /\ r \in Place /\ r.id = th[t].id /\ r.hop = th[t].hop
      /\ FwdFirst(t) => r.at = "hash" /\ r.e = th[t].e /\ r.read = byId.first[HashId(th[t].id)]
      /\ ~FwdFirst(t) => r.at = "count" /\ r.read \in Int
  <2>1. byId.first[HashId(th[t].id)] \in Pointer \cup Int /\ size \in Int
    BY <1>2, TableAssumption DEF TypeOK, Hash, Pointer, Node
  <2> QED BY <1>1, <2>1 DEF Place
<1> HIDE DEF r
<1>4. ThreadOK(t)'
  BY <1>1, <1>2, <1>3 DEF ThreadOK, TypeOK
<1>5. ThreadsInv' /\ Unlinked' = Unlinked /\ Unhashed' = Unhashed
  <2>1. /\ ThreadsInv'
        /\ Unlinked = IF th[t].at = "link" THEN {th[t].e} ELSE {}
        /\ Unhashed = IF th[t].at \in {"link", "first", "hash"} THEN {th[t].e} ELSE {}
        /\ Unlinked' = IF r.at = "link" THEN {r.e} ELSE {}
        /\ Unhashed' = IF r.at \in {"link", "first", "hash"} THEN {r.e} ELSE {}
    BY <1>1, <1>2, <1>4, SoleThread
  <2>2. CASE FwdFirst(t)
    BY <1>1, <1>3, <2>1, <2>2
  <2>3. CASE ~FwdFirst(t)
    BY <1>1, <1>3, <2>1, <2>3
  <2> QED BY <2>2, <2>3
<1>6. TypeOK'
  BY <1>1, <1>3 DEF TypeOK, Place
<1>7. PointersMatch'
  BY <1>1, <1>2, <1>5 DEF PointersMatch
<1>8. AgingInv' /\ KindInv'
  BY <1>1, <1>2, RoutesRest
<1> QED BY <1>5, <1>6, <1>7, <1>8

\* hlist_add_head: the bucket's first entry is still the one that was read.
LEMMA FwdHashKeeps ==
  ASSUME Inv, OneWriter, NEW t \in Rx, FwdHash(t)
  PROVE  Inv'
<1> USE DEF Inv
<1> DEFINE r == [th[t] EXCEPT !.at = "size"]
           e == th[t].e
           b == HashId(th[t].id)
<1>1. /\ t \in FwdWriter /\ th[t].at = "hash" /\ th[t] \in Place
      /\ byId' = PutFirst(byId, e, b, th[t].read) /\ th' = [th EXCEPT ![t] = r]
      /\ UNCHANGED <<kind, list, byAddr, key, hop, expired, size, aging, main, wanted, heard>>
  BY DEF FwdHash, At, history, TypeOK, Place
<1>2. /\ th[t].id \in Id /\ th[t].hop \in Hop /\ kind \in {"local", "son"} /\ b \in Bucket
      /\ e \in InUse /\ th[t].read = byId.first[b] /\ InUse' = InUse
  BY <1>1, TableAssumption DEF ThreadsInv, ThreadOK, InUse, Free
<1>3. r \in Place /\ r.at = "size" /\ r.e = e /\ r.id = th[t].id /\ r.hop = th[t].hop
  BY <1>1 DEF Place
<1> HIDE DEF r
<1>4. ThreadOK(t)'
  BY <1>1, <1>2, <1>3 DEF ThreadOK, TypeOK
<1>5. ThreadsInv' /\ Unlinked = {} /\ Unhashed = {e} /\ Unlinked' = {} /\ Unhashed' = {}
  BY <1>1, <1>2, <1>3, <1>4, SoleThread
<1>6. byId' \in Hash /\ Hashed(byId', (InUse \ {e}) \cup {e})
  <2> DEFINE S == InUse \ {e}
  <2>1. byId \in Hash /\ Hashed(byId, S) /\ S \in SUBSET Entry /\ e \in Entry /\ e \notin S
    BY <1>2, <1>5 DEF TypeOK, PointersMatch, InUse
  <2> QED BY <1>1, <1>2, <2>1, HashAdd
<1>7. TypeOK'
  BY <1>1, <1>3, <1>6 DEF TypeOK, Place
<1>8. PointersMatch'
  <2>1. InUse' \ Unhashed' = (InUse \ {e}) \cup {e}
    BY <1>2, <1>5
  <2> QED BY <1>1, <1>2, <1>5, <1>6, <2>1 DEF PointersMatch
<1>9. AgingInv' /\ KindInv'
  BY <1>1, <1>2, RoutesRest
<1> QED BY <1>5, <1>7, <1>8, <1>9

LEMMA FwdCountKeeps ==
  ASSUME Inv, OneWriter, NEW t \in Rx, FwdCount(t)
  PROVE  Inv'
<1> USE DEF Inv
<1>1. /\ t \in FwdWriter /\ th[t].at = "count" /\ th' = [th EXCEPT ![t] = Idle]
      /\ size' = th[t].read + 1 /\ Noted(th[t].id, th[t].hop)
      /\ UNCHANGED <<kind, list, byId, byAddr, key, hop, expired, aging, main>>
  BY DEF FwdCount, At
<1>2. /\ th[t].id \in Id /\ th[t].hop \in Hop /\ kind \in {"local", "son"}
      /\ th[t].read \in Int /\ InUse' = InUse
  BY <1>1 DEF ThreadsInv, ThreadOK, InUse, Free
<1>3. Idle \in Place /\ Idle.at = "idle"
  BY DEF Idle, Place, Pointer
<1>4. ThreadOK(t)'
  BY <1>1, <1>3 DEF ThreadOK, TypeOK
<1>5. ThreadsInv' /\ Unlinked' = Unlinked /\ Unhashed' = Unhashed
  BY <1>1, <1>2, <1>3, <1>4, SoleThread
<1>6. wanted' \in [Id -> Hop \cup {None}] /\ heard' \subseteq Id
  BY <1>1, <1>2, NotedType
<1>7. TypeOK'
  BY <1>1, <1>2, <1>3, <1>6 DEF TypeOK, Place
<1>8. PointersMatch'
  BY <1>1, <1>2, <1>5 DEF PointersMatch
<1>9. AgingInv' /\ KindInv'
  BY <1>1, <1>2, RoutesRest
<1> QED BY <1>5, <1>7, <1>8, <1>9
-----------------------------------------------------------------------------
(* The connections to VNFs                                                  *)

LEMMA BspcAddKeeps ==
  ASSUME Inv, NEW id \in Id, NEW e \in Entry, BspcAdd(id, e)
  PROVE  Inv'
<1> USE DEF Inv
<1>1. /\ kind = "bspc" /\ Alloc(e, id, Direct) /\ Noted(id, Direct) /\ size' = size + 1
      /\ list' = list_add(list, e, Head) /\ byId' = hlist_add_head(byId, e, HashId(id))
      /\ UNCHANGED <<kind, byAddr, th, aging, main>>
  BY DEF BspcAdd, KindInv
<1>2. Direct \in Hop /\ HashId(id) \in Bucket
  BY TableAssumption
<1>3. /\ e \notin InUse /\ InUse' = InUse \cup {e}
      /\ key' \in [Entry -> Id \cup {None}] /\ hop' \in [Entry -> Hop \cup {None}]
      /\ expired' \subseteq Entry
  BY <1>1, <1>2, AllocUses
<1>4. wanted' \in [Id -> Hop \cup {None}] /\ heard' \subseteq Id
  BY <1>1, <1>2, NotedType
<1>5. ThreadsInv' /\ Unlinked' = {} /\ Unhashed' = {} /\ Unlinked = {} /\ Unhashed = {}
  BY <1>1, QuietThreads, NoneBetween
<1>6. list' \in List /\ Linked(list', {Head} \cup InUse \cup {e})
  <2>1. list \in List /\ Linked(list, {Head} \cup InUse) /\ e \notin {Head} \cup InUse
    BY <1>3, <1>5, PointerAssumption DEF TypeOK, PointersMatch
  <2>2. {Head} \cup InUse \in SUBSET Node
    BY DEF InUse, Node
  <2> QED BY <1>1, <2>1, <2>2, ListAdd DEF list_add
<1>7. byId' \in Hash /\ Hashed(byId', InUse \cup {e})
  <2>1. byId \in Hash /\ Hashed(byId, InUse) /\ InUse \in SUBSET Entry
    BY <1>5 DEF TypeOK, PointersMatch, InUse
  <2> QED BY <1>1, <1>2, <1>3, <2>1, HashAdd DEF hlist_add_head
<1>8. TypeOK'
  BY <1>1, <1>3, <1>4, <1>6, <1>7 DEF TypeOK
<1>9. PointersMatch'
  <2>1. {Head} \cup (InUse' \ Unlinked') = {Head} \cup InUse \cup {e} /\ InUse' \ Unhashed' = InUse \cup {e}
    BY <1>3, <1>5
  <2> QED BY <1>1, <1>6, <1>7, <2>1 DEF PointersMatch
<1>10. AgingInv' /\ KindInv'
  BY <1>1, <1>3 DEF AgingInv, KindInv, Locking
<1> QED BY <1>5, <1>8, <1>9, <1>10

LEMMA DestroyKeeps ==
  ASSUME Inv, BspcFail \/ Destroy \/ Destroyed
  PROVE  Inv'
<1> USE DEF Inv
<1>1. kind = "bspc" /\ UNCHANGED <<kind, byAddr, expired, th, aging>>
  BY DEF BspcFail, Destroy, Destroyed, KindInv, memory
<1>2. ThreadsInv' /\ Unlinked' = {} /\ Unhashed' = {} /\ Unlinked = {} /\ Unhashed = {}
  BY <1>1, QuietThreads, NoneBetween
<1>3. main' \in {"ready", "filling", "destroying", "freed"} /\ aging.at = "idle" /\ aging.rec = {}
  BY <1>1 DEF BspcFail, Destroy, Destroyed, TypeOK, AgingInv, Locking
<1>4. wanted' \in [Id -> Hop \cup {None}] /\ heard' \subseteq Id
  BY DEF BspcFail, Destroy, Destroyed, history, TypeOK
<1>5. /\ key' \in [Entry -> Id \cup {None}] /\ hop' \in [Entry -> Hop \cup {None}]
      /\ list' \in List /\ Linked(list', {Head} \cup InUse')
      /\ byId' \in Hash /\ Hashed(byId', InUse')
  <2>1. CASE Destroy
    <3> DEFINE e == list.next[Head]
    <3>1. /\ e \in Entry /\ list' = list_del(list, e) /\ byId' = hlist_del_init(byId, e)
          /\ key' = [key EXCEPT ![e] = None] /\ hop' = [hop EXCEPT ![e] = None]
      BY <2>1 DEF Destroy
    <3>2. e \in InUse
      BY <1>2, <3>1, PointerAssumption DEF PointersMatch, Linked
    <3> QED BY <1>2, <3>1, <3>2, DelMatches
  <2>2. CASE BspcFail \/ Destroyed
    BY <1>2, <2>2 DEF BspcFail, Destroyed, memory, TypeOK, PointersMatch, InUse, Free
  <2> QED BY <2>1, <2>2
<1>6. size' \in Int
  BY DEF BspcFail, Destroy, Destroyed, memory, TypeOK
<1>7. TypeOK'
  BY <1>1, <1>3, <1>4, <1>5, <1>6 DEF TypeOK
<1>8. PointersMatch'
  BY <1>1, <1>2, <1>5 DEF PointersMatch
<1>9. AgingInv' /\ KindInv'
  BY <1>1, <1>3 DEF AgingInv, KindInv, Locking
<1> QED BY <1>2, <1>7, <1>8, <1>9
-----------------------------------------------------------------------------
(* Theorems                                                                 *)

LEMMA InitInv == Init => Inv
<1> SUFFICES ASSUME Init PROVE Inv
  OBVIOUS
<1>1. InUse = {} /\ Unlinked = {} /\ Unhashed = {}
  BY DEF Init, InUse, Free, Unlinked, Unhashed, Idle
<1>2. list \in List /\ Linked(list, {Head})
  BY DEF Init, INIT_LIST_HEAD, List, Linked, Node, Pointer
<1>3. hash_init \in Hash /\ Hashed(hash_init, {})
  BY DEF hash_init, Hash, Hashed
<1>4. PointersMatch
  BY <1>1, <1>2, <1>3 DEF PointersMatch, Init
<1>5. th \in [Rx -> Place] /\ ThreadsInv
  BY DEF Init, Idle, Place, Pointer, ThreadsInv, ThreadOK
<1>6. aging.at = "idle" /\ AgingInv /\ KindInv
  BY DEF Init, NotAging, AgingInv, KindInv
<1>7. TypeOK
  BY <1>2, <1>3, <1>5 DEF TypeOK, Init, Place, NotAging, Pointer, Node
<1> QED BY <1>4, <1>5, <1>6, <1>7 DEF Inv

LEMMA NextInv == ASSUME OneWriter PROVE Inv /\ [Next]_vars => Inv'
<1> SUFFICES ASSUME Inv, [Next]_vars PROVE Inv'
  OBVIOUS
<1>1. ASSUME NEW t \in Rx, NEW id \in Id, Lookup(t, id) PROVE Inv'
  BY <1>1, LookupKeeps
<1>2. ASSUME NEW t \in Rx, NEW id \in Id, NEW h \in Hop \cup {None}, RouteRule(t, id, h) PROVE Inv'
  BY <1>2, RouteRuleKeeps
<1>3. ASSUME NEW t \in Rx, Adding(t) PROVE Inv'
  <2>1. CASE \E e \in Entry : ArpAdd(t, e) \/ NbrAdd(t, e)
    BY <2>1, AddKeeps
  <2>2. CASE \E e \in Entry : FwdAlloc(t, e)
    BY <2>2, FwdAllocKeeps
  <2>3. CASE FwdLink(t)
    BY <2>3, FwdLinkKeeps
  <2>4. CASE FwdFirst(t) \/ FwdSize(t)
    BY <2>4, FwdReadKeeps
  <2>5. CASE FwdHash(t)
    BY <2>5, FwdHashKeeps
  <2>6. CASE FwdCount(t)
    BY <2>6, FwdCountKeeps
  <2> QED BY <1>3, <2>1, <2>2, <2>3, <2>4, <2>5, <2>6 DEF Adding
<1>4. ASSUME AgingAlloc \/ AgingLock \/ AgingVisit \/ AgingVisited \/ AgingDone PROVE Inv'
  BY <1>4, AgingKeeps
<1>5. ASSUME NEW e \in Entry, AgingDelete(e) PROVE Inv'
  BY <1>5, AgingDeleteKeeps
<1>6. ASSUME NEW id \in Id, NEW e \in Entry, BspcAdd(id, e) PROVE Inv'
  BY <1>6, BspcAddKeeps
<1>7. ASSUME BspcFail \/ Destroy \/ Destroyed PROVE Inv'
  BY <1>7, DestroyKeeps
<1>8. ASSUME UNCHANGED vars PROVE Inv'
  BY <1>8 DEF vars, memory, history, Inv, TypeOK, PointersMatch, Unlinked, Unhashed, InUse, Free,
     ThreadsInv, ThreadOK, Locking, AgingInv, KindInv
<1> QED BY <1>1, <1>2, <1>3, <1>4, <1>5, <1>6, <1>7, <1>8 DEF Next

\* Every variable keeps its type: what list.h and hashtable.h write into the
\* tables of arp.c, neighbor.c, fwding.c and bspc.c is always an address of the
\* table, Null or poison, and what a thread has read is fit for its next step.
THEOREM TypeCorrect == ASSUME OneWriter PROVE Spec => []TypeOK
<1>1. Inv => TypeOK
  BY DEF Inv
<1>2. Inv /\ [Next]_vars => Inv'
  BY NextInv
<1> QED BY InitInv, <1>1, <1>2, PTL DEF Spec

\* Lists and chains are in one piece at every step of list.h's and
\* hashtable.h's writes, for any number of entries, buckets and threads: with
\* the mutexes of the ARP and neighbour tables, and without one if a single
\* thread writes the routes.
THEOREM PointersHold == ASSUME OneWriter PROVE Spec => []PointersMatch
<1>1. Inv => PointersMatch
  BY DEF Inv
<1>2. Inv /\ [Next]_vars => Inv'
  BY NextInv
<1> QED BY InitInv, <1>1, <1>2, PTL DEF Spec
-----------------------------------------------------------------------------
(* Loops: where they lead                                                   *)

\* A loop over the list sees all of S; one over the chain of bucket b does.
ListLeads(l, S) ==
  \A T \in SUBSET Entry : CannotLeave(l.next[Head], l.next, {}, T) => S \subseteq T
ChainLeads(h, b, S) ==
  \A T \in SUBSET Entry : CannotLeave(h.first[b], h.next, {}, T) => S \subseteq T

\* A loop does not leave what it sees.
LEMMA LoopStays ==
  ASSUME NEW first, NEW next, NEW Stop
  PROVE  CannotLeave(first, next, Stop, Loop(first, next, Stop))
BY DEF CannotLeave, Loop

\* A node put into a list is seen, and what was seen before.
LEMMA ListLeadsAdd ==
  ASSUME NEW l \in List, NEW S \in SUBSET Entry, Linked(l, {Head} \cup S),
         NEW p \in {Head} \cup S, NEW e \in Entry, e \notin S, ListLeads(l, S)
  PROVE  ListLeads(__list_add(l, e, p, l.next[p]), S \cup {e})
<1> DEFINE k == __list_add(l, e, p, l.next[p])
           nx == l.next[p]
<1>1. /\ e \in Node /\ p \in Node /\ nx \in {Head} \cup S /\ e # p /\ e # Head
      /\ Head \notin Entry /\ Head \in Node /\ S \subseteq Node
  BY PointerAssumption DEF Linked, Node
<1>2. \A n \in Node : k.next[n] = IF n = p THEN e ELSE IF n = e THEN nx ELSE l.next[n]
  BY <1>1 DEF __list_add, List
<1>3. \A n \in {Head} \cup S : l.next[n] \in {Head} \cup S
  BY DEF Linked
<1> HIDE DEF k, nx
<1> SUFFICES ASSUME NEW T \in SUBSET Entry, CannotLeave(k.next[Head], k.next, {}, T)
             PROVE  S \cup {e} \subseteq T
  BY DEF ListLeads, k
<1>4. k.next[Head] \in Entry => k.next[Head] \in T
  BY DEF CannotLeave
<1>5. \A x \in T : k.next[x] \in Entry => k.next[x] \in T
  BY DEF CannotLeave
<1>6. e \in T => (nx \in Entry => nx \in T)
  BY <1>1, <1>2, <1>5
<1>7. CannotLeave(l.next[Head], l.next, {}, T \cap S)
  <2>1. l.next[Head] \in Entry => l.next[Head] \in T \cap S
    BY <1>1, <1>2, <1>3, <1>4, <1>6 DEF nx
  <2>2. ASSUME NEW x \in T \cap S, l.next[x] \in Entry PROVE l.next[x] \in T \cap S
    <3>1. l.next[x] \in S /\ x \in Node /\ x # e
      BY <1>1, <1>3, <2>2
    <3>2. CASE x = p
      BY <1>2, <1>5, <1>6, <2>2, <3>1, <3>2 DEF nx
    <3>3. CASE x # p
      BY <1>2, <1>5, <2>2, <3>1, <3>3
    <3> QED BY <3>2, <3>3
  <2> QED BY <2>1, <2>2 DEF CannotLeave
<1>8. S \subseteq T
  BY <1>7 DEF ListLeads
<1>9. e \in T
  BY <1>1, <1>2, <1>4, <1>5, <1>8
<1> QED BY <1>8, <1>9

\* What is left of a list is still seen when a node is taken out.
LEMMA ListLeadsDel ==
  ASSUME NEW l \in List, NEW S \in SUBSET Entry, Linked(l, {Head} \cup S),
         NEW e \in S, ListLeads(l, S)
  PROVE  ListLeads(list_del(l, e), S \ {e})
<1> DEFINE k == list_del(l, e)
           nx == l.next[e]
           pv == l.prev[e]
<1>1. /\ e \in Node /\ nx \in {Head} \cup S /\ pv \in {Head} \cup S /\ e # Head
      /\ l.next[pv] = e /\ pv \in Node
      /\ Head \notin Entry /\ Head \in Node /\ S \subseteq Node
  BY PointerAssumption DEF Linked, Node
<1>2. \A n \in Node \ {e} : k.next[n] = IF n = pv THEN nx ELSE l.next[n]
  BY <1>1 DEF list_del, __list_del, List
<1>3. \A n \in {Head} \cup S : l.next[n] \in {Head} \cup S
  BY DEF Linked
<1>4. \A n \in {Head} \cup S : l.next[n] = e => n = pv
  BY <1>1 DEF Linked, pv
<1> HIDE DEF k, nx, pv
<1> SUFFICES ASSUME NEW T \in SUBSET Entry, CannotLeave(k.next[Head], k.next, {}, T)
             PROVE  S \ {e} \subseteq T
  BY DEF ListLeads, k
<1>5. k.next[Head] \in Entry => k.next[Head] \in T
  BY DEF CannotLeave
<1>6. \A x \in T : k.next[x] \in Entry => k.next[x] \in T
  BY DEF CannotLeave
<1> DEFINE U == T \cap S
<1>7. CASE nx \in {Head, e} \cup U
  <2>1. CannotLeave(l.next[Head], l.next, {}, U \cup {e})
    <3>1. l.next[Head] \in Entry => l.next[Head] \in U \cup {e}
      BY <1>1, <1>2, <1>3, <1>5 
    <3>2. ASSUME NEW x \in U, x # e, l.next[x] \in Entry PROVE l.next[x] \in U \cup {e}
      BY <1>1, <1>2, <1>3, <1>6, <3>2
    <3>3. l.next[e] \in Entry => l.next[e] \in U \cup {e}
      BY <1>1, <1>7 DEF nx
    <3> QED BY <3>1, <3>2, <3>3 DEF CannotLeave
  <2>2. U \cup {e} \in SUBSET Entry
    OBVIOUS
  <2> QED BY <2>1, <2>2 DEF ListLeads
<1>8. CASE nx \notin {Head, e} \cup U
  <2>1. pv # Head /\ pv \notin U \ {e}
    <3>1. nx \in Entry /\ nx \in S
      BY <1>1, <1>8
    <3>2. ASSUME pv = Head \/ pv \in U \ {e} PROVE FALSE
      <4>1. k.next[pv] = nx /\ (pv = Head \/ pv \in T)
        BY <1>1, <1>2, <3>2
      <4> QED BY <1>5, <1>6, <1>8, <3>1, <4>1
    <3> QED BY <3>2
  <2>2. CannotLeave(l.next[Head], l.next, {}, U \ {e})
    <3>1. l.next[Head] \in Entry => l.next[Head] \in U \ {e}
      BY <1>1, <1>2, <1>3, <1>4, <1>5, <2>1
    <3>2. ASSUME NEW x \in U \ {e}, l.next[x] \in Entry PROVE l.next[x] \in U \ {e}
      BY <1>1, <1>2, <1>3, <1>4, <1>6, <2>1, <3>2
    <3> QED BY <3>1, <3>2 DEF CannotLeave
  <2> QED BY <2>2 DEF ListLeads
<1> QED BY <1>7, <1>8

\* An entry put first in a chain is seen there, and what each chain had.
LEMMA ChainLeadsAdd ==
  ASSUME NEW h \in Hash, NEW S \in SUBSET Entry, Hashed(h, S),
         NEW e \in Entry, e \notin S, NEW b \in Bucket, NEW c \in Bucket,
         NEW R \in SUBSET S, ChainLeads(h, c, R)
  PROVE  /\ ChainLeads(PutFirst(h, e, b, h.first[b]), c, R)
         /\ c = b => ChainLeads(PutFirst(h, e, b, h.first[b]), c, R \cup {e})
<1> DEFINE k == PutFirst(h, e, b, h.first[b])
           f == h.first[b]
<1>1. /\ \A d \in Bucket : k.first[d] = IF d = b THEN e ELSE h.first[d]
      /\ \A n \in Entry : k.next[n] = IF n = e THEN f ELSE h.next[n]
  BY DEF PutFirst, Hash
<1>2. /\ \A d \in Bucket : h.first[d] \in Entry => h.first[d] \in S
      /\ \A n \in S : h.next[n] \in Entry => h.next[n] \in S
  BY PointerAssumption DEF Hashed
<1> HIDE DEF k, f
<1>3. ASSUME NEW T \in SUBSET Entry, CannotLeave(k.first[c], k.next, {}, T)
      PROVE  R \subseteq T /\ (c = b => e \in T)
  <2>1. k.first[c] \in Entry => k.first[c] \in T
    BY <1>3 DEF CannotLeave
  <2>2. \A x \in T : k.next[x] \in Entry => k.next[x] \in T
    BY <1>3 DEF CannotLeave
  <2>3. c = b => e \in T
    BY <1>1, <2>1
  <2>4. h.first[c] \in Entry => h.first[c] \in T \cap S
    <3>1. CASE c = b
      BY <1>1, <1>2, <2>2, <2>3, <3>1 DEF f
    <3>2. CASE c # b
      BY <1>1, <1>2, <2>1, <3>2
    <3> QED BY <3>1, <3>2
  <2>5. \A x \in T \cap S : h.next[x] \in Entry => h.next[x] \in T \cap S
    BY <1>1, <1>2, <2>2
  <2>6. CannotLeave(h.first[c], h.next, {}, T \cap S)
    BY <2>4, <2>5 DEF CannotLeave
  <2> QED BY <2>3, <2>6 DEF ChainLeads
<1> QED BY <1>3 DEF ChainLeads, k

\* What is left of a chain is still seen when an entry is taken out.
LEMMA ChainLeadsDel ==
  ASSUME NEW h \in Hash, NEW S \in SUBSET Entry, Hashed(h, S), NEW e \in S,
         NEW c \in Bucket, NEW R \in SUBSET S, ChainLeads(h, c, R)
  PROVE  ChainLeads(hlist_del_init(h, e), c, R \ {e})
<1> DEFINE k == hlist_del_init(h, e)
           nx == h.next[e]
           pp == h.pprev[e]
<1>0. Null \notin Entry /\ Null \notin Bucket /\ Entry \cap Bucket = {}
  BY PointerAssumption
<1>1. /\ nx # Null => nx \in S
      /\ (pp \in Bucket /\ h.first[pp] = e) \/ (pp \in S /\ h.next[pp] = e)
  BY DEF Hashed
<1>2. /\ h.first \in [Bucket -> Entry \cup {Null}] /\ h.next \in [Entry -> Entry \cup {Null}]
      /\ pp # Null /\ nx \in Entry \cup {Null}
  BY <1>0, <1>1 DEF Hash
<1>3. /\ k.first = IF pp \in Bucket THEN [h.first EXCEPT ![pp] = nx] ELSE h.first
      /\ k.next = [(IF pp \in Entry THEN [h.next EXCEPT ![pp] = nx] ELSE h.next) EXCEPT ![e] = Null]
  BY <1>2 DEF hlist_del_init, hlist_unhashed, INIT_HLIST_NODE, __hlist_del
<1>4. \A d \in Bucket : k.first[d] = IF d = pp THEN nx ELSE h.first[d]
  BY <1>2, <1>3
<1>5. \A n \in Entry \ {e} : k.next[n] = IF n = pp THEN nx ELSE h.next[n]
  BY <1>2, <1>3
<1>6. /\ \A d \in Bucket : h.first[d] \in Entry => h.first[d] \in S
      /\ \A n \in S : h.next[n] \in Entry => h.next[n] \in S
      /\ \A d \in Bucket : h.first[d] = e => d = pp
      /\ \A n \in S : h.next[n] = e => n = pp
  BY <1>0 DEF Hashed
<1> HIDE DEF k, nx, pp
<1> SUFFICES ASSUME NEW T \in SUBSET Entry, CannotLeave(k.first[c], k.next, {}, T)
             PROVE  R \ {e} \subseteq T
  BY DEF ChainLeads, k
<1>7. k.first[c] \in Entry => k.first[c] \in T
  BY DEF CannotLeave
<1>8. \A x \in T : k.next[x] \in Entry => k.next[x] \in T
  BY DEF CannotLeave
<1> DEFINE U == T \cap S
<1>9. CASE nx \in {Null, e} \cup U
  <2>1. h.first[c] \in Entry => h.first[c] \in U \cup {e}
    <3>1. CASE c = pp
      BY <1>0, <1>1, <1>6, <3>1
    <3>2. CASE c # pp
      BY <1>4, <1>6, <1>7, <3>2
    <3> QED BY <3>1, <3>2
  <2>2. ASSUME NEW x \in U, x # e, h.next[x] \in Entry PROVE h.next[x] \in U \cup {e}
    <3>1. CASE x = pp
      BY <1>0, <1>1, <2>2, <3>1
    <3>2. CASE x # pp
      BY <1>5, <1>6, <1>8, <2>2, <3>2
    <3> QED BY <3>1, <3>2
  <2>3. h.next[e] \in Entry => h.next[e] \in U \cup {e}
    BY <1>0, <1>9 DEF nx
  <2>4. CannotLeave(h.first[c], h.next, {}, U \cup {e})
    BY <2>1, <2>2, <2>3 DEF CannotLeave
  <2>5. U \cup {e} \in SUBSET Entry
    OBVIOUS
  <2> QED BY <2>4, <2>5 DEF ChainLeads
<1>10. CASE nx \notin {Null, e} \cup U
  <2>1. nx \in S /\ nx \in Entry
    BY <1>1, <1>10
  <2>2. c # pp /\ pp \notin U \ {e}
    <3>1. c # pp
      BY <1>4, <1>7, <1>10, <2>1
    <3>2. ASSUME pp \in U \ {e} PROVE FALSE
      <4>1. k.next[pp] = nx /\ pp \in T
        BY <1>5, <3>2
      <4> QED BY <1>8, <1>10, <2>1, <4>1
    <3> QED BY <3>1, <3>2
  <2>3. h.first[c] \in Entry => h.first[c] \in U \ {e}
    BY <1>4, <1>6, <1>7, <2>2
  <2>4. ASSUME NEW x \in U \ {e}, h.next[x] \in Entry PROVE h.next[x] \in U \ {e}
    BY <1>5, <1>6, <1>8, <2>2, <2>4
  <2>5. CannotLeave(h.first[c], h.next, {}, U \ {e})
    BY <2>3, <2>4 DEF CannotLeave
  <2> QED BY <2>5 DEF ChainLeads
<1> QED BY <1>9, <1>10
-----------------------------------------------------------------------------
(* What the steps do to the memory                                          *)

\* No thread is half-way through linking or hashing an entry.
Settled == Unlinked = {} /\ Unhashed = {}

\* An entry is put first in the list and in its chains, and counted.
Puts(e, id, h) ==
  /\ Settled /\ Settled' /\ Alloc(e, id, h)
  /\ e \notin InUse /\ InUse' = InUse \cup {e}
  /\ list' = __list_add(list, e, Head, list.next[Head])
  /\ byId' = PutFirst(byId, e, HashId(id), byId.first[HashId(id)])
  /\ kind = "arp" => byAddr' = PutFirst(byAddr, e, HashAddr(id), byAddr.first[HashAddr(id)])
  /\ size' = size + 1 /\ UNCHANGED kind

\* An entry is taken out of the list and of its chains, and freed.
Cuts(e) ==
  /\ Settled /\ Settled' /\ e \in InUse /\ InUse' = InUse \ {e}
  /\ list' = list_del(list, e) /\ byId' = hlist_del_init(byId, e)
  /\ kind = "arp" => byAddr' = hlist_del_init(byAddr, e)
  /\ key' = [key EXCEPT ![e] = None] /\ hop' = [hop EXCEPT ![e] = None]
  /\ size' = size - 1 /\ UNCHANGED kind

\* Neither list nor chains nor what is in them change.
Stays == /\ UNCHANGED <<kind, list, byId, byAddr, key, hop>> /\ InUse' = InUse
         /\ Unlinked' = Unlinked /\ Unhashed' = Unhashed

\* Thread t alone is half-way through an addition of routes, at this place.
Alone(t, place) ==
  /\ t \in FwdWriter /\ t \in Rx /\ kind \in {"local", "son"} /\ th[t].at = place
  /\ th[t].id \in Id /\ th[t].hop \in Hop
  /\ \A u \in Rx \ {t} : th[u].at = "idle"

LEMMA AddStep ==
  ASSUME Inv, NEW t \in Rx, NEW e \in Entry, ArpAdd(t, e) \/ NbrAdd(t, e)
  PROVE  /\ Locking /\ Unlocked /\ th[t].at = "add" /\ th[t].id \in Id /\ th[t].hop \in Hop
         /\ Puts(e, th[t].id, th[t].hop) /\ Noted(th[t].id, th[t].hop)
         /\ th' = [th EXCEPT ![t] = Idle] /\ UNCHANGED <<aging, main>>
<1> USE DEF Inv
<1> DEFINE id == th[t].id
<1>1. /\ kind \in {"arp", "nbr"} /\ th[t].at = "add"
      /\ Alloc(e, id, th[t].hop) /\ Noted(id, th[t].hop)
      /\ list' = list_add(list, e, Head) /\ byId' = hlist_add_head(byId, e, HashId(id))
      /\ kind = "arp" => byAddr' = hlist_add_head(byAddr, e, HashAddr(id))
      /\ size' = size + 1 /\ th' = [th EXCEPT ![t] = Idle] /\ UNCHANGED <<kind, aging, main>>
      /\ Unlocked
  BY DEF ArpAdd, NbrAdd
<1>2. id \in Id /\ th[t].hop \in Hop
  BY <1>1 DEF ThreadsInv, ThreadOK
<1>3. e \notin InUse /\ InUse' = InUse \cup {e}
  BY <1>1, <1>2, AllocUses
<1>4. Settled
  BY <1>1, NoneBetween DEF Settled
<1>5. Settled'
  <2>1. \A u \in Rx \ {t} : th'[u] = th[u]
    BY <1>1 DEF TypeOK
  <2>2. th'[t].at = "idle"
    BY <1>1 DEF TypeOK, Idle
  <2> QED BY <1>1, <1>4, <2>1, <2>2, NotBetween, Linking DEF Settled
<1> QED BY <1>1, <1>2, <1>3, <1>4, <1>5 DEF Puts, Locking, list_add, hlist_add_head

LEMMA BspcAddStep ==
  ASSUME Inv, NEW id \in Id, NEW e \in Entry, BspcAdd(id, e)
  PROVE  /\ kind = "bspc" /\ main = "filling" /\ wanted[id] = None
         /\ Puts(e, id, Direct) /\ Noted(id, Direct) /\ UNCHANGED <<th, aging, main>>
<1> USE DEF Inv
<1>1. /\ kind = "bspc" /\ Alloc(e, id, Direct) /\ size' = size + 1
      /\ list' = list_add(list, e, Head) /\ byId' = hlist_add_head(byId, e, HashId(id))
      /\ UNCHANGED <<kind, th>>
  BY DEF BspcAdd, KindInv
<1>2. e \notin InUse /\ InUse' = InUse \cup {e}
  BY <1>1, TableAssumption, AllocUses
<1>3. Settled /\ Settled'
  BY <1>1, QuietThreads, NoneBetween DEF Settled
<1> QED BY <1>1, <1>2, <1>3 DEF BspcAdd, Puts, list_add, hlist_add_head

LEMMA AgingDeleteStep ==
  ASSUME Inv, NEW e \in Entry, AgingDelete(e)
  PROVE  /\ Locking /\ aging.at = "deleting" /\ e \in aging.rec /\ Cuts(e)
         /\ expired' = expired \ {e} /\ aging' = [aging EXCEPT !.rec = @ \ {e}]
         /\ UNCHANGED <<th, main, wanted, heard>>
<1> USE DEF Inv
<1>1. Locking /\ e \in InUse /\ UNCHANGED <<kind, th>>
  BY DEF AgingDelete, AgingInv
<1>2. Settled /\ Settled'
  BY <1>1, QuietThreads, NoneBetween DEF Locking, Settled
<1>3. InUse' = InUse \ {e}
  BY FreeUses DEF AgingDelete
<1> QED BY <1>1, <1>2, <1>3 DEF AgingDelete, Cuts, history

LEMMA DestroyStep ==
  ASSUME Inv, Destroy
  PROVE  /\ kind = "bspc" /\ main = "destroying" /\ Cuts(list.next[Head])
         /\ UNCHANGED <<expired, th, aging, main, wanted, heard>>
<1> USE DEF Inv
<1> DEFINE e == list.next[Head]
<1>1. /\ kind = "bspc" /\ UNCHANGED <<kind, th>> /\ e \in Entry /\ size' = size - 1
      /\ list' = list_del(list, e) /\ byId' = hlist_del_init(byId, e)
      /\ key' = [key EXCEPT ![e] = None] /\ hop' = [hop EXCEPT ![e] = None]
  BY DEF Destroy, KindInv
<1>2. Settled /\ Settled'
  BY <1>1, QuietThreads, NoneBetween DEF Settled
<1>3. e \in InUse
  BY <1>1, <1>2, PointerAssumption DEF PointersMatch, Linked, Settled
<1>4. InUse' = InUse \ {e}
  BY <1>1, FreeUses
<1> QED BY <1>1, <1>2, <1>3, <1>4 DEF Destroy, Cuts, history

LEMMA RouteRuleStep ==
  ASSUME Inv, OneWriter, NEW t \in Rx, NEW id \in Id, NEW h \in Hop \cup {None}, RouteRule(t, id, h)
  PROVE  /\ kind = "son" /\ t \in FwdWriter /\ \A u \in Rx : th[u].at = "idle"
         /\ \/ \E e \in InUse : key[e] = id /\ Cuts(e)
            \/ Absent(id) /\ Stays /\ Settled /\ size' = size
         /\ UNCHANGED <<kind, expired, aging, main>>
         /\ \/ /\ h \in Hop /\ UNCHANGED <<wanted, heard>>
               /\ th' = [th EXCEPT ![t] = [Idle EXCEPT !.at = "alloc", !.id = id, !.hop = h]]
            \/ wanted' = [wanted EXCEPT ![id] = None] /\ UNCHANGED <<th, heard>>
<1> USE DEF Inv
<1>1. t \in FwdWriter /\ th[t].at = "idle" /\ kind = "son" /\ UNCHANGED <<kind, aging, main>>
  BY DEF RouteRule, At
<1>2. \A u \in Rx : th[u].at = "idle"
  BY <1>1, OthersIdle
<1>3. Settled
  BY <1>2 DEF Unlinked, Unhashed, Settled
<1> DEFINE r == [Idle EXCEPT !.at = "alloc", !.id = id, !.hop = h]
<1>4. /\ \/ /\ h \in Hop /\ UNCHANGED <<wanted, heard>>
            /\ th' = [th EXCEPT ![t] = r]
         \/ wanted' = [wanted EXCEPT ![id] = None] /\ UNCHANGED <<th, heard>>
  BY DEF RouteRule, history
<1>5. r.at = "alloc"
  BY DEF Idle
<1> HIDE DEF r
<1>6. \A u \in Rx : th'[u].at \notin {"link", "first", "hash"}
  BY <1>2, <1>4, <1>5 DEF TypeOK
<1>7. Settled'
  BY <1>6 DEF Unlinked, Unhashed, Settled
<1>8. \/ (\E e \in InUse : key[e] = id /\ Cuts(e)) /\ UNCHANGED expired
      \/ Absent(id) /\ Stays /\ size' = size /\ UNCHANGED expired
  <2>1. CASE \E e \in Entry : Found(e, id) /\ FwdDel(e)
    <3> PICK e \in Entry : Found(e, id) /\ FwdDel(e)
      BY <2>1
    <3>1. e \in InUse /\ key[e] = id
      BY TableAssumption DEF Found, Match, InUse, Free
    <3>2. InUse' = InUse \ {e}
      BY FreeUses DEF FwdDel
    <3> QED BY <1>1, <1>3, <1>7, <3>1, <3>2 DEF FwdDel, Cuts
  <2>2. CASE Absent(id) /\ UNCHANGED memory
    BY <1>1, <1>3, <1>7, <2>2 DEF memory, Stays, Settled, InUse, Free
  <2> QED BY <2>1, <2>2 DEF RouteRule
<1> QED BY <1>1, <1>2, <1>3, <1>4, <1>8 DEF r

\* A step of the one thread that adds a route.
LEMMA FwdStep ==
  ASSUME Inv, OneWriter, NEW t \in Rx, NEW place \in {"alloc", "link", "first", "hash", "size", "count"},
         At(t, place), UNCHANGED <<kind, aging, main>>, NEW r, th' = [th EXCEPT ![t] = r]
  PROVE  /\ Alone(t, place) /\ th'[t] = r /\ \A u \in Rx \ {t} : th'[u] = th[u]
         /\ Unlinked = IF place = "link" THEN {th[t].e} ELSE {}
         /\ Unhashed = IF place \in {"link", "first", "hash"} THEN {th[t].e} ELSE {}
         /\ Unlinked' = IF r.at = "link" THEN {r.e} ELSE {}
         /\ Unhashed' = IF r.at \in {"link", "first", "hash"} THEN {r.e} ELSE {}
<1> USE DEF Inv
<1>1. /\ t \in FwdWriter /\ th[t].at = place /\ kind \in {"local", "son"}
      /\ th[t].id \in Id /\ th[t].hop \in Hop
  BY DEF At, ThreadsInv, ThreadOK
<1>2. \A u \in Rx \ {t} : th[u].at = "idle"
  BY <1>1, OthersIdle
<1>3. th'[t] = r /\ \A u \in Rx \ {t} : th'[u] = th[u]
  BY DEF TypeOK
<1>4. \A u \in Rx \ {t} : th'[u].at = "idle"
  BY <1>2, <1>3
<1>5. /\ Unlinked = IF place = "link" THEN {th[t].e} ELSE {}
      /\ Unhashed = IF place \in {"link", "first", "hash"} THEN {th[t].e} ELSE {}
  BY <1>1, <1>2, OneBetween, Linking
<1>6. /\ Unlinked' = IF r.at = "link" THEN {r.e} ELSE {}
      /\ Unhashed' = IF r.at \in {"link", "first", "hash"} THEN {r.e} ELSE {}
  <2>1. /\ LinkingIn(th') = IF th'[t].at = "link" THEN {th'[t].e} ELSE {}
        /\ HashingIn(th') = IF th'[t].at \in {"link", "first", "hash"} THEN {th'[t].e} ELSE {}
    BY <1>4, OneBetween
  <2> QED BY <1>3, <2>1, Linking
<1> QED BY <1>1, <1>2, <1>3, <1>5, <1>6 DEF Alone

LEMMA FwdAllocStep ==
  ASSUME Inv, OneWriter, NEW t \in Rx, NEW e \in Entry, FwdAlloc(t, e)
  PROVE  /\ Alone(t, "alloc") /\ Alloc(e, th[t].id, th[t].hop)
         /\ e \notin InUse /\ InUse' = InUse \cup {e}
         /\ Settled /\ Unlinked' = {e} /\ Unhashed' = {e}
         /\ th' = [th EXCEPT ![t].at = "link", ![t].e = e, ![t].read = list.prev[Head]]
         /\ th'[t].at = "link" /\ th'[t].e = e /\ th'[t].id = th[t].id /\ th'[t].hop = th[t].hop
         /\ \A u \in Rx \ {t} : th'[u] = th[u]
         /\ UNCHANGED <<kind, list, byId, byAddr, size, aging, main, wanted, heard>>
<1> USE DEF Inv
<1> DEFINE r == [th[t] EXCEPT !.at = "link", !.e = e, !.read = list.prev[Head]]
<1>1. /\ At(t, "alloc") /\ th' = [th EXCEPT ![t] = r] /\ th[t] \in Place
      /\ th' = [th EXCEPT ![t].at = "link", ![t].e = e, ![t].read = list.prev[Head]]
      /\ Alloc(e, th[t].id, th[t].hop)
      /\ UNCHANGED <<kind, list, byId, byAddr, size, aging, main, wanted, heard>>
  BY DEF FwdAlloc, history, TypeOK, Place
<1>2. r.at = "link" /\ r.e = e /\ r.id = th[t].id /\ r.hop = th[t].hop
  BY <1>1 DEF Place
<1> HIDE DEF r
<1>3. /\ Alone(t, "alloc") /\ Settled /\ Unlinked' = {e} /\ Unhashed' = {e} /\ th'[t] = r
      /\ \A u \in Rx \ {t} : th'[u] = th[u]
  <2>1. /\ Alone(t, "alloc") /\ th'[t] = r /\ \A u \in Rx \ {t} : th'[u] = th[u]
        /\ Unlinked = {} /\ Unhashed = {}
        /\ Unlinked' = IF r.at = "link" THEN {r.e} ELSE {}
        /\ Unhashed' = IF r.at \in {"link", "first", "hash"} THEN {r.e} ELSE {}
    BY <1>1, FwdStep, ZenonT(60)
  <2> QED BY <1>2, <2>1 DEF Settled
<1>4. e \notin InUse /\ InUse' = InUse \cup {e}
  BY <1>1, <1>3, AllocUses DEF Alone
<1> QED BY <1>1, <1>2, <1>3, <1>4

LEMMA FwdLinkStep ==
  ASSUME Inv, OneWriter, NEW t \in Rx, FwdLink(t)
  PROVE  /\ Alone(t, "link") /\ th[t].e \in InUse
         /\ list' = __list_add(list, th[t].e, list.prev[Head], Head) /\ InUse' = InUse
         /\ Unlinked = {th[t].e} /\ Unhashed = {th[t].e} /\ Unlinked' = {} /\ Unhashed' = {th[t].e}
         /\ th'[t].at = "first" /\ th'[t].e = th[t].e
         /\ th'[t].id = th[t].id /\ th'[t].hop = th[t].hop
         /\ \A u \in Rx \ {t} : th'[u] = th[u]
         /\ UNCHANGED <<kind, byId, byAddr, key, hop, expired, size, aging, main, wanted, heard>>
<1> USE DEF Inv
<1> DEFINE r == [th[t] EXCEPT !.at = "first"]
<1>1. /\ At(t, "link") /\ th' = [th EXCEPT ![t] = r] /\ th[t] \in Place
      /\ list' = __list_add(list, th[t].e, th[t].read, Head)
      /\ UNCHANGED <<kind, byId, byAddr, key, hop, expired, size, aging, main, wanted, heard>>
  BY DEF FwdLink, history, TypeOK, Place
<1>2. th[t].e \in InUse /\ th[t].read = list.prev[Head] /\ InUse' = InUse
  BY <1>1 DEF At, ThreadsInv, ThreadOK, InUse, Free
<1>3. r.at = "first" /\ r.e = th[t].e /\ r.id = th[t].id /\ r.hop = th[t].hop
  BY <1>1 DEF Place
<1> HIDE DEF r
<1>4. /\ Alone(t, "link") /\ th'[t] = r /\ \A u \in Rx \ {t} : th'[u] = th[u]
      /\ Unlinked = {th[t].e} /\ Unhashed = {th[t].e} /\ Unlinked' = {} /\ Unhashed' = {th[t].e}
  <2>1. /\ Alone(t, "link") /\ th'[t] = r /\ \A u \in Rx \ {t} : th'[u] = th[u]
        /\ Unlinked = {th[t].e} /\ Unhashed = {th[t].e}
        /\ Unlinked' = IF r.at = "link" THEN {r.e} ELSE {}
        /\ Unhashed' = IF r.at \in {"link", "first", "hash"} THEN {r.e} ELSE {}
    BY <1>1, FwdStep
  <2> QED BY <1>3, <2>1
<1> QED BY <1>1, <1>2, <1>3, <1>4

LEMMA FwdReadStep ==
  ASSUME Inv, OneWriter, NEW t \in Rx, FwdFirst(t) \/ FwdSize(t)
  PROVE  /\ Stays /\ UNCHANGED <<expired, size, aging, main, wanted, heard>>
         /\ \/ Alone(t, "first") /\ th'[t].at = "hash" /\ th[t].e \in InUse
            \/ Alone(t, "size") /\ th'[t].at = "count" /\ th'[t].read = size
         /\ th'[t].e = th[t].e /\ th'[t].id = th[t].id /\ th'[t].hop = th[t].hop
         /\ \A u \in Rx \ {t} : th'[u] = th[u]
<1> USE DEF Inv
<1>1. /\ UNCHANGED <<kind, list, byId, byAddr, key, hop, expired, size, aging, main, wanted, heard>>
      /\ InUse' = InUse
  BY DEF FwdFirst, FwdSize, memory, history, InUse, Free
<1>2. CASE FwdFirst(t)
  <2> DEFINE r == [th[t] EXCEPT !.at = "hash", !.read = byId.first[HashId(th[t].id)]]
  <2>1. /\ At(t, "first") /\ th' = [th EXCEPT ![t] = r] /\ th[t] \in Place
    BY <1>2 DEF FwdFirst, TypeOK, Place
  <2>2. r.at = "hash" /\ r.e = th[t].e /\ r.id = th[t].id /\ r.hop = th[t].hop /\ th[t].e \in InUse
    BY <2>1 DEF Place, At, ThreadsInv, ThreadOK
  <2> HIDE DEF r
  <2>3. /\ Alone(t, "first") /\ th'[t] = r /\ \A u \in Rx \ {t} : th'[u] = th[u]
        /\ Unlinked' = Unlinked /\ Unhashed' = Unhashed
    <3>1. /\ Alone(t, "first") /\ th'[t] = r /\ \A u \in Rx \ {t} : th'[u] = th[u]
          /\ Unlinked = {} /\ Unhashed = {th[t].e}
          /\ Unlinked' = IF r.at = "link" THEN {r.e} ELSE {}
          /\ Unhashed' = IF r.at \in {"link", "first", "hash"} THEN {r.e} ELSE {}
      BY <1>1, <2>1, FwdStep
    <3> QED BY <2>2, <3>1
  <2> QED BY <1>1, <2>2, <2>3 DEF Stays
<1>3. CASE FwdSize(t)
  <2> DEFINE r == [th[t] EXCEPT !.at = "count", !.read = size]
  <2>1. /\ At(t, "size") /\ th' = [th EXCEPT ![t] = r] /\ th[t] \in Place
    BY <1>3 DEF FwdSize, TypeOK, Place
  <2>2. r.at = "count" /\ r.e = th[t].e /\ r.id = th[t].id /\ r.hop = th[t].hop /\ r.read = size
    BY <2>1 DEF Place
  <2> HIDE DEF r
  <2>3. /\ Alone(t, "size") /\ th'[t] = r /\ \A u \in Rx \ {t} : th'[u] = th[u]
        /\ Unlinked' = Unlinked /\ Unhashed' = Unhashed
    BY <1>1, <2>1, <2>2, FwdStep, ZenonT(60)
  <2> QED BY <1>1, <2>2, <2>3 DEF Stays
<1> QED BY <1>2, <1>3

LEMMA FwdHashStep ==
  ASSUME Inv, OneWriter, NEW t \in Rx, FwdHash(t)
  PROVE  /\ Alone(t, "hash") /\ th[t].e \in InUse /\ InUse' = InUse
         /\ byId' = PutFirst(byId, th[t].e, HashId(th[t].id), byId.first[HashId(th[t].id)])
         /\ Unlinked = {} /\ Unhashed = {th[t].e} /\ Settled'
         /\ th'[t].at = "size" /\ th'[t].e = th[t].e
         /\ th'[t].id = th[t].id /\ th'[t].hop = th[t].hop
         /\ \A u \in Rx \ {t} : th'[u] = th[u]
         /\ UNCHANGED <<kind, list, byAddr, key, hop, expired, size, aging, main, wanted, heard>>
<1> USE DEF Inv
<1> DEFINE r == [th[t] EXCEPT !.at = "size"]
<1>1. /\ At(t, "hash") /\ th' = [th EXCEPT ![t] = r] /\ th[t] \in Place
      /\ byId' = PutFirst(byId, th[t].e, HashId(th[t].id), th[t].read)
      /\ UNCHANGED <<kind, list, byAddr, key, hop, expired, size, aging, main, wanted, heard>>
  BY DEF FwdHash, history, TypeOK, Place
<1>2. /\ th[t].e \in InUse /\ th[t].read = byId.first[HashId(th[t].id)] /\ InUse' = InUse
  BY <1>1 DEF At, ThreadsInv, ThreadOK, InUse, Free
<1>3. r.at = "size" /\ r.e = th[t].e /\ r.id = th[t].id /\ r.hop = th[t].hop
  BY <1>1 DEF Place
<1> HIDE DEF r
<1>4. /\ Alone(t, "hash") /\ th'[t] = r /\ \A u \in Rx \ {t} : th'[u] = th[u]
      /\ Unlinked = {} /\ Unhashed = {th[t].e} /\ Settled'
  BY <1>1, <1>3, FwdStep DEF Settled
<1> QED BY <1>1, <1>2, <1>3, <1>4

LEMMA FwdCountStep ==
  ASSUME Inv, OneWriter, NEW t \in Rx, FwdCount(t)
  PROVE  /\ Alone(t, "count") /\ Stays /\ size' = th[t].read + 1
         /\ Noted(th[t].id, th[t].hop) /\ th'[t] = Idle /\ \A u \in Rx \ {t} : th'[u] = th[u]
         /\ UNCHANGED <<expired, aging, main>>
<1> USE DEF Inv
<1>1. /\ At(t, "count") /\ th' = [th EXCEPT ![t] = Idle] /\ size' = th[t].read + 1
      /\ UNCHANGED <<kind, list, byId, byAddr, key, hop, expired, aging, main>>
      /\ Noted(th[t].id, th[t].hop) /\ InUse' = InUse
  BY DEF FwdCount, InUse, Free
<1>2. Idle.at = "idle"
  BY DEF Idle
<1>3. /\ Alone(t, "count") /\ th'[t] = Idle /\ \A u \in Rx \ {t} : th'[u] = th[u]
      /\ Unlinked' = Unlinked /\ Unhashed' = Unhashed
  BY <1>1, <1>2, FwdStep
<1> QED BY <1>1, <1>3 DEF Stays

LEMMA LookupStep ==
  ASSUME Inv, OneWriter, NEW t \in Rx, NEW id \in Id, Lookup(t, id)
  PROVE  /\ kind \in {"arp", "nbr", "local"} /\ Unlocked /\ Stays /\ th[t] = Idle
         /\ kind = "local" => t \in FwdWriter /\ Settled /\ \A u \in Rx : th[u].at = "idle"
         /\ Locking => Settled
         /\ \/ /\ \E e \in InUse : key[e] = id /\ expired' = expired \ {e}
               /\ Noted(id, Direct) /\ UNCHANGED th
            \/ /\ Absent(id) /\ UNCHANGED <<expired, wanted, heard>>
               /\ th' = [th EXCEPT ![t] = [Idle EXCEPT !.at = IF Locking THEN "add" ELSE "alloc",
                                                      !.id = id, !.hop = Direct]]
         /\ UNCHANGED <<size, aging, main>>
<1> USE DEF Inv
<1>1. /\ th[t] = Idle /\ UNCHANGED <<kind, list, byId, byAddr, key, hop, size, aging, main>>
      /\ kind = "local" => t \in FwdWriter
      /\ kind \in {"arp", "nbr", "local"} /\ Unlocked /\ InUse' = InUse
  BY DEF Lookup, InUse, Free
<1> DEFINE r == [Idle EXCEPT !.at = IF Locking THEN "add" ELSE "alloc", !.id = id, !.hop = Direct]
<1>2. \/ /\ \E e \in InUse : key[e] = id /\ expired' = expired \ {e}
         /\ Noted(id, Direct) /\ UNCHANGED th
      \/ /\ Absent(id) /\ UNCHANGED <<expired, wanted, heard>>
         /\ th' = [th EXCEPT ![t] = r]
  <2>1. \A e \in Entry : Found(e, id) => e \in InUse /\ key[e] = id
    BY TableAssumption DEF Found, Match, InUse, Free
  <2> QED BY <2>1 DEF Lookup, Refresh, history
<1>3. r.at \notin {"link", "first", "hash"} /\ th[t].at = "idle"
  BY <1>1 DEF Idle
<1> HIDE DEF r
<1>4. /\ \A u \in Rx \ {t} : th'[u] = th[u]
      /\ th'[t].at \notin {"link", "first", "hash"}
  BY <1>2, <1>3 DEF TypeOK
<1>5. Unlinked' = Unlinked /\ Unhashed' = Unhashed
  BY <1>3, <1>4, NotBetween, Linking
<1>6. kind = "local" => Settled /\ \A u \in Rx : th[u].at = "idle"
  <2> SUFFICES ASSUME kind = "local" PROVE Settled /\ \A u \in Rx : th[u].at = "idle"
    OBVIOUS
  <2>1. \A u \in Rx : th[u].at = "idle"
    BY <1>1, <1>3, OthersIdle
  <2> QED BY <2>1 DEF Settled, Unlinked, Unhashed
<1>7. Locking => Settled
  BY NoneBetween DEF Locking, Settled
<1> QED BY <1>1, <1>2, <1>5, <1>6, <1>7 DEF Stays, r

\* The aging pass up to its deletions, and the end of a "bspc" table.
LEMMA PassStep ==
  ASSUME Inv, AgingAlloc \/ AgingLock \/ AgingVisit \/ AgingVisited \/ AgingDone
  PROVE  Stays /\ Settled /\ Locking /\ UNCHANGED <<size, th, main>>
<1> USE DEF Inv
<1>1. /\ UNCHANGED <<kind, list, byId, byAddr, key, hop, size, th, main>> /\ InUse' = InUse
      /\ Locking
  BY DEF AgingAlloc, AgingLock, AgingVisit, AgingVisited, AgingDone, memory, InUse, Free, AgingInv
<1>2. Unlinked' = {} /\ Unhashed' = {} /\ Unlinked = {} /\ Unhashed = {}
  BY <1>1, QuietThreads, NoneBetween DEF Locking
<1> QED BY <1>1, <1>2 DEF Stays, Settled

LEMMA EndStep ==
  ASSUME Inv, BspcFail \/ Destroyed
  PROVE  Stays /\ Settled /\ kind = "bspc" /\ UNCHANGED <<th, expired, aging>>
<1> USE DEF Inv
<1>1. /\ kind = "bspc" /\ UNCHANGED <<kind, list, byId, byAddr, key, hop, expired, th, aging>>
      /\ InUse' = InUse
  BY DEF BspcFail, Destroyed, KindInv, memory, InUse, Free
<1>2. Unlinked' = {} /\ Unhashed' = {} /\ Unlinked = {} /\ Unhashed = {}
  BY <1>1, QuietThreads, NoneBetween
<1> QED BY <1>1, <1>2 DEF Stays, Settled

LEMMA StutterStep ==
  ASSUME UNCHANGED vars
  PROVE  /\ Stays
         /\ UNCHANGED <<expired, size, th, aging, main, wanted, heard>>
BY DEF vars, memory, history, Stays, InUse, Free, Unlinked, Unhashed
-----------------------------------------------------------------------------
(* What a thread that adds knows of its entry                               *)

\* It is in the table with what the thread was told; the size that the thread
\* has read is still the table's.
AddedOK(t) ==
  /\ th[t].at = "idle" => th[t].id = None
  /\ th[t].at \in {"link", "first", "hash", "size", "count"} =>
       th[t].e \in InUse /\ key[th[t].e] = th[t].id /\ hop[th[t].e] = th[t].hop
  /\ th[t].at = "count" => th[t].read = size

AddedInv == \A t \in Rx : AddedOK(t)

\* A thread that is not at any of that.
LEMMA NothingAdded ==
  ASSUME NEW u \in Rx, AddedOK(u), th'[u] = th[u], th[u].at \in {"idle", "add"}
  PROVE  AddedOK(u)'
BY DEF AddedOK

LEMMA NotRoutes ==
  ASSUME ThreadsInv, TypeOK, kind \notin {"local", "son"}
  PROVE  \A u \in Rx : th[u].at \in {"idle", "add"}
BY DEF ThreadsInv, ThreadOK, TypeOK

LEMMA AddedStep ==
  ASSUME Inv, OneWriter, AddedInv, [Next]_vars
  PROVE  AddedInv'
<1> USE DEF Inv
<1>1. ASSUME NEW t \in Rx, NEW id \in Id, Lookup(t, id) PROVE AddedInv'
  <2>1. \A u \in Rx : th[u].at \in {"idle", "add"}
    BY <1>1, LookupStep, NotRoutes DEF Locking
  <2>2. \A u \in Rx : th'[u] = th[u] \/ th'[u].at \in {"add", "alloc"}
    <3> DEFINE r == [Idle EXCEPT !.at = IF Locking THEN "add" ELSE "alloc", !.id = id, !.hop = Direct]
    <3>1. th' = th \/ th' = [th EXCEPT ![t] = r]
      BY <1>1, LookupStep
    <3>2. r.at \in {"add", "alloc"}
      BY DEF Idle
    <3> HIDE DEF r
    <3> QED BY <3>1, <3>2 DEF TypeOK
  <2>3. \A u \in Rx : th'[u].at \in {"add", "alloc"} => AddedOK(u)'
    BY DEF AddedOK
  <2> QED BY <2>1, <2>2, <2>3, NothingAdded DEF AddedInv
<1>2. ASSUME NEW t \in Rx, NEW id \in Id, NEW h \in Hop \cup {None}, RouteRule(t, id, h) PROVE AddedInv'
  <2>1. \A u \in Rx : th[u].at = "idle"
    BY <1>2, RouteRuleStep
  <2>2. \A u \in Rx : th'[u] = th[u] \/ th'[u].at = "alloc"
    <3> DEFINE r == [Idle EXCEPT !.at = "alloc", !.id = id, !.hop = h]
    <3>1. th' = th \/ th' = [th EXCEPT ![t] = r]
      BY <1>2, RouteRuleStep, ZenonT(60)
    <3>2. r.at = "alloc"
      BY DEF Idle
    <3> HIDE DEF r
    <3> QED BY <3>1, <3>2 DEF TypeOK
  <2>3. \A u \in Rx : th'[u].at = "alloc" => AddedOK(u)'
    BY DEF AddedOK
  <2> QED BY <2>1, <2>2, <2>3, NothingAdded DEF AddedInv
<1>3. ASSUME NEW t \in Rx, Adding(t) PROVE AddedInv'
  <2>1. ASSUME NEW e \in Entry, ArpAdd(t, e) \/ NbrAdd(t, e) PROVE AddedInv'
    <3>1. \A u \in Rx : th[u].at \in {"idle", "add"}
      BY <2>1, AddStep, NotRoutes DEF Locking
    <3>2. \A u \in Rx : th'[u] = th[u] \/ (th'[u].at = "idle" /\ th'[u].id = None)
      BY <2>1, AddStep DEF TypeOK, Idle
    <3>3. \A u \in Rx : th'[u].at = "idle" /\ th'[u].id = None => AddedOK(u)'
      BY DEF AddedOK
    <3> QED BY <3>1, <3>2, <3>3, NothingAdded DEF AddedInv
  <2>2. ASSUME NEW place, Alone(t, place), \A u \in Rx \ {t} : th'[u] = th[u], AddedOK(t)'
        PROVE AddedInv'
    BY <2>2, NothingAdded DEF Alone, AddedInv
  <2>3. ASSUME NEW e \in Entry, FwdAlloc(t, e) PROVE AddedInv'
    <3>1. /\ key' = [key EXCEPT ![e] = th[t].id] /\ hop' = [hop EXCEPT ![e] = th[t].hop]
          /\ InUse' = InUse \cup {e} /\ th'[t].at = "link" /\ th'[t].e = e
          /\ th'[t].id = th[t].id /\ th'[t].hop = th[t].hop
          /\ Alone(t, "alloc") /\ \A u \in Rx \ {t} : th'[u] = th[u]
      BY <2>3, FwdAllocStep DEF Alloc
    <3>2. AddedOK(t)'
      BY <3>1 DEF AddedOK, TypeOK
    <3> QED BY <2>2, <3>1, <3>2
  <2>4. CASE FwdLink(t)
    <3>1. AddedOK(t)'
      BY <2>4, FwdLinkStep DEF AddedInv, AddedOK, Alone
    <3> QED BY <2>2, <2>4, <3>1, FwdLinkStep
  <2>5. CASE FwdFirst(t) \/ FwdSize(t)
    <3>1. AddedOK(t)'
      BY <2>5, FwdReadStep DEF AddedInv, AddedOK, Alone, Stays
    <3> QED BY <2>2, <2>5, <3>1, FwdReadStep
  <2>6. CASE FwdHash(t)
    <3>1. AddedOK(t)'
      BY <2>6, FwdHashStep DEF AddedInv, AddedOK, Alone
    <3> QED BY <2>2, <2>6, <3>1, FwdHashStep
  <2>7. CASE FwdCount(t)
    <3>1. AddedOK(t)'
      BY <2>7, FwdCountStep DEF AddedOK, Idle
    <3> QED BY <2>2, <2>7, <3>1, FwdCountStep
  <2> QED BY <1>3, <2>1, <2>3, <2>4, <2>5, <2>6, <2>7 DEF Adding
<1>4. ASSUME kind \notin {"local", "son"}, th' = th PROVE AddedInv'
  BY <1>4, NotRoutes, NothingAdded DEF AddedInv
<1>5. ASSUME AgingAlloc \/ AgingLock \/ AgingVisit \/ AgingVisited \/ AgingDone PROVE AddedInv'
  BY <1>4, <1>5, PassStep DEF Locking
<1>6. ASSUME NEW e \in Entry, AgingDelete(e) PROVE AddedInv'
  BY <1>4, <1>6, AgingDeleteStep DEF Locking
<1>7. ASSUME NEW id \in Id, NEW e \in Entry, BspcAdd(id, e) PROVE AddedInv'
  BY <1>4, <1>7, BspcAddStep
<1>8. ASSUME BspcFail \/ Destroyed \/ Destroy PROVE AddedInv'
  BY <1>4, <1>8, EndStep, DestroyStep
<1>9. ASSUME UNCHANGED vars PROVE AddedInv'
  BY <1>9, StutterStep DEF AddedInv, AddedOK, Stays
<1> QED BY <1>1, <1>2, <1>3, <1>5, <1>6, <1>7, <1>8, <1>9 DEF Next
-----------------------------------------------------------------------------
(* Whatever is in the table can be found                                    *)

\* Loops over the list and over each chain see all that should be there.
LeadsInv ==
  /\ ListLeads(list, InUse \ Unlinked)
  /\ \A b \in Bucket : ChainLeads(byId, b, {e \in InUse \ Unhashed : HashId(key[e]) = b})
  /\ kind = "arp" =>
       \A b \in Bucket : ChainLeads(byAddr, b, {e \in InUse : HashAddr(key[e]) = b})

LEMMA LeadsPuts ==
  ASSUME Inv, LeadsInv, NEW e \in Entry, NEW id \in Id, NEW h, Puts(e, id, h)
  PROVE  LeadsInv'
<1> USE DEF Inv
<1>1. /\ list \in List /\ Linked(list, {Head} \cup InUse) /\ ListLeads(list, InUse)
      /\ byId \in Hash /\ Hashed(byId, InUse) /\ InUse \in SUBSET Entry
      /\ HashId(id) \in Bucket /\ HashAddr(id) \in Bucket
      /\ e \notin InUse /\ InUse' = InUse \cup {e} /\ Unlinked' = {} /\ Unhashed' = {}
      /\ key' = [key EXCEPT ![e] = id]
  BY TableAssumption DEF Puts, Alloc, Settled, TypeOK, PointersMatch, LeadsInv, InUse
<1>2. ListLeads(list', InUse \cup {e})
  BY <1>1, ListLeadsAdd DEF Puts
<1>3. key'[e] = id /\ \A x \in InUse : key'[x] = key[x]
  BY <1>1 DEF TypeOK
<1>4. ASSUME NEW b \in Bucket PROVE ChainLeads(byId', b, {x \in InUse' \ Unhashed' : HashId(key'[x]) = b})
  <2> DEFINE R == {x \in InUse : HashId(key[x]) = b}
  <2>1. ChainLeads(byId, b, R) /\ R \in SUBSET InUse
    BY DEF LeadsInv, Puts, Settled
  <2>2. /\ ChainLeads(byId', b, R)
        /\ b = HashId(id) => ChainLeads(byId', b, R \cup {e})
    BY <1>1, <2>1, ChainLeadsAdd DEF Puts
  <2>3. {x \in InUse' \ Unhashed' : HashId(key'[x]) = b} = IF b = HashId(id) THEN R \cup {e} ELSE R
    BY <1>1, <1>3
  <2> HIDE DEF R
  <2> QED BY <2>2, <2>3
<1>5. ASSUME kind = "arp", NEW b \in Bucket
      PROVE ChainLeads(byAddr', b, {x \in InUse' : HashAddr(key'[x]) = b})
  <2> DEFINE R == {x \in InUse : HashAddr(key[x]) = b}
  <2>1. ChainLeads(byAddr, b, R) /\ R \in SUBSET InUse /\ byAddr \in Hash /\ Hashed(byAddr, InUse)
    BY <1>5 DEF LeadsInv, TypeOK, PointersMatch
  <2>2. /\ ChainLeads(byAddr', b, R)
        /\ b = HashAddr(id) => ChainLeads(byAddr', b, R \cup {e})
    BY <1>1, <1>5, <2>1, ChainLeadsAdd, SMTT(30) DEF Puts
  <2>3. {x \in InUse' : HashAddr(key'[x]) = b} = IF b = HashAddr(id) THEN R \cup {e} ELSE R
    BY <1>1, <1>3
  <2> HIDE DEF R
  <2> QED BY <2>2, <2>3
<1>6. InUse' \ Unlinked' = InUse \cup {e} /\ kind' = kind
  BY <1>1 DEF Puts
<1> QED BY <1>2, <1>4, <1>5, <1>6 DEF LeadsInv

LEMMA LeadsCuts ==
  ASSUME Inv, LeadsInv, NEW e, Cuts(e)
  PROVE  LeadsInv'
<1> USE DEF Inv
<1>1. /\ list \in List /\ Linked(list, {Head} \cup InUse) /\ ListLeads(list, InUse)
      /\ byId \in Hash /\ Hashed(byId, InUse) /\ InUse \in SUBSET Entry
      /\ e \in InUse /\ InUse' = InUse \ {e} /\ Unlinked' = {} /\ Unhashed' = {}
      /\ key' = [key EXCEPT ![e] = None]
  BY DEF Cuts, Settled, TypeOK, PointersMatch, LeadsInv, InUse
<1>2. ListLeads(list', InUse \ {e})
  BY <1>1, ListLeadsDel DEF Cuts
<1>3. \A x \in InUse \ {e} : key'[x] = key[x]
  BY <1>1 DEF TypeOK
<1>4. ASSUME NEW b \in Bucket PROVE ChainLeads(byId', b, {x \in InUse' \ Unhashed' : HashId(key'[x]) = b})
  <2> DEFINE R == {x \in InUse : HashId(key[x]) = b}
  <2>1. ChainLeads(byId, b, R) /\ R \in SUBSET InUse
    BY DEF LeadsInv, Cuts, Settled
  <2>2. ChainLeads(byId', b, R \ {e})
    BY <1>1, <2>1, ChainLeadsDel DEF Cuts
  <2>3. {x \in InUse' \ Unhashed' : HashId(key'[x]) = b} = R \ {e}
    BY <1>1, <1>3
  <2> HIDE DEF R
  <2> QED BY <2>2, <2>3
<1>5. ASSUME kind = "arp", NEW b \in Bucket
      PROVE ChainLeads(byAddr', b, {x \in InUse' : HashAddr(key'[x]) = b})
  <2> DEFINE R == {x \in InUse : HashAddr(key[x]) = b}
  <2>1. ChainLeads(byAddr, b, R) /\ R \in SUBSET InUse /\ byAddr \in Hash /\ Hashed(byAddr, InUse)
    BY <1>5 DEF LeadsInv, TypeOK, PointersMatch
  <2>2. ChainLeads(byAddr', b, R \ {e})
    BY <1>1, <1>5, <2>1, ChainLeadsDel DEF Cuts
  <2>3. {x \in InUse' : HashAddr(key'[x]) = b} = R \ {e}
    BY <1>1, <1>3
  <2> HIDE DEF R
  <2> QED BY <2>2, <2>3
<1>6. InUse' \ Unlinked' = InUse \ {e} /\ kind' = kind
  BY <1>1 DEF Cuts
<1> QED BY <1>2, <1>4, <1>5, <1>6 DEF LeadsInv

\* Between allocating and linking, and linking and hashing, a route is not yet
\* looked for.
LEMMA LeadsFwd ==
  ASSUME Inv, OneWriter, AddedInv, LeadsInv, NEW t \in Rx,
         (\E e \in Entry : FwdAlloc(t, e)) \/ FwdLink(t) \/ FwdHash(t)
  PROVE  LeadsInv'
<1> USE DEF Inv
<1>1. InUse \in SUBSET Entry /\ list \in List /\ byId \in Hash
  BY DEF InUse, TypeOK
<1>2. ASSUME NEW e \in Entry, FwdAlloc(t, e) PROVE LeadsInv'
  <2>1. /\ e \notin InUse /\ InUse' = InUse \cup {e} /\ Unlinked' = {e} /\ Unhashed' = {e}
        /\ Unlinked = {} /\ Unhashed = {} /\ UNCHANGED <<kind, list, byId, byAddr>>
        /\ Alone(t, "alloc") /\ Alloc(e, th[t].id, th[t].hop)
    BY <1>2, FwdAllocStep DEF Settled
  <2>2. kind # "arp" /\ \A x \in InUse : key'[x] = key[x]
    BY <2>1 DEF Alloc, Alone, TypeOK
  <2>3. ASSUME NEW b \in Bucket
        PROVE {x \in InUse' \ Unhashed' : HashId(key'[x]) = b} = {x \in InUse \ Unhashed : HashId(key[x]) = b}
    BY <2>1, <2>2
  <2>4. InUse' \ Unlinked' = InUse \ Unlinked
    BY <2>1
  <2> QED BY <2>1, <2>2, <2>3, <2>4 DEF LeadsInv
<1>3. CASE FwdLink(t)
  <2> DEFINE e == th[t].e
             last == list.prev[Head]
             S == InUse \ {e}
  <2>1. /\ e \in InUse /\ Unlinked = {e} /\ Unlinked' = {} /\ Unhashed' = Unhashed /\ Alone(t, "link")
        /\ InUse' = InUse /\ UNCHANGED <<kind, byId, byAddr, key>> /\ list' = __list_add(list, e, last, Head)
    BY <1>3, FwdLinkStep
  <2>2. Linked(list, {Head} \cup S) /\ ListLeads(list, S) /\ S \in SUBSET Entry /\ e \notin S /\ e \in Entry
    BY <1>1, <2>1 DEF PointersMatch, LeadsInv
  <2>3. last \in {Head} \cup S /\ list.next[last] = Head
    BY <2>2 DEF Linked
  <2>4. ListLeads(list', S \cup {e})
    BY <1>1, <2>1, <2>2, <2>3, ListLeadsAdd
  <2>5. S \cup {e} = InUse' \ Unlinked'
    BY <2>1
  <2> HIDE DEF S, e
  <2>6. ListLeads(list', InUse' \ Unlinked')
    BY <2>4, <2>5
  <2> QED BY <2>1, <2>6 DEF LeadsInv
<1>4. CASE FwdHash(t)
  <2> DEFINE e == th[t].e
             S == InUse \ {e}
             id == th[t].id
  <2>1. /\ e \in InUse /\ Unhashed = {e} /\ Unlinked' = Unlinked /\ Unhashed' = {} /\ Alone(t, "hash")
        /\ InUse' = InUse /\ UNCHANGED <<kind, list, byAddr, key>>
        /\ byId' = PutFirst(byId, e, HashId(id), byId.first[HashId(id)])
    BY <1>4, FwdHashStep DEF Settled
  <2>2. Hashed(byId, S) /\ S \in SUBSET Entry /\ e \notin S /\ e \in Entry /\ HashId(id) \in Bucket
        /\ kind # "arp"
    BY <1>1, <2>1, TableAssumption DEF PointersMatch, Alone
  <2>3. key[e] = id
    BY <2>1 DEF AddedInv, AddedOK, Alone
  <2>4. ASSUME NEW b \in Bucket PROVE ChainLeads(byId', b, {x \in InUse' \ Unhashed' : HashId(key'[x]) = b})
    <3> DEFINE R == {x \in S : HashId(key[x]) = b}
    <3>1. ChainLeads(byId, b, R) /\ R \in SUBSET S
      BY <2>1 DEF LeadsInv
    <3>2. /\ ChainLeads(byId', b, R)
          /\ b = HashId(id) => ChainLeads(byId', b, R \cup {e})
      BY <1>1, <2>1, <2>2, <3>1, ChainLeadsAdd
    <3>3. {x \in InUse' \ Unhashed' : HashId(key'[x]) = b} = IF b = HashId(id) THEN R \cup {e} ELSE R
      BY <2>1, <2>3
    <3> HIDE DEF R
    <3> QED BY <3>2, <3>3
  <2> QED BY <2>1, <2>2, <2>4 DEF LeadsInv
<1> QED BY <1>2, <1>3, <1>4

LEMMA LeadsStays == ASSUME LeadsInv, Stays PROVE LeadsInv'
BY DEF LeadsInv, Stays

LEMMA LeadsStep ==
  ASSUME Inv, OneWriter, AddedInv, LeadsInv, [Next]_vars
  PROVE  LeadsInv'
<1>1. ASSUME NEW t \in Rx, NEW id \in Id, Lookup(t, id) PROVE LeadsInv'
  BY <1>1, LookupStep, LeadsStays
<1>2. ASSUME NEW t \in Rx, NEW id \in Id, NEW h \in Hop \cup {None}, RouteRule(t, id, h) PROVE LeadsInv'
  BY <1>2, RouteRuleStep, LeadsStays, LeadsCuts
<1>3. ASSUME NEW t \in Rx, Adding(t) PROVE LeadsInv'
  <2>1. CASE \E e \in Entry : ArpAdd(t, e) \/ NbrAdd(t, e)
    BY <2>1, AddStep, LeadsPuts
  <2>2. CASE (\E e \in Entry : FwdAlloc(t, e)) \/ FwdLink(t) \/ FwdHash(t)
    BY <2>2, LeadsFwd
  <2>3. CASE FwdFirst(t) \/ FwdSize(t)
    BY <2>3, FwdReadStep, LeadsStays
  <2>4. CASE FwdCount(t)
    BY <2>4, FwdCountStep, LeadsStays
  <2> QED BY <1>3, <2>1, <2>2, <2>3, <2>4 DEF Adding
<1>4. ASSUME AgingAlloc \/ AgingLock \/ AgingVisit \/ AgingVisited \/ AgingDone PROVE LeadsInv'
  BY <1>4, PassStep, LeadsStays
<1>5. ASSUME NEW e \in Entry, AgingDelete(e) PROVE LeadsInv'
  BY <1>5, AgingDeleteStep, LeadsCuts
<1>6. ASSUME NEW id \in Id, NEW e \in Entry, BspcAdd(id, e) PROVE LeadsInv'
  BY <1>6, BspcAddStep, LeadsPuts
<1>7. ASSUME BspcFail \/ Destroyed PROVE LeadsInv'
  BY <1>7, EndStep, LeadsStays
<1>8. ASSUME Destroy PROVE LeadsInv'
  BY <1>8, DestroyStep, LeadsCuts
<1>9. ASSUME UNCHANGED vars PROVE LeadsInv'
  BY <1>9, StutterStep, LeadsStays
<1> QED BY <1>1, <1>2, <1>3, <1>4, <1>5, <1>6, <1>7, <1>8, <1>9 DEF Next

LEMMA InitLeads == Init => AddedInv /\ LeadsInv
<1> SUFFICES ASSUME Init PROVE AddedInv /\ LeadsInv
  OBVIOUS
<1>1. InUse = {}
  BY DEF Init, InUse, Free
<1>2. AddedInv
  BY DEF Init, AddedInv, AddedOK, Idle
<1>3. LeadsInv
  BY <1>1 DEF LeadsInv, ListLeads, ChainLeads
<1> QED BY <1>2, <1>3
-----------------------------------------------------------------------------
(* The table is coherent                                                    *)

\* A loop that must see R, and stops at an entry of R at the latest, stops at one.
LEMMA LoopFinds ==
  ASSUME NEW first, NEW next, NEW Stop, NEW e \in Stop,
         \A T \in SUBSET Entry : CannotLeave(first, next, {}, T) => e \in T
  PROVE  \E f \in Entry : f \in Stop \cap Loop(first, next, Stop)
<1> DEFINE L == Loop(first, next, Stop)
<1>1. CannotLeave(first, next, Stop, L) /\ L \in SUBSET Entry
  BY LoopStays DEF Loop
<1> HIDE DEF L
<1> SUFFICES ASSUME L \cap Stop = {} PROVE FALSE
  BY <1>1 DEF L
<1>2. CannotLeave(first, next, {}, L)
  BY <1>1 DEF CannotLeave
<1> QED BY <1>1, <1>2

\* What a lookup returns has the id looked for; and it returns an entry if there
\* is one in the table.
LEMMA FoundIs == \A e, id : Found(e, id) => e \in Entry /\ key[e] = id
BY DEF Found, Match

LEMMA LookupFinds ==
  ASSUME Inv, LeadsInv, NEW e \in InUse \ Unhashed
  PROVE  \E f \in Entry : Found(f, key[e])
<1> DEFINE id == key[e]
           b == HashId(id)
<1>1. id \in Id /\ e \in Entry /\ b \in Bucket
  BY TableAssumption DEF Inv, TypeOK, InUse, Free
<1>2. ChainLeads(byId, b, {x \in InUse \ Unhashed : HashId(key[x]) = b})
  BY <1>1 DEF LeadsInv
<1>3. \A T \in SUBSET Entry : CannotLeave(byId.first[b], byId.next, {}, T) => e \in T
  BY <1>2 DEF ChainLeads
<1>4. \E f \in Entry : f \in Match(id) \cap Loop(byId.first[b], byId.next, Match(id))
  <2>1. e \in Match(id)
    BY <1>1 DEF Match
  <2> HIDE DEF id, b
  <2> QED BY <1>3, <2>1, LoopFinds
<1> QED BY <1>4 DEF Found, hash_for_each_possible

LEMMA AddrLookupFinds ==
  ASSUME Inv, LeadsInv, kind = "arp", NEW e \in InUse
  PROVE  \E f \in Entry : FoundAddr(f, key[e])
<1> DEFINE id == key[e]
           b == HashAddr(id)
<1>1. id \in Id /\ e \in Entry /\ b \in Bucket
  BY TableAssumption DEF Inv, TypeOK, InUse, Free
<1>2. ChainLeads(byAddr, b, {x \in InUse : HashAddr(key[x]) = b})
  BY <1>1 DEF LeadsInv
<1>3. \A T \in SUBSET Entry : CannotLeave(byAddr.first[b], byAddr.next, {}, T) => e \in T
  BY <1>2 DEF ChainLeads
<1>4. \E f \in Entry : f \in Match(id) \cap Loop(byAddr.first[b], byAddr.next, Match(id))
  <2>1. e \in Match(id)
    BY <1>1 DEF Match
  <2> HIDE DEF id, b
  <2> QED BY <1>3, <2>1, LoopFinds
<1> QED BY <1>4 DEF FoundAddr, hash_for_each_possible

\* A loop over the list sees the entries linked, and no others.
LEMMA LoopSeesList ==
  ASSUME NEW l, NEW S \in SUBSET Entry, Linked(l, {Head} \cup S), ListLeads(l, S)
  PROVE  list_for_each_entry(l) = S
<1>1. CannotLeave(l.next[Head], l.next, {}, S)
  BY PointerAssumption DEF CannotLeave, Linked
<1> QED BY <1>1 DEF list_for_each_entry, Loop, ListLeads

\* The size counts the entries, but for one that is being added; a table that
\* was freed has none.
SizeInv ==
  /\ main # "freed" => size = Cardinality(InUse) - Cardinality(Uncounted)
  /\ main = "freed" => InUse = {}

LEMMA InUseFinite ==
  ASSUME Inv
  PROVE  /\ IsFiniteSet(InUse) /\ Cardinality(InUse) \in Nat
         /\ Uncounted \subseteq Rx /\ IsFiniteSet(Uncounted) /\ Cardinality(Uncounted) \in Nat
BY FS_Subset, FS_CardinalityType, TableAssumption DEF InUse, Uncounted

\* Without routes all is counted.
LEMMA AllCounted ==
  ASSUME ThreadsInv, TypeOK, kind \notin {"local", "son"}
  PROVE  Uncounted = {} /\ Cardinality(Uncounted) = 0
<1>1. Uncounted = {}
  BY NotRoutes DEF Uncounted
<1> QED BY <1>1, FS_EmptySet

LEMMA AllCountedNext ==
  ASSUME Inv', kind' \notin {"local", "son"}
  PROVE  Uncounted' = {} /\ Cardinality(Uncounted)' = 0
<1>1. \A u \in Rx : th'[u].at \in {"idle", "add"}
  BY DEF Inv, ThreadsInv, ThreadOK, TypeOK
<1>2. Uncounted' = {}
  BY <1>1 DEF Uncounted
<1> QED BY <1>2, FS_EmptySet

\* With them, all but what the thread alone is adding.
LEMMA OneCounted ==
  ASSUME NEW f, NEW t \in Rx, \A u \in Rx \ {t} : f[u].at = "idle"
  PROVE  LET S == {u \in Rx : f[u].at \in {"link", "first", "hash", "size", "count"}}
             adds == f[t].at \in {"link", "first", "hash", "size", "count"}
         IN S = (IF adds THEN {t} ELSE {}) /\ Cardinality(S) = (IF adds THEN 1 ELSE 0)
<1> DEFINE S == {u \in Rx : f[u].at \in {"link", "first", "hash", "size", "count"}}
<1>1. S = IF f[t].at \in {"link", "first", "hash", "size", "count"} THEN {t} ELSE {}
  OBVIOUS
<1> HIDE DEF S
<1>2. Cardinality(S) = IF f[t].at \in {"link", "first", "hash", "size", "count"} THEN 1 ELSE 0
  BY <1>1, FS_EmptySet, FS_Singleton
<1> QED BY <1>1, <1>2 DEF S

\* The thread that adds goes on.
LEMMA FwdCounts ==
  ASSUME NEW t \in Rx, NEW place, Alone(t, place), \A u \in Rx \ {t} : th'[u] = th[u]
  PROVE  /\ Cardinality(Uncounted)
              = IF place \in {"link", "first", "hash", "size", "count"} THEN 1 ELSE 0
         /\ Cardinality(Uncounted')
              = IF th'[t].at \in {"link", "first", "hash", "size", "count"} THEN 1 ELSE 0
<1>1. \A u \in Rx \ {t} : th[u].at = "idle" /\ th'[u].at = "idle"
  BY DEF Alone
<1>2. Cardinality(Uncounted) = IF th[t].at \in {"link", "first", "hash", "size", "count"} THEN 1 ELSE 0
  BY <1>1, OneCounted DEF Uncounted
<1>3. Cardinality(Uncounted') = IF th'[t].at \in {"link", "first", "hash", "size", "count"} THEN 1 ELSE 0
  BY <1>1, OneCounted DEF Uncounted
<1> QED BY <1>2, <1>3 DEF Alone

LEMMA SizePuts ==
  ASSUME Inv, Inv', SizeInv, NEW e \in Entry, NEW id \in Id, NEW h, Puts(e, id, h), main' = main,
         kind \notin {"local", "son"}, main # "freed"
  PROVE  SizeInv'
<1>1. Cardinality(Uncounted) = 0 /\ Cardinality(Uncounted)' = 0
  BY AllCounted, AllCountedNext DEF Inv, Puts
<1>2. Cardinality(InUse') = Cardinality(InUse) + 1
  BY InUseFinite, FS_AddElement DEF Puts
<1> QED BY <1>1, <1>2, InUseFinite DEF SizeInv, Puts

LEMMA SizeCuts ==
  ASSUME Inv, SizeInv, NEW e, Cuts(e), main' = main, main # "freed",
         Cardinality(Uncounted) = 0, Cardinality(Uncounted)' = 0
  PROVE  SizeInv'
<1>1. Cardinality(InUse') = Cardinality(InUse) - 1
  BY InUseFinite, FS_RemoveElement DEF Cuts
<1> QED BY <1>1, InUseFinite DEF SizeInv, Cuts

LEMMA SizeStays ==
  ASSUME Inv, SizeInv, InUse' = InUse, size' = size, main' = main,
         Cardinality(Uncounted)' = Cardinality(Uncounted)
  PROVE  SizeInv'
BY DEF SizeInv

LEMMA SizeStep ==
  ASSUME Inv, Inv', OneWriter, AddedInv, SizeInv, [Next]_vars
  PROVE  SizeInv'
<1>1. ASSUME kind \notin {"local", "son"}, kind' = kind
      PROVE  Cardinality(Uncounted) = 0 /\ Cardinality(Uncounted)' = 0
  BY <1>1, AllCounted, AllCountedNext DEF Inv
<1>2. ASSUME \A u \in Rx : th[u].at = "idle",
             \A u \in Rx : th'[u].at \in {"idle", "alloc"}
      PROVE  Cardinality(Uncounted) = 0 /\ Cardinality(Uncounted)' = 0
  <2>1. Uncounted = {} /\ Uncounted' = {}
    BY <1>2 DEF Uncounted
  <2> QED BY <2>1, FS_EmptySet
<1>3. kind \in {"arp", "nbr", "local", "son"} => main = "ready" /\ main # "freed"
  BY DEF Inv, KindInv
<1>4. ASSUME NEW t \in Rx, NEW id \in Id, Lookup(t, id) PROVE SizeInv'
  <2>1. Stays /\ size' = size /\ main' = main /\ kind \in {"arp", "nbr", "local"}
        /\ (kind = "local" => \A u \in Rx : th[u].at = "idle")
    BY <1>4, LookupStep
  <2>2. kind = "local" => \A u \in Rx : th'[u].at \in {"idle", "alloc"}
    <3> DEFINE r == [Idle EXCEPT !.at = IF Locking THEN "add" ELSE "alloc", !.id = id, !.hop = Direct]
    <3>1. th' = th \/ th' = [th EXCEPT ![t] = r]
      BY <1>4, LookupStep
    <3>2. kind = "local" => r.at = "alloc"
      BY DEF Idle, Locking
    <3> HIDE DEF r
    <3> QED BY <2>1, <3>1, <3>2 DEF Inv, TypeOK
  <2>3. Cardinality(Uncounted) = 0 /\ Cardinality(Uncounted)' = 0
    BY <1>1, <1>2, <2>1, <2>2 DEF Stays
  <2> QED BY <2>1, <2>3, SizeStays DEF Stays
<1>5. ASSUME NEW t \in Rx, NEW id \in Id, NEW h \in Hop \cup {None}, RouteRule(t, id, h) PROVE SizeInv'
  <2>1. /\ kind = "son" /\ \A u \in Rx : th[u].at = "idle"
        /\ (\E e \in InUse : Cuts(e)) \/ (Stays /\ size' = size)
        /\ main' = main
    BY <1>5, RouteRuleStep
  <2>2. \A u \in Rx : th'[u].at \in {"idle", "alloc"}
    <3> DEFINE r == [Idle EXCEPT !.at = "alloc", !.id = id, !.hop = h]
    <3>1. th' = th \/ th' = [th EXCEPT ![t] = r]
      BY <1>5, RouteRuleStep, ZenonT(60)
    <3>2. r.at = "alloc"
      BY DEF Idle
    <3> HIDE DEF r
    <3> QED BY <2>1, <3>1, <3>2 DEF Inv, TypeOK
  <2>3. Cardinality(Uncounted) = 0 /\ Cardinality(Uncounted)' = 0
    BY <1>2, <2>1, <2>2
  <2> QED BY <1>3, <2>1, <2>3, SizeStays, SizeCuts DEF Stays
<1>6. ASSUME NEW t \in Rx, Adding(t) PROVE SizeInv'
  <2>1. ASSUME NEW e \in Entry, ArpAdd(t, e) \/ NbrAdd(t, e) PROVE SizeInv'
    BY <1>3, <2>1, AddStep, SizePuts DEF Locking
  <2>2. ASSUME NEW e \in Entry, FwdAlloc(t, e) PROVE SizeInv'
    <3>1. /\ Alone(t, "alloc") /\ e \notin InUse /\ InUse' = InUse \cup {e}
          /\ th'[t].at = "link" /\ size' = size /\ main' = main
          /\ \A u \in Rx \ {t} : th'[u] = th[u]
      BY <2>2, FwdAllocStep
    <3>2. Cardinality(Uncounted) = 0 /\ Cardinality(Uncounted') = 1
      BY <3>1, FwdCounts
    <3>3. Cardinality(InUse') = Cardinality(InUse) + 1
      BY <3>1, InUseFinite, FS_AddElement
    <3> QED BY <1>3, <3>1, <3>2, <3>3, InUseFinite DEF SizeInv, Alone
  <2>3. CASE FwdLink(t)
    <3>1. Alone(t, "link") /\ th'[t].at = "first" /\ \A u \in Rx \ {t} : th'[u] = th[u]
      BY <2>3, FwdLinkStep
    <3>2. Cardinality(Uncounted)' = Cardinality(Uncounted)
      BY <3>1, FwdCounts
    <3> QED BY <2>3, <3>2, FwdLinkStep, SizeStays
  <2>4. CASE FwdFirst(t) \/ FwdSize(t)
    <3>1. Alone(t, th[t].at) /\ th[t].at \in {"first", "size"} /\ th'[t].at \in {"hash", "count"}
          /\ \A u \in Rx \ {t} : th'[u] = th[u]
      BY <2>4, FwdReadStep DEF Alone
    <3>2. Cardinality(Uncounted)' = Cardinality(Uncounted)
      BY <3>1, FwdCounts
    <3> QED BY <2>4, <3>2, FwdReadStep, SizeStays DEF Stays
  <2>5. CASE FwdHash(t)
    <3>1. Alone(t, "hash") /\ th'[t].at = "size" /\ \A u \in Rx \ {t} : th'[u] = th[u]
      BY <2>5, FwdHashStep
    <3>2. Cardinality(Uncounted)' = Cardinality(Uncounted)
      BY <3>1, FwdCounts
    <3> QED BY <2>5, <3>2, FwdHashStep, SizeStays
  <2>6. CASE FwdCount(t)
    <3>1. /\ Alone(t, "count") /\ th'[t].at = "idle" /\ InUse' = InUse /\ main' = main
          /\ \A u \in Rx \ {t} : th'[u] = th[u]
          /\ size' = th[t].read + 1 /\ th[t].read = size
      BY <2>6, FwdCountStep DEF Idle, Stays, AddedInv, AddedOK, Alone
    <3>2. Cardinality(Uncounted) = 1 /\ Cardinality(Uncounted') = 0
      BY <3>1, FwdCounts
    <3> QED BY <1>3, <3>1, <3>2, InUseFinite DEF SizeInv, Alone
  <2> QED BY <1>6, <2>1, <2>2, <2>3, <2>4, <2>5, <2>6 DEF Adding
<1>7. ASSUME AgingAlloc \/ AgingLock \/ AgingVisit \/ AgingVisited \/ AgingDone PROVE SizeInv'
  BY <1>1, <1>7, PassStep, SizeStays DEF Locking, Stays
<1>8. ASSUME NEW e \in Entry, AgingDelete(e) PROVE SizeInv'
  <2>1. Cuts(e) /\ kind \in {"arp", "nbr"} /\ kind' = kind /\ main' = main
    BY <1>8, AgingDeleteStep DEF Locking, Cuts
  <2> QED BY <1>1, <1>3, <2>1, SizeCuts
<1>9. ASSUME NEW id \in Id, NEW e \in Entry, BspcAdd(id, e) PROVE SizeInv'
  BY <1>9, BspcAddStep, SizePuts, TableAssumption
<1>10. ASSUME BspcFail PROVE SizeInv'
  <2>1. /\ Stays /\ kind = "bspc" /\ size' = size /\ main = "filling" /\ main' = "destroying"
    BY <1>10, EndStep DEF BspcFail, memory
  <2> QED BY <1>1, <2>1 DEF SizeInv, Stays
<1>11. ASSUME Destroyed PROVE SizeInv'
  <2>1. /\ Stays /\ kind = "bspc" /\ size = 0 /\ main = "destroying" /\ main' = "freed"
    BY <1>11, EndStep DEF Destroyed
  <2>2. Cardinality(InUse) = 0
    BY <1>1, <2>1, InUseFinite DEF SizeInv, Stays
  <2> QED BY <2>1, <2>2, InUseFinite, FS_EmptySet DEF SizeInv, Stays
<1>12. ASSUME Destroy PROVE SizeInv'
  <2>1. Cuts(list.next[Head]) /\ kind = "bspc" /\ kind' = kind /\ main' = main /\ main = "destroying"
    BY <1>12, DestroyStep DEF Cuts
  <2> QED BY <1>1, <2>1, SizeCuts
<1>13. ASSUME UNCHANGED vars PROVE SizeInv'
  <2>1. Uncounted' = Uncounted
    BY <1>13, StutterStep DEF Uncounted
  <2> QED BY <1>13, <2>1, StutterStep, SizeStays DEF Stays
<1> QED BY <1>4, <1>5, <1>6, <1>7, <1>8, <1>9, <1>10, <1>11, <1>12, <1>13 DEF Next

LEMMA InitSize == Init => SizeInv
<1> SUFFICES ASSUME Init PROVE SizeInv
  OBVIOUS
<1>1. InUse = {} /\ Uncounted = {}
  BY DEF Init, InUse, Free, Uncounted, Idle
<1> QED BY <1>1, FS_EmptySet DEF SizeInv, Init

LEMMA Coherent ==
  ASSUME Inv, LeadsInv, SizeInv
  PROVE  TableCoherent
<1>1. Unlinked \cup InUse \subseteq Entry \cup Unlinked /\ InUse \ Unlinked \in SUBSET Entry
  BY DEF InUse
<1>2. list_for_each_entry(list) = InUse \ Unlinked
  BY <1>1, LoopSeesList DEF Inv, PointersMatch, LeadsInv
<1>3. \A e \in InUse \ Unhashed : \E f \in Entry : Found(f, key[e])
  BY LookupFinds
<1>4. kind = "arp" => \A e \in InUse : \E f \in Entry : FoundAddr(f, key[e])
  BY AddrLookupFinds
<1> QED BY <1>2, <1>3, <1>4 DEF TableCoherent, SizeInv
-----------------------------------------------------------------------------
(* A lookup finds what was noted last: routes and connections               *)

Has(id) == \E e \in InUse : key[e] = id

Unique == \A e, f \in InUse : key[e] = key[f] => e = f

\* The table says of id what it should.
Latest(id) ==
  \/ wanted[id] = None /\ ~Has(id)
  \/ \E e \in InUse : key[e] = id /\ hop[e] = wanted[id]

\* Routes that beacons leave all lead to who sent them.
LocalInv ==
  /\ \A e \in InUse : hop[e] = Direct
  /\ \A id \in Id : wanted[id] \in {None, Direct}
  /\ \A t \in Rx : th[t].at # "idle" => th[t].hop = Direct /\ wanted[th[t].id] = None

\* A destination has one route, and who is to add one knows of none; the routes
\* are the latest, except of the destination a thread is busy with.
RoutesInv ==
  kind \in {"local", "son"} =>
    /\ Unique
    /\ \A t \in Rx : th[t].at = "alloc" => ~Has(th[t].id)
    /\ kind = "local" => LocalInv
    /\ \A id \in Id : Latest(id) \/ \E t \in Rx : th[t].id = id /\ (kind = "son" \/ t \in Uncounted)

\* A VNF has one connection, while the configuration's are made.
BspcInv ==
  kind = "bspc" =>
    /\ Unique /\ main # "ready"
    /\ \A e \in InUse : hop[e] = Direct
    /\ main = "filling" => \A id \in Id : Latest(id)

LEMMA CutsKeys ==
  ASSUME Inv, NEW e, Cuts(e)
  PROVE  \A x \in InUse' : x \in InUse /\ x # e /\ key'[x] = key[x] /\ hop'[x] = hop[x]
BY DEF Inv, TypeOK, Cuts, InUse

LEMMA AllocKeys ==
  ASSUME Inv, NEW e \in Entry, NEW id, NEW h, Alloc(e, id, h), e \notin InUse
  PROVE  /\ key'[e] = id /\ hop'[e] = h
         /\ \A x \in InUse : x # e /\ key'[x] = key[x] /\ hop'[x] = hop[x]
BY DEF Inv, TypeOK, Alloc, InUse

\* An entry in use has an id and a next hop.
LEMMA InUseHas ==
  ASSUME Inv
  PROVE  None \notin Id /\ None \notin Hop /\ \A e \in InUse : e \in Entry /\ key[e] \in Id
BY TableAssumption DEF Inv, TypeOK, InUse, Free

LEMMA AbsentHasNot ==
  ASSUME Inv, LeadsInv, Unhashed = {}, NEW id, Absent(id)
  PROVE  ~Has(id)
BY LookupFinds DEF Absent, Has

LEMMA NotedWants ==
  ASSUME Inv, NEW id \in Id, NEW h, Noted(id, h)
  PROVE  /\ wanted'[id] = IF wanted[id] = None \/ kind = "son" THEN h ELSE wanted[id]
         /\ \A i \in Id \ {id} : wanted'[i] = wanted[i]
BY DEF Inv, TypeOK, Noted

LEMMA LookupRoutes ==
  ASSUME Inv, OneWriter, AddedInv, LeadsInv, RoutesInv, NEW t \in Rx, NEW id \in Id, Lookup(t, id)
  PROVE  RoutesInv'
<1> SUFFICES ASSUME kind = "local" PROVE RoutesInv'
  BY LookupStep DEF RoutesInv, Stays
<1>1. /\ Stays /\ Settled /\ \A u \in Rx : th[u].at = "idle" /\ th[u].id = None
      /\ kind' = "local" /\ InUse' = InUse /\ key' = key /\ hop' = hop
  BY LookupStep DEF AddedInv, AddedOK, Stays
<1>2. Unique' /\ (\A i : Has(i)' <=> Has(i))
  BY <1>1 DEF RoutesInv, Unique, Has
<1>3. \A i \in Id : Latest(i)
  <2>1. \A u \in Rx : u \notin Uncounted
    BY <1>1 DEF Uncounted
  <2> QED BY <2>1 DEF RoutesInv
<1>4. LocalInv
  BY DEF RoutesInv
<1>5. CASE \E e \in InUse : key[e] = id /\ Noted(id, Direct) /\ th' = th
  <2>1. Has(id) /\ wanted[id] = Direct
    <3>1. Has(id)
      BY <1>5 DEF Has
    <3> QED BY <1>3, <1>4, <3>1 DEF Latest, LocalInv
  <2>2. \A i \in Id : wanted'[i] = wanted[i]
    BY <1>5, <2>1, NotedWants
  <2>3. \A i \in Id : Latest(i)'
    BY <1>1, <1>2, <1>3, <2>2 DEF Latest
  <2>4. th' = th /\ \A u \in Rx : th'[u].at = "idle"
    BY <1>1, <1>5
  <2>5. LocalInv'
    BY <1>1, <1>4, <2>2, <2>4 DEF LocalInv
  <2> QED BY <1>1, <1>2, <2>3, <2>4, <2>5 DEF RoutesInv
<1>6. CASE Absent(id) /\ UNCHANGED wanted
           /\ th' = [th EXCEPT ![t] = [Idle EXCEPT !.at = IF Locking THEN "add" ELSE "alloc",
                                                   !.id = id, !.hop = Direct]]
  <2>1. ~Has(id) /\ wanted[id] = None
    <3>1. ~Has(id)
      BY <1>1, <1>6, AbsentHasNot DEF Settled
    <3> QED BY <1>3, <3>1 DEF Latest, Has
  <2>2. \A i \in Id : Latest(i)'
    BY <1>1, <1>2, <1>3, <1>6 DEF Latest
  <2>3. /\ th'[t].id = id /\ th'[t].hop = Direct
        /\ \A u \in Rx \ {t} : th'[u].at = "idle"
    BY <1>1, <1>6 DEF Inv, TypeOK, Idle
  <2>4. LocalInv'
    BY <1>1, <1>4, <1>6, <2>1, <2>3 DEF LocalInv
  <2>5. \A u \in Rx : th'[u].at = "alloc" => ~Has(th'[u].id)
    BY <2>1, <2>3
  <2>6. \A u \in Rx : th'[u].at = "alloc" => ~(Has(th[u].id)')
    BY <1>2, <2>5 DEF Has
  <2> QED BY <1>1, <1>2, <2>2, <2>4, <2>6 DEF RoutesInv
<1> QED BY <1>5, <1>6, LookupStep

LEMMA RuleRoutes ==
  ASSUME Inv, OneWriter, AddedInv, LeadsInv, RoutesInv,
         NEW t \in Rx, NEW id \in Id, NEW h \in Hop \cup {None}, RouteRule(t, id, h)
  PROVE  RoutesInv'
<1>1. /\ kind = "son" /\ kind' = "son" /\ t \in FwdWriter
      /\ \A u \in Rx : th[u].at = "idle" /\ th[u].id = None
  BY RouteRuleStep DEF AddedInv, AddedOK
<1>2. Unique /\ \A i \in Id : Latest(i)
  BY <1>1, InUseHas DEF RoutesInv
<1>3. /\ \A x \in InUse' : x \in InUse /\ key[x] # id /\ key'[x] = key[x] /\ hop'[x] = hop[x]
      /\ \A x \in InUse : key[x] # id => x \in InUse'
  <2>1. ASSUME NEW e \in InUse, key[e] = id, Cuts(e)
        PROVE  /\ \A x \in InUse' : x \in InUse /\ key[x] # id /\ key'[x] = key[x] /\ hop'[x] = hop[x]
               /\ \A x \in InUse : key[x] # id => x \in InUse'
    <3>1. \A x \in InUse : x # e => x \in InUse'
      BY <2>1 DEF Cuts
    <3> QED BY <1>2, <2>1, <3>1, CutsKeys DEF Unique
  <2>2. ASSUME Absent(id), Stays, Settled
        PROVE  /\ \A x \in InUse' : x \in InUse /\ key[x] # id /\ key'[x] = key[x] /\ hop'[x] = hop[x]
               /\ \A x \in InUse : key[x] # id => x \in InUse'
    BY <2>2, AbsentHasNot DEF Stays, Settled, Has
  <2> QED BY <2>1, <2>2, RouteRuleStep
<1>4. Unique' /\ ~(Has(id)')
  BY <1>2, <1>3 DEF Unique, Has
<1>5. ASSUME NEW i \in Id, i # id, wanted'[i] = wanted[i] PROVE Latest(i)'
  BY <1>2, <1>3, <1>5 DEF Latest, Has
<1>6. CASE /\ h \in Hop /\ wanted' = wanted
           /\ th' = [th EXCEPT ![t] = [Idle EXCEPT !.at = "alloc", !.id = id, !.hop = h]]
  <2>1. th'[t].id = id /\ \A u \in Rx \ {t} : th'[u].at = "idle"
    BY <1>1, <1>6 DEF Inv, TypeOK, Idle
  <2>2. ASSUME NEW u \in Rx, th'[u].at = "alloc" PROVE (~Has(th[u].id))'
    <3>1. th'[u].id = id
      BY <2>1, <2>2
    <3> QED BY <1>4, <3>1 DEF Has
  <2> QED BY <1>1, <1>4, <1>5, <1>6, <2>1, <2>2 DEF RoutesInv
<1>7. CASE wanted' = [wanted EXCEPT ![id] = None] /\ th' = th
  <2>1. wanted'[id] = None /\ \A i \in Id \ {id} : wanted'[i] = wanted[i]
    BY <1>7 DEF Inv, TypeOK
  <2>2. \A i \in Id : Latest(i)'
    BY <1>4, <1>5, <2>1 DEF Latest
  <2> QED BY <1>1, <1>4, <1>7, <2>2 DEF RoutesInv
<1> QED BY <1>6, <1>7, RouteRuleStep, ZenonT(60)

\* A step of the thread that adds, after which it is not at "alloc".
LEMMA FwdRoutes ==
  ASSUME Inv, OneWriter, AddedInv, RoutesInv, NEW t \in Rx,
         FwdLink(t) \/ FwdFirst(t) \/ FwdHash(t) \/ FwdSize(t)
  PROVE  RoutesInv'
<1> DEFINE at == th[t].at
<1>1. /\ Alone(t, at) /\ at \in {"link", "first", "hash", "size"}
      /\ th'[t].at \in {"first", "hash", "size", "count"}
      /\ th'[t].id = th[t].id /\ th'[t].hop = th[t].hop
      /\ \A u \in Rx \ {t} : th'[u] = th[u]
      /\ UNCHANGED <<kind, key, hop, wanted>> /\ InUse' = InUse
  <2>1. CASE FwdLink(t)
    BY <2>1, FwdLinkStep DEF Alone
  <2>2. CASE FwdFirst(t) \/ FwdSize(t)
    BY <2>2, FwdReadStep DEF Alone, Stays
  <2>3. CASE FwdHash(t)
    BY <2>3, FwdHashStep DEF Alone
  <2> QED BY <2>1, <2>2, <2>3
<1>2. kind \in {"local", "son"} /\ \A u \in Rx \ {t} : th[u].at = "idle"
  BY <1>1 DEF Alone
<1>3. \A u \in Rx : th'[u].at # "alloc"
  BY <1>1, <1>2
<1>4. Unique'
  BY <1>1, <1>2 DEF RoutesInv, Unique
<1>5. kind = "local" => LocalInv'
  BY <1>1, <1>2 DEF RoutesInv, LocalInv
<1>6. \A i \in Id : Latest(i) => Latest(i)'
  BY <1>1 DEF Latest, Has
<1>7. t \in Uncounted /\ t \in Uncounted'
  BY <1>1 DEF Uncounted
<1>8. \A i \in Id : Latest(i)' \/ \E u \in Rx : th'[u].id = i /\ (kind' = "son" \/ u \in Uncounted')
  <2> TAKE i \in Id
  <2>1. CASE \E u \in Rx : th[u].id = i /\ (kind = "son" \/ u \in Uncounted)
    BY <1>1, <1>7, <2>1 DEF Uncounted
  <2> QED BY <1>2, <1>6, <2>1 DEF RoutesInv
<1> QED BY <1>1, <1>3, <1>4, <1>5, <1>8 DEF RoutesInv

LEMMA FwdAllocRoutes ==
  ASSUME Inv, OneWriter, AddedInv, RoutesInv, NEW t \in Rx, NEW e \in Entry, FwdAlloc(t, e)
  PROVE  RoutesInv'
<1> DEFINE id == th[t].id
<1>1. /\ Alone(t, "alloc") /\ Alloc(e, id, th[t].hop)
      /\ e \notin InUse /\ InUse' = InUse \cup {e} /\ th'[t].at = "link" /\ th'[t].e = e
      /\ th'[t].id = id /\ th'[t].hop = th[t].hop
      /\ \A u \in Rx \ {t} : th'[u] = th[u]
      /\ UNCHANGED <<kind, wanted>>
  BY FwdAllocStep
<1>2. /\ kind \in {"local", "son"} /\ (\A u \in Rx \ {t} : th[u].at = "idle") /\ id \in Id
      /\ th[t].at = "alloc"
  BY <1>1 DEF Alone
<1>3. /\ key'[e] = id /\ hop'[e] = th[t].hop
      /\ \A x \in InUse : x # e /\ key'[x] = key[x] /\ hop'[x] = hop[x]
  BY <1>1, AllocKeys
<1>4. \A x \in InUse : key[x] # id
  BY <1>2 DEF RoutesInv, Has
<1>5. Unique'
  BY <1>1, <1>2, <1>3, <1>4 DEF RoutesInv, Unique
<1>6. \A u \in Rx : th'[u].at # "alloc"
  BY <1>1, <1>2
<1>7. kind = "local" => LocalInv'
  BY <1>1, <1>2, <1>3 DEF RoutesInv, LocalInv
<1>8. t \in Uncounted'
  BY <1>1 DEF Uncounted
<1>9. \A i \in Id : Latest(i)' \/ \E u \in Rx : th'[u].id = i /\ (kind' = "son" \/ u \in Uncounted')
  <2> TAKE i \in Id
  <2>1. CASE i = id
    BY <1>1, <1>8, <2>1
  <2>2. CASE i # id
    <3>1. Latest(i) => Latest(i)'
      BY <1>1, <1>3, <2>2 DEF Latest, Has
    <3>2. \A u \in Uncounted : u # t /\ u \in Rx /\ th[u].at # "idle"
      BY <1>2 DEF Uncounted
    <3>3. \A u \in Rx : th[u].id = i => u # t
      BY <2>2
    <3> QED BY <1>1, <1>2, <3>1, <3>2, <3>3 DEF RoutesInv
  <2> QED BY <2>1, <2>2
<1> QED BY <1>1, <1>5, <1>6, <1>7, <1>9 DEF RoutesInv

LEMMA FwdCountRoutes ==
  ASSUME Inv, OneWriter, AddedInv, RoutesInv, NEW t \in Rx, FwdCount(t)
  PROVE  RoutesInv'
<1> DEFINE id == th[t].id
           e == th[t].e
<1>1. /\ Alone(t, "count") /\ Noted(id, th[t].hop) /\ th'[t].at = "idle"
      /\ \A u \in Rx \ {t} : th'[u] = th[u]
      /\ UNCHANGED <<kind, key, hop>> /\ InUse' = InUse
  BY FwdCountStep DEF Stays, Idle
<1>2. /\ kind \in {"local", "son"} /\ id \in Id /\ th[t].at = "count"
      /\ \A u \in Rx \ {t} : th[u].at = "idle" /\ th[u].id = None
  BY <1>1 DEF Alone, AddedInv, AddedOK
<1>3. e \in InUse /\ key[e] = id /\ hop[e] = th[t].hop
  BY <1>2 DEF AddedInv, AddedOK
<1>4. Unique' /\ \A u \in Rx : th'[u].at = "idle"
  BY <1>1, <1>2 DEF RoutesInv, Unique
<1>5. wanted'[id] = th[t].hop /\ \A i \in Id \ {id} : wanted'[i] = wanted[i]
  <2>1. kind = "son" \/ wanted[id] = None
    BY <1>2 DEF RoutesInv, LocalInv
  <2> QED BY <1>1, <1>2, <2>1, NotedWants
<1>6. kind = "local" => LocalInv'
  BY <1>1, <1>2, <1>4, <1>5 DEF RoutesInv, LocalInv
<1>7. \A i \in Id : Latest(i)'
  <2> TAKE i \in Id
  <2>1. CASE i = id
    BY <1>1, <1>3, <1>5, <2>1 DEF Latest
  <2>2. CASE i # id
    <3>1. Latest(i)
      BY <1>2, <2>2, InUseHas DEF RoutesInv
    <3> QED BY <1>1, <1>5, <2>2, <3>1 DEF Latest, Has
  <2> QED BY <2>1, <2>2
<1> QED BY <1>1, <1>4, <1>6, <1>7 DEF RoutesInv

LEMMA RoutesStep ==
  ASSUME Inv, OneWriter, AddedInv, LeadsInv, RoutesInv, [Next]_vars
  PROVE  RoutesInv'
<1>1. ASSUME kind \notin {"local", "son"}, kind' = kind PROVE RoutesInv'
  BY <1>1 DEF RoutesInv
<1>2. ASSUME NEW t \in Rx, Adding(t) PROVE RoutesInv'
  <2>1. CASE \E e \in Entry : ArpAdd(t, e) \/ NbrAdd(t, e)
    BY <1>1, <2>1, AddStep DEF Locking, Puts
  <2>2. CASE \E e \in Entry : FwdAlloc(t, e)
    BY <2>2, FwdAllocRoutes
  <2>3. CASE FwdLink(t) \/ FwdFirst(t) \/ FwdHash(t) \/ FwdSize(t)
    BY <2>3, FwdRoutes
  <2>4. CASE FwdCount(t)
    BY <2>4, FwdCountRoutes
  <2> QED BY <1>2, <2>1, <2>2, <2>3, <2>4 DEF Adding
<1>3. ASSUME AgingAlloc \/ AgingLock \/ AgingVisit \/ AgingVisited \/ AgingDone PROVE RoutesInv'
  BY <1>1, <1>3, PassStep DEF Locking, Stays
<1>4. ASSUME NEW e \in Entry, AgingDelete(e) PROVE RoutesInv'
  BY <1>1, <1>4, AgingDeleteStep DEF Locking, Cuts
<1>5. ASSUME NEW id \in Id, NEW e \in Entry, BspcAdd(id, e) PROVE RoutesInv'
  BY <1>1, <1>5, BspcAddStep DEF Puts
<1>6. ASSUME BspcFail \/ Destroyed PROVE RoutesInv'
  BY <1>1, <1>6, EndStep DEF Stays
<1>7. ASSUME Destroy PROVE RoutesInv'
  BY <1>1, <1>7, DestroyStep DEF Cuts
<1>8. ASSUME UNCHANGED vars PROVE RoutesInv'
  BY <1>8, StutterStep DEF RoutesInv, LocalInv, Unique, Has, Latest, Uncounted, Stays
<1> QED BY <1>2, <1>3, <1>4, <1>5, <1>6, <1>7, <1>8, LookupRoutes, RuleRoutes DEF Next

LEMMA BspcStep ==
  ASSUME Inv, OneWriter, BspcInv, [Next]_vars
  PROVE  BspcInv'
<1>1. ASSUME kind # "bspc", kind' = kind PROVE BspcInv'
  BY <1>1 DEF BspcInv
<1>2. ASSUME NEW t \in Rx, NEW id \in Id, Lookup(t, id) PROVE BspcInv'
  BY <1>1, <1>2, LookupStep DEF Stays
<1>3. ASSUME NEW t \in Rx, NEW id \in Id, NEW h \in Hop \cup {None}, RouteRule(t, id, h) PROVE BspcInv'
  BY <1>1, <1>3, RouteRuleStep
<1>4. ASSUME NEW t \in Rx, Adding(t) PROVE BspcInv'
  <2>1. CASE \E e \in Entry : ArpAdd(t, e) \/ NbrAdd(t, e)
    BY <1>1, <2>1, AddStep DEF Locking, Puts
  <2>2. CASE \E e \in Entry : FwdAlloc(t, e)
    BY <1>1, <2>2, FwdAllocStep DEF Alone
  <2>3. CASE FwdLink(t) \/ FwdFirst(t) \/ FwdHash(t) \/ FwdSize(t) \/ FwdCount(t)
    BY <1>1, <2>3, FwdLinkStep, FwdReadStep, FwdHashStep, FwdCountStep DEF Alone, Stays
  <2> QED BY <1>4, <2>1, <2>2, <2>3 DEF Adding
<1>5. ASSUME AgingAlloc \/ AgingLock \/ AgingVisit \/ AgingVisited \/ AgingDone PROVE BspcInv'
  BY <1>1, <1>5, PassStep DEF Locking, Stays
<1>6. ASSUME NEW e \in Entry, AgingDelete(e) PROVE BspcInv'
  BY <1>1, <1>6, AgingDeleteStep DEF Locking, Cuts
<1>7. ASSUME NEW id \in Id, NEW e \in Entry, BspcAdd(id, e) PROVE BspcInv'
  <2>1. /\ kind = "bspc" /\ main = "filling" /\ wanted[id] = None /\ main' = main /\ kind' = kind
        /\ Alloc(e, id, Direct) /\ Noted(id, Direct) /\ e \notin InUse /\ InUse' = InUse \cup {e}
    BY <1>7, BspcAddStep DEF Puts
  <2>2. /\ key'[e] = id /\ hop'[e] = Direct
        /\ \A x \in InUse : x # e /\ key'[x] = key[x] /\ hop'[x] = hop[x]
    BY <2>1, AllocKeys
  <2>3. \A x \in InUse : key[x] # id
    <3>1. Direct # None
      BY TableAssumption
    <3> QED BY <2>1, <3>1 DEF BspcInv, Latest, Has
  <2>4. Unique'
    BY <2>1, <2>2, <2>3 DEF BspcInv, Unique
  <2>5. wanted'[id] = Direct /\ \A i \in Id \ {id} : wanted'[i] = wanted[i]
    BY <2>1, NotedWants
  <2>6. \A i \in Id : Latest(i)'
    <3> TAKE i \in Id
    <3>1. CASE i = id
      BY <2>1, <2>2, <2>5, <3>1 DEF Latest
    <3>2. CASE i # id
      <4>1. Latest(i)
        BY <2>1 DEF BspcInv
      <4> QED BY <2>1, <2>2, <2>5, <3>2, <4>1 DEF Latest, Has
    <3> QED BY <3>1, <3>2
  <2> QED BY <2>1, <2>2, <2>4, <2>6 DEF BspcInv
<1>8. ASSUME BspcFail \/ Destroyed PROVE BspcInv'
  <2>1. main' \in {"destroying", "freed"}
    BY <1>8 DEF BspcFail, Destroyed
  <2> QED BY <1>8, <2>1, EndStep DEF BspcInv, Unique, Stays
<1>9. ASSUME Destroy PROVE BspcInv'
  <2>1. /\ kind = "bspc" /\ main = "destroying" /\ main' = main
        /\ \A x \in InUse' : x \in InUse /\ key'[x] = key[x] /\ hop'[x] = hop[x]
    BY <1>9, DestroyStep, CutsKeys
  <2> QED BY <2>1 DEF BspcInv, Unique
<1>10. ASSUME UNCHANGED vars PROVE BspcInv'
  BY <1>10, StutterStep DEF BspcInv, Unique, Latest, Has, Stays
<1> QED BY <1>2, <1>3, <1>4, <1>5, <1>6, <1>7, <1>8, <1>9, <1>10 DEF Next

LEMMA InitRoutes == Init => RoutesInv /\ BspcInv
<1> SUFFICES ASSUME Init PROVE RoutesInv /\ BspcInv
  OBVIOUS
<1>1. InUse = {}
  BY DEF Init, InUse, Free
<1>2. \A id \in Id : Latest(id) /\ wanted[id] = None
  BY <1>1 DEF Init, Latest, Has
<1>3. \A t \in Rx : th[t].at = "idle"
  BY DEF Init, Idle
<1>4. LocalInv
  BY <1>1, <1>2, <1>3 DEF LocalInv
<1>5. RoutesInv
  BY <1>1, <1>2, <1>3, <1>4 DEF RoutesInv, Unique
<1>6. kind = "bspc" => main # "ready"
  BY DEF Init
<1> QED BY <1>1, <1>2, <1>5, <1>6 DEF BspcInv, Unique
-----------------------------------------------------------------------------
(* ARP and neighbour tables: threads that race                              *)

\* Threads that have looked for id and will add it.
Adders(id) == {t \in Rx : th[t].at = "add" /\ th[t].id = id}

\* Each of them adds one entry, none once there is one.
RaceInv ==
  Locking => /\ \A id \in Id : Cardinality(Match(id)) + Cardinality(Adders(id)) <= Cardinality(Rx)
             /\ \A e \in InUse : hop[e] = Direct
             /\ \A id \in Id : wanted[id] \in {None, Direct}
             /\ \A t \in Rx : th[t].at # "idle" => th[t].hop = Direct

LEMMA RaceFinite ==
  /\ IsFiniteSet(Rx) /\ Cardinality(Rx) \in Nat
  /\ \A id : IsFiniteSet(Match(id)) /\ Cardinality(Match(id)) \in Nat
  /\ \A id : IsFiniteSet(Adders(id)) /\ Cardinality(Adders(id)) \in Nat
<1>1. \A id : Match(id) \in SUBSET Entry /\ Adders(id) \in SUBSET Rx
  BY DEF Match, Adders
<1>2. \A S \in SUBSET Entry : IsFiniteSet(S) /\ Cardinality(S) \in Nat
  BY FS_Subset, FS_CardinalityType, TableAssumption
<1>3. \A S \in SUBSET Rx : IsFiniteSet(S) /\ Cardinality(S) \in Nat
  BY FS_Subset, FS_CardinalityType, TableAssumption
<1> QED BY <1>1, <1>2, <1>3

LEMMA RaceLookup ==
  ASSUME Inv, OneWriter, LeadsInv, RaceInv, NEW t \in Rx, NEW id \in Id, Lookup(t, id)
  PROVE  RaceInv'
<1> SUFFICES ASSUME Locking PROVE RaceInv'
  BY LookupStep DEF RaceInv, Locking, Stays
<1>1. Stays /\ Settled /\ Locking' /\ UNCHANGED <<key, hop>> /\ InUse' = InUse
  BY LookupStep DEF Locking, Stays
<1>2. \A i : Match(i)' = Match(i)
  BY <1>1 DEF Match
<1>3. \A i \in Id : wanted'[i] \in {None, Direct}
  <2>1. CASE Noted(id, Direct)
    BY <2>1, NotedWants DEF RaceInv
  <2>2. CASE wanted' = wanted
    BY <2>2 DEF RaceInv
  <2> QED BY <2>1, <2>2, LookupStep
<1>4. CASE th' = th
  <2>1. \A i : Adders(i)' = Adders(i)
    BY <1>4 DEF Adders
  <2> QED BY <1>1, <1>2, <1>3, <1>4, <2>1 DEF RaceInv
<1>5. CASE Absent(id) /\ th' = [th EXCEPT ![t] = [Idle EXCEPT !.at = IF Locking THEN "add" ELSE "alloc",
                                                             !.id = id, !.hop = Direct]]
  <2>1. /\ th'[t].at = "add" /\ th'[t].id = id /\ th'[t].hop = Direct /\ th[t].at = "idle"
        /\ \A u \in Rx \ {t} : th'[u] = th[u]
    <3> DEFINE r == [Idle EXCEPT !.at = IF Locking THEN "add" ELSE "alloc", !.id = id, !.hop = Direct]
    <3>1. th' = [th EXCEPT ![t] = r]
      BY <1>5
    <3>2. th[t].at = "idle"
      <4>1. th[t] = Idle
        BY LookupStep
      <4>2. Idle.at = "idle"
        BY DEF Idle
      <4> QED BY <4>1, <4>2
    <3>3. r.at = "add" /\ r.id = id /\ r.hop = Direct
      BY DEF Idle
    <3> HIDE DEF r
    <3> QED BY <3>1, <3>2, <3>3 DEF Inv, TypeOK
  <2>2. ASSUME NEW i \in Id, i # id PROVE Adders(i)' = Adders(i)
    BY <2>1, <2>2 DEF Adders
  <2>3. Match(id) = {}
    <3>1. \A e \in Match(id) : e \in InUse /\ key[e] = id
      BY TableAssumption DEF Match, InUse, Free
    <3> QED BY <1>1, <1>5, <3>1, AbsentHasNot DEF Settled, Has
  <2>4. Cardinality(Match(id)') + Cardinality(Adders(id)') <= Cardinality(Rx)
    <3>1. Cardinality(Match(id)') = 0
      BY <1>2, <2>3, FS_EmptySet
    <3>2. Adders(id)' \in SUBSET Rx
      BY DEF Adders
    <3>3. Cardinality(Adders(id)') <= Cardinality(Rx) /\ Cardinality(Adders(id)') \in Nat
      BY <3>2, RaceFinite, FS_Subset, FS_CardinalityType
    <3> QED BY <3>1, <3>3
  <2>5. \A i \in Id : Cardinality(Match(i)') + Cardinality(Adders(i)') <= Cardinality(Rx)
    BY <1>2, <2>2, <2>4 DEF RaceInv
  <2> QED BY <1>1, <1>3, <2>1, <2>5 DEF RaceInv
<1> QED BY <1>4, <1>5, LookupStep

LEMMA RaceAdd ==
  ASSUME Inv, RaceInv, NEW t \in Rx, NEW e \in Entry, ArpAdd(t, e) \/ NbrAdd(t, e)
  PROVE  RaceInv'
<1> DEFINE id == th[t].id
           h == th[t].hop
<1>1. /\ Locking /\ Locking' /\ th[t].at = "add" /\ id \in Id /\ Alloc(e, id, h) /\ Noted(id, h)
      /\ e \notin InUse /\ InUse' = InUse \cup {e} /\ th' = [th EXCEPT ![t] = Idle]
  BY AddStep DEF Puts, Locking
<1>2. /\ key'[e] = id /\ hop'[e] = h
      /\ \A x \in InUse : x # e /\ key'[x] = key[x] /\ hop'[x] = hop[x]
  BY <1>1, AllocKeys
<1>3. th'[t].at = "idle" /\ \A u \in Rx \ {t} : th'[u] = th[u]
  BY <1>1 DEF Inv, TypeOK, Idle
<1>4. h = Direct /\ Direct \in Hop
  BY <1>1, TableAssumption DEF RaceInv
<1>5. \A i \in Id : wanted'[i] \in {None, Direct}
  BY <1>1, <1>4, NotedWants DEF RaceInv
<1>6. \A i \in Id : Match(i)' = IF i = id THEN Match(i) \cup {e} ELSE Match(i)
  <2>1. e \notin InUse => key[e] = None
    BY DEF InUse, Free
  <2>2. \A x \in Entry : key'[x] = IF x = e THEN id ELSE key[x]
    BY <1>1 DEF Alloc, Inv, TypeOK
  <2> QED BY <1>1, <2>1, <2>2, TableAssumption DEF Match
<1>7. \A i \in Id : Adders(i)' = IF i = id THEN Adders(i) \ {t} ELSE Adders(i)
  BY <1>1, <1>3 DEF Adders
<1>8. e \notin Match(id) /\ t \in Adders(id)
  <2>1. key[e] = None
    BY <1>1 DEF InUse, Free
  <2> QED BY <1>1, <2>1, TableAssumption DEF Match, Adders
<1>9. ASSUME NEW i \in Id PROVE Cardinality(Match(i)') + Cardinality(Adders(i)') <= Cardinality(Rx)
  <2>1. Cardinality(Match(i)) + Cardinality(Adders(i)) <= Cardinality(Rx)
    BY <1>1 DEF RaceInv
  <2>2. CASE i = id
    <3>1. Cardinality(Match(i)') = Cardinality(Match(i)) + 1
      BY <1>6, <1>8, <2>2, RaceFinite, FS_AddElement
    <3>2. Cardinality(Adders(i)') = Cardinality(Adders(i)) - 1
      BY <1>7, <1>8, <2>2, RaceFinite, FS_RemoveElement
    <3> QED BY <2>1, <3>1, <3>2, RaceFinite
  <2>3. CASE i # id
    BY <1>6, <1>7, <2>1, <2>3
  <2> QED BY <2>2, <2>3
<1>10. \A x \in InUse' : hop'[x] = Direct
  BY <1>1, <1>2, <1>4 DEF RaceInv
<1>11. \A u \in Rx : th'[u].at # "idle" => th'[u].hop = Direct
  BY <1>1, <1>3 DEF RaceInv
<1> QED BY <1>1, <1>5, <1>9, <1>10, <1>11 DEF RaceInv

LEMMA RaceDelete ==
  ASSUME Inv, RaceInv, NEW e \in Entry, AgingDelete(e)
  PROVE  RaceInv'
<1>1. Cuts(e) /\ Locking /\ Locking' /\ UNCHANGED <<th, wanted>>
  BY AgingDeleteStep DEF Cuts, Locking
<1>2. \A x \in InUse' : x \in InUse /\ x # e /\ key'[x] = key[x] /\ hop'[x] = hop[x]
  BY <1>1, CutsKeys
<1>3. \A x \in Entry : key'[x] = IF x = e THEN None ELSE key[x]
  BY <1>1 DEF Cuts, Inv, TypeOK
<1>4. ASSUME NEW i \in Id PROVE Cardinality(Match(i)') + Cardinality(Adders(i)') <= Cardinality(Rx)
  <2>1. Cardinality(Match(i)) + Cardinality(Adders(i)) <= Cardinality(Rx)
    BY <1>1 DEF RaceInv
  <2>2. Match(i)' \in SUBSET Match(i) /\ Adders(i)' = Adders(i)
    BY <1>1, <1>3, TableAssumption DEF Match, Adders
  <2>3. Cardinality(Match(i)') <= Cardinality(Match(i)) /\ Cardinality(Match(i)') \in Nat
    BY <2>2, RaceFinite, FS_Subset, FS_CardinalityType
  <2> QED BY <2>1, <2>2, <2>3, RaceFinite
<1> QED BY <1>1, <1>2, <1>4 DEF RaceInv

LEMMA RaceStays ==
  ASSUME Inv, RaceInv, Stays, th' = th, \A i \in Id : wanted'[i] \in {wanted[i], None}
  PROVE  RaceInv'
<1>1. \A i : Match(i)' = Match(i) /\ Adders(i)' = Adders(i)
  BY DEF Match, Adders, Stays
<1> QED BY <1>1 DEF RaceInv, Stays, Locking

LEMMA RaceStep ==
  ASSUME Inv, OneWriter, LeadsInv, RaceInv, [Next]_vars
  PROVE  RaceInv'
<1>1. ASSUME kind \notin {"arp", "nbr"}, kind' = kind PROVE RaceInv'
  BY <1>1 DEF RaceInv, Locking
<1>2. ASSUME NEW t \in Rx, NEW id \in Id, NEW h \in Hop \cup {None}, RouteRule(t, id, h) PROVE RaceInv'
  BY <1>1, <1>2, RouteRuleStep
<1>3. ASSUME NEW t \in Rx, Adding(t) PROVE RaceInv'
  <2>1. CASE \E e \in Entry : ArpAdd(t, e) \/ NbrAdd(t, e)
    BY <2>1, RaceAdd
  <2>2. CASE \E e \in Entry : FwdAlloc(t, e)
    BY <1>1, <2>2, FwdAllocStep DEF Alone
  <2>3. CASE FwdLink(t) \/ FwdFirst(t) \/ FwdHash(t) \/ FwdSize(t) \/ FwdCount(t)
    BY <1>1, <2>3, FwdLinkStep, FwdReadStep, FwdHashStep, FwdCountStep DEF Alone, Stays
  <2> QED BY <1>3, <2>1, <2>2, <2>3 DEF Adding
<1>4. ASSUME AgingAlloc \/ AgingLock \/ AgingVisit \/ AgingVisited \/ AgingDone PROVE RaceInv'
  <2>1. \A i \in Id : wanted'[i] \in {wanted[i], None}
    BY <1>4 DEF AgingAlloc, AgingLock, AgingVisit, AgingVisited, AgingDone, history
  <2> QED BY <1>4, <2>1, PassStep, RaceStays
<1>5. ASSUME NEW id \in Id, NEW e \in Entry, BspcAdd(id, e) PROVE RaceInv'
  BY <1>1, <1>5, BspcAddStep DEF Puts
<1>6. ASSUME BspcFail \/ Destroyed \/ Destroy PROVE RaceInv'
  BY <1>1, <1>6, EndStep, DestroyStep DEF Stays, Cuts
<1>7. ASSUME UNCHANGED vars PROVE RaceInv'
  BY <1>7, StutterStep, RaceStays
<1> QED BY <1>2, <1>3, <1>4, <1>5, <1>6, <1>7, RaceLookup, RaceDelete DEF Next

LEMMA InitRace == Init => RaceInv
<1> SUFFICES ASSUME Init PROVE RaceInv
  OBVIOUS
<1>1. InUse = {}
  BY DEF Init, InUse, Free
<1>2. \A id \in Id : Match(id) = {} /\ Adders(id) = {}
  BY TableAssumption DEF Init, Match, Adders, Idle
<1>3. \A id \in Id : Cardinality(Match(id)) + Cardinality(Adders(id)) <= Cardinality(Rx)
  BY <1>2, FS_EmptySet, RaceFinite
<1> QED BY <1>1, <1>3 DEF RaceInv, Init, Idle
-----------------------------------------------------------------------------
(* ARP and neighbour tables: the aging pass                                 *)

\* id is wanted exactly if an entry of S has it.
Keeps(id, S) == wanted[id] # None <=> \E e \in S : key[e] = id

\* V are the entries that the pass has walked past.  Those that were expired, and
\* so recorded, and those still to be, number no more than rec has room for; what
\* will be left is what was heard.
Visited(V) ==
  /\ V \subseteq expired /\ aging.rec \subseteq V /\ aging.pos \notin V
  /\ \A n \in V \cup {Head} : list.next[n] \in V \cup {aging.pos}
  /\ \A n \in V : list.prev[n] \in V \cup {Head}
  /\ aging.pos # Head => list.prev[aging.pos] \in V \cup {Head}
  /\ Cardinality(aging.rec \cup (expired \ V)) <= aging.room
  /\ \A id \in Id : Keeps(id, (InUse \ expired) \cup (V \ aging.rec))

\* Between two passes, of an id heard since the last one there is an active
\* entry; entries do not expire between the making of rec and the walk.
BetweenInv ==
  \A id \in Id : Keeps(id, InUse) /\ (id \in heard <=> \E e \in InUse \ expired : key[e] = id)

PassInv ==
  /\ expired \subseteq InUse
  /\ ~Locking => expired = {}
  /\ Locking /\ Unlocked => BetweenInv
  /\ aging.at = "sized" => Cardinality(expired) <= aging.room
  /\ aging.at = "walking" => heard = {} /\ \E V \in SUBSET InUse : Visited(V)
  /\ aging.at = "deleting" => /\ heard = {} /\ InUse \subseteq expired
                              /\ \A id \in Id : Keeps(id, InUse \ aging.rec)
                              /\ Cardinality(aging.rec) <= aging.room

\* Sets of entries are finite.
LEMMA EntriesFinite ==
  \A S \in SUBSET Entry : /\ IsFiniteSet(S) /\ Cardinality(S) \in Nat
                          /\ \A T \in SUBSET S : Cardinality(T) <= Cardinality(S)
BY FS_Subset, FS_CardinalityType, TableAssumption

LEMMA NotedHeard ==
  ASSUME NEW id, NEW h, Noted(id, h)
  PROVE  heard' = heard \cup {id}
BY DEF Noted

\* Steps of tables without a mutex: nothing expires there.
LEMMA PassUnlocked ==
  ASSUME Inv', PassInv, ~Locking, kind' = kind, expired' \subseteq expired, aging' = aging,
         aging.at # "idle" => Locking
  PROVE  PassInv'
<1>1. ~(Locking') /\ expired = {} /\ expired' = {}
  BY DEF PassInv, Locking
<1>2. aging.at = "idle"
  OBVIOUS
<1> QED BY <1>1, <1>2 DEF PassInv

LEMMA PassLookup ==
  ASSUME Inv, OneWriter, RaceInv, PassInv, NEW t \in Rx, NEW id \in Id, Lookup(t, id), Locking
  PROVE  PassInv'
<1>1. /\ Unlocked /\ InUse' = InUse /\ key' = key /\ aging' = aging /\ kind' = kind
      /\ InUse \subseteq Entry /\ expired \subseteq InUse
  BY LookupStep DEF Stays, InUse, PassInv
<1>2. CASE UNCHANGED <<expired, wanted, heard>>
  BY <1>1, <1>2 DEF PassInv, BetweenInv, Keeps, Locking, Unlocked
<1>3. ASSUME NEW e \in InUse, key[e] = id, expired' = expired \ {e}, Noted(id, Direct)
      PROVE  PassInv'
  <2>1. /\ wanted'[id] # None /\ wanted'[id] \in {wanted[id], Direct}
        /\ \A i \in Id \ {id} : wanted'[i] = wanted[i]
        /\ heard' = heard \cup {id}
    BY <1>3, NotedWants, NotedHeard, TableAssumption
  <2>2. BetweenInv
    BY <1>1 DEF PassInv
  <2>3. ASSUME NEW i \in Id PROVE Keeps(i, InUse)' /\ (i \in heard' <=> \E x \in InUse' \ expired' : key'[x] = i)
    <3>1. CASE i = id
      BY <1>1, <1>3, <2>1, <3>1 DEF Keeps
    <3>2. CASE i # id
      <4>1. \A x \in InUse : key[x] = i => x # e
        BY <1>3, <3>2
      <4> QED BY <1>1, <1>3, <2>1, <2>2, <3>2, <4>1 DEF Keeps, BetweenInv
    <3> QED BY <3>1, <3>2
  <2>4. BetweenInv'
    BY <2>3 DEF BetweenInv
  <2>5. Cardinality(expired') <= Cardinality(expired)
    BY <1>1, <1>3, EntriesFinite
  <2>6. aging.at = "sized" => Cardinality(expired') <= aging.room
    <3>1. Cardinality(expired') \in Nat /\ Cardinality(expired) \in Nat /\ aging.room \in Int
      BY <1>1, <1>3, EntriesFinite DEF Inv, TypeOK
    <3> QED BY <2>5, <3>1 DEF PassInv
  <2> QED BY <1>1, <1>3, <2>4, <2>6 DEF PassInv, Unlocked, Locking
<1> QED BY <1>2, <1>3, LookupStep

LEMMA PassAdd ==
  ASSUME Inv, RaceInv, PassInv, NEW t \in Rx, NEW e \in Entry, ArpAdd(t, e) \/ NbrAdd(t, e)
  PROVE  PassInv'
<1> DEFINE id == th[t].id
           h == th[t].hop
<1>1. /\ Locking /\ Unlocked /\ kind' = kind /\ aging' = aging
      /\ id \in Id /\ h \in Hop /\ Alloc(e, id, h) /\ Noted(id, h)
      /\ e \notin InUse /\ InUse' = InUse \cup {e} /\ InUse \subseteq Entry /\ expired \subseteq InUse
  BY AddStep DEF Puts, InUse, PassInv
<1>2. /\ key'[e] = id /\ expired' = expired
      /\ \A x \in InUse : x # e /\ key'[x] = key[x]
  BY <1>1, AllocKeys DEF Alloc
<1>3. /\ wanted'[id] # None /\ \A i \in Id \ {id} : wanted'[i] = wanted[i]
      /\ heard' = heard \cup {id}
  BY <1>1, NotedWants, NotedHeard, TableAssumption
<1>4. BetweenInv
  BY <1>1 DEF PassInv
<1>5. ASSUME NEW i \in Id PROVE Keeps(i, InUse)' /\ (i \in heard' <=> \E x \in InUse' \ expired' : key'[x] = i)
  <2>1. CASE i = id
    BY <1>1, <1>2, <1>3, <2>1 DEF Keeps
  <2>2. CASE i # id
    BY <1>1, <1>2, <1>3, <1>4, <2>2 DEF Keeps, BetweenInv
  <2> QED BY <2>1, <2>2
<1>6. BetweenInv'
  BY <1>5 DEF BetweenInv
<1> QED BY <1>1, <1>2, <1>6 DEF PassInv, Unlocked, Locking

\* rec is made: there are as many entries as `size' says.
LEMMA PassAlloc ==
  ASSUME Inv, SizeInv, PassInv, AgingAlloc
  PROVE  PassInv'
<1>1. /\ Locking /\ aging.at = "idle" /\ aging'.at = "sized" /\ aging'.room = size
      /\ InUse' = InUse /\ UNCHANGED <<kind, key, expired, wanted, heard>>
  BY DEF AgingAlloc, memory, history, InUse, Free, Inv, TypeOK
<1>2. main # "freed" /\ Cardinality(Uncounted) = 0
  BY <1>1, AllCounted DEF Inv, KindInv, Locking
<1>3. Cardinality(expired) <= size
  <2>1. Cardinality(expired) <= Cardinality(InUse)
    BY EntriesFinite DEF PassInv, InUse
  <2>2. size = Cardinality(InUse)
    BY <1>2, InUseFinite DEF SizeInv
  <2> QED BY <2>1, <2>2
<1>4. BetweenInv'
  BY <1>1 DEF PassInv, BetweenInv, Keeps, Unlocked
<1> QED BY <1>1, <1>3, <1>4 DEF PassInv, Locking

\* The walk begins at the first entry.
LEMMA PassLock ==
  ASSUME Inv, PassInv, AgingLock
  PROVE  PassInv'
<1>1. /\ Locking /\ aging.at = "sized" /\ aging'.at = "walking" /\ aging'.pos = list.next[Head]
      /\ aging'.rec = {} /\ aging'.room = aging.room /\ heard' = {}
      /\ wanted' = [i \in Id |-> IF i \in heard THEN wanted[i] ELSE None]
      /\ InUse' = InUse /\ UNCHANGED <<kind, list, key, expired>>
  BY DEF AgingLock, memory, InUse, Free, Inv, TypeOK, AgingInv
<1>2. BetweenInv /\ Cardinality(expired) <= aging.room
  BY <1>1 DEF PassInv, Unlocked
<1>3. Linked(list, {Head} \cup InUse)
  BY <1>1, NoneBetween DEF Inv, PointersMatch, Locking
<1>4. Visited({})'
  <2>1. /\ list.next[Head] # Head => list.prev[list.next[Head]] = Head
    BY <1>3 DEF Linked
  <2>2. Cardinality(aging'.rec \cup (expired' \ {})) <= aging'.room
    <3>1. aging'.rec \cup (expired' \ {}) = expired
      BY <1>1
    <3> QED BY <1>1, <1>2, <3>1
  <2>3. ASSUME NEW i \in Id
        PROVE  wanted'[i] # None <=> \E e \in (InUse' \ expired') \cup ({} \ aging'.rec) : key'[e] = i
    <3>1. wanted'[i] # None <=> i \in heard /\ wanted[i] # None
      BY <1>1
    <3>2. (\E e \in InUse \ expired : key[e] = i) => \E e \in InUse : key[e] = i
      OBVIOUS
    <3> QED BY <1>1, <1>2, <3>1, <3>2 DEF BetweenInv, Keeps
  <2> QED BY <1>1, <2>1, <2>2, <2>3 DEF Visited, Keeps
<1>5. \E V \in SUBSET InUse' : Visited(V)'
  BY <1>4
<1>6. ~(Unlocked') /\ expired' \subseteq InUse' /\ Locking'
  BY <1>1 DEF Unlocked, PassInv, Locking
<1> QED BY <1>1, <1>5, <1>6 DEF PassInv

\* A step of the walk: one more entry is behind it.
LEMMA PassVisit ==
  ASSUME Inv, PassInv, AgingVisit
  PROVE  PassInv'
<1> DEFINE pos == aging.pos
<1>1. /\ Locking /\ aging.at = "walking" /\ pos # Head /\ aging'.at = "walking"
      /\ aging'.pos = list.next[pos] /\ aging'.rec = aging.rec \cup ({pos} \cap expired)
      /\ aging'.room = aging.room /\ expired' = expired \cup {pos}
      /\ InUse' = InUse /\ UNCHANGED <<kind, list, key, wanted, heard>>
  BY DEF AgingVisit, history, InUse, Free, Inv, TypeOK, AgingInv
<1>2. pos \in InUse /\ expired \subseteq InUse /\ heard = {} /\ Head \notin InUse
  BY <1>1, PointerAssumption DEF Inv, AgingInv, PassInv, InUse
<1>3. PICK V \in SUBSET InUse : Visited(V)
  BY <1>1 DEF PassInv
<1>4. Linked(list, {Head} \cup InUse)
  BY <1>1, NoneBetween DEF Inv, PointersMatch, Locking
<1> PICK W \in SUBSET InUse : W = V \cup {pos}
  BY <1>2
<1>5. /\ pos \notin V /\ V \subseteq expired /\ aging.rec \subseteq V
      /\ \A n \in V \cup {Head} : list.next[n] \in V \cup {pos}
      /\ \A n \in V : list.prev[n] \in V \cup {Head}
      /\ list.prev[pos] \in V \cup {Head}
      /\ Cardinality(aging.rec \cup (expired \ V)) <= aging.room
  BY <1>1, <1>3 DEF Visited
<1>6. list.prev[list.next[pos]] = pos
  BY <1>2, <1>4 DEF Linked
<1>7. list.next[pos] \notin W
  BY <1>1, <1>5, <1>6
<1>8. aging'.rec \cup (expired' \ W) = aging.rec \cup (expired \ V)
  BY <1>1, <1>5
<1>9. (InUse' \ expired') \cup (W \ aging'.rec) = (InUse \ expired) \cup (V \ aging.rec)
  BY <1>1, <1>2, <1>5
<1>10. Visited(W)'
  <2>1. W \subseteq expired' /\ aging'.rec \subseteq W /\ aging'.pos \notin W
    BY <1>1, <1>5, <1>7
  <2>2. /\ \A n \in W \cup {Head} : list'.next[n] \in W \cup {aging'.pos}
        /\ \A n \in W : list'.prev[n] \in W \cup {Head}
        /\ list'.prev[aging'.pos] \in W \cup {Head}
    BY <1>1, <1>5, <1>6
  <2>3. Cardinality(aging'.rec \cup (expired' \ W)) <= aging'.room
    BY <1>1, <1>5, <1>8
  <2>4. \A i \in Id : Keeps(i, (InUse \ expired) \cup (W \ aging.rec))'
    BY <1>1, <1>3, <1>9 DEF Visited, Keeps
  <2> QED BY <2>1, <2>2, <2>3, <2>4 DEF Visited
<1>11. W \in SUBSET InUse'
  BY <1>1
<1>12. \E U \in SUBSET InUse' : Visited(U)'
  BY <1>10, <1>11
<1>13. ~(Unlocked') /\ expired' \subseteq InUse' /\ Locking'
  BY <1>1, <1>2 DEF Unlocked, Locking
<1> QED BY <1>1, <1>2, <1>12, <1>13 DEF PassInv

\* The walk has come round: every entry is behind it.
LEMMA PassVisited ==
  ASSUME Inv, LeadsInv, PassInv, AgingVisited
  PROVE  PassInv'
<1>1. /\ Locking /\ aging.at = "walking" /\ aging.pos = Head /\ aging'.at = "deleting"
      /\ aging'.rec = aging.rec /\ aging'.room = aging.room
      /\ InUse' = InUse /\ UNCHANGED <<kind, list, key, expired, wanted, heard>>
  BY DEF AgingVisited, memory, history, InUse, Free, Inv, TypeOK, AgingInv
<1>2. PICK V \in SUBSET InUse : Visited(V)
  BY <1>1 DEF PassInv
<1>3. InUse \subseteq V
  <2>1. CannotLeave(list.next[Head], list.next, {}, V)
    BY <1>1, <1>2, PointerAssumption DEF CannotLeave, Visited
  <2>2. ListLeads(list, InUse)
    BY <1>1, NoneBetween DEF LeadsInv, Inv, Locking
  <2>3. V \in SUBSET Entry
    BY DEF InUse
  <2> QED BY <2>1, <2>2, <2>3 DEF ListLeads
<1>4. expired \subseteq InUse /\ V \subseteq expired /\ heard = {}
  BY <1>1, <1>2 DEF PassInv, Visited
<1>5. Cardinality(aging.rec) <= aging.room
  <2>1. aging.rec \cup (expired \ V) = aging.rec
    BY <1>3, <1>4
  <2> QED BY <1>2, <2>1 DEF Visited
<1>6. \A i \in Id : Keeps(i, InUse \ aging.rec)
  <2>1. (InUse \ expired) \cup (V \ aging.rec) = InUse \ aging.rec
    BY <1>3, <1>4
  <2> QED BY <1>2, <2>1 DEF Visited
<1>7. ~(Unlocked') /\ Locking'
  BY <1>1 DEF Unlocked, Locking
<1>8. \A i \in Id : Keeps(i, InUse \ aging.rec)'
  BY <1>1, <1>6 DEF Keeps
<1> QED BY <1>1, <1>3, <1>4, <1>5, <1>7, <1>8 DEF PassInv

LEMMA PassDelete ==
  ASSUME Inv, PassInv, NEW e \in Entry, AgingDelete(e)
  PROVE  PassInv'
<1>1. /\ Locking /\ aging.at = "deleting" /\ e \in aging.rec /\ Cuts(e) /\ kind' = kind
      /\ expired' = expired \ {e} /\ aging'.at = "deleting" /\ aging'.rec = aging.rec \ {e}
      /\ aging'.room = aging.room /\ UNCHANGED <<wanted, heard>>
  BY AgingDeleteStep DEF Cuts, Inv, TypeOK
<1>2. /\ InUse' = InUse \ {e} /\ \A x \in InUse' : key'[x] = key[x]
  BY <1>1, CutsKeys DEF Cuts
<1>3. /\ heard = {} /\ expired \subseteq InUse /\ InUse \subseteq expired /\ aging.rec \subseteq InUse
      /\ \A i \in Id : Keeps(i, InUse \ aging.rec)
      /\ Cardinality(aging.rec) <= aging.room
  BY <1>1 DEF PassInv, Inv, AgingInv
<1>4. Cardinality(aging'.rec) <= aging'.room
  <2>1. aging.rec \in SUBSET Entry /\ aging'.rec \in SUBSET aging.rec /\ aging.room \in Int
    BY <1>1 DEF Inv, TypeOK
  <2>2. /\ Cardinality(aging'.rec) <= Cardinality(aging.rec)
        /\ Cardinality(aging.rec) \in Nat /\ Cardinality(aging'.rec) \in Nat
    BY <2>1, EntriesFinite
  <2> QED BY <1>1, <1>3, <2>1, <2>2
<1>5. InUse' \ aging'.rec = InUse \ aging.rec
  BY <1>1, <1>2
<1>6. \A i \in Id : Keeps(i, InUse \ aging.rec)'
  <2>1. \A x \in InUse \ aging.rec : key'[x] = key[x]
    BY <1>2, <1>5
  <2> QED BY <1>1, <1>3, <1>5, <2>1 DEF Keeps
<1>7. ~(Unlocked') /\ Locking' /\ expired' \subseteq InUse' /\ InUse' \subseteq expired'
  BY <1>1, <1>2, <1>3 DEF Unlocked, Locking
<1> QED BY <1>1, <1>3, <1>4, <1>6, <1>7 DEF PassInv

LEMMA PassDone ==
  ASSUME Inv, PassInv, AgingDone
  PROVE  PassInv'
<1>1. /\ Locking /\ aging.at = "deleting" /\ aging.rec = {} /\ aging'.at = "idle"
      /\ InUse' = InUse /\ UNCHANGED <<kind, key, expired, wanted, heard>>
  BY DEF AgingDone, NotAging, memory, history, InUse, Free, Inv, AgingInv
<1>2. /\ heard = {} /\ InUse \subseteq expired /\ expired \subseteq InUse
      /\ \A i \in Id : Keeps(i, InUse \ {})
  BY <1>1 DEF PassInv
<1>3. InUse \ {} = InUse /\ InUse \ expired = {}
  BY <1>2
<1>4. BetweenInv'
  BY <1>1, <1>2, <1>3 DEF BetweenInv, Keeps
<1> QED BY <1>1, <1>2, <1>4 DEF PassInv, Locking

LEMMA PassInvStep ==
  ASSUME Inv, Inv', OneWriter, LeadsInv, SizeInv, RaceInv, PassInv, [Next]_vars
  PROVE  PassInv'
<1>0. aging.at # "idle" => Locking
  BY DEF Inv, AgingInv
<1>1. ASSUME NEW t \in Rx, NEW id \in Id, Lookup(t, id) PROVE PassInv'
  <2>1. CASE Locking
    BY <1>1, <2>1, PassLookup
  <2>2. CASE ~Locking
    BY <1>0, <1>1, <2>2, LookupStep, PassUnlocked DEF Stays
  <2> QED BY <2>1, <2>2
<1>2. ASSUME NEW t \in Rx, NEW id \in Id, NEW h \in Hop \cup {None}, RouteRule(t, id, h) PROVE PassInv'
  BY <1>0, <1>2, RouteRuleStep, PassUnlocked DEF Locking
<1>3. ASSUME NEW t \in Rx, Adding(t) PROVE PassInv'
  <2>1. CASE \E e \in Entry : ArpAdd(t, e) \/ NbrAdd(t, e)
    BY <2>1, PassAdd
  <2>2. CASE \E e \in Entry : FwdAlloc(t, e)
    BY <1>0, <2>2, FwdAllocStep, PassUnlocked DEF Alone, Alloc, Locking
  <2>3. CASE FwdLink(t) \/ FwdFirst(t) \/ FwdHash(t) \/ FwdSize(t) \/ FwdCount(t)
    <3>1. kind \in {"local", "son"} /\ UNCHANGED <<kind, expired, aging>>
      BY <2>3, FwdLinkStep, FwdReadStep, FwdHashStep, FwdCountStep DEF Alone, Stays
    <3> QED BY <1>0, <3>1, PassUnlocked DEF Locking
  <2> QED BY <1>3, <2>1, <2>2, <2>3 DEF Adding
<1>4. ASSUME NEW id \in Id, NEW e \in Entry, BspcAdd(id, e) PROVE PassInv'
  <2>1. kind = "bspc" /\ kind' = kind /\ expired' \subseteq expired /\ aging' = aging
    BY <1>4, BspcAddStep DEF Puts, Alloc
  <2> QED BY <1>0, <2>1, PassUnlocked DEF Locking
<1>5. ASSUME BspcFail \/ Destroyed \/ Destroy PROVE PassInv'
  <2>1. kind = "bspc" /\ kind' = kind /\ expired' = expired /\ aging' = aging
    BY <1>5, EndStep, DestroyStep DEF Stays, Cuts
  <2> QED BY <1>0, <2>1, PassUnlocked DEF Locking
<1>6. ASSUME UNCHANGED vars PROVE PassInv'
  <2>1. InUse' = InUse /\ UNCHANGED <<kind, list, key, expired, aging, wanted, heard>>
    BY <1>6, StutterStep DEF Stays
  <2>2. \A V \in SUBSET InUse : Visited(V) => Visited(V)'
    BY <2>1 DEF Visited, Keeps
  <2>3. BetweenInv => BetweenInv'
    BY <2>1 DEF BetweenInv, Keeps
  <2>4. (\A i \in Id : Keeps(i, InUse \ aging.rec)) => \A i \in Id : Keeps(i, InUse \ aging.rec)'
    BY <2>1 DEF Keeps
  <2> QED BY <2>1, <2>2, <2>3, <2>4 DEF PassInv, Locking, Unlocked
<1> QED BY <1>1, <1>2, <1>3, <1>4, <1>5, <1>6, PassAlloc, PassLock, PassVisit, PassVisited, PassDelete,
           PassDone DEF Next

LEMMA InitPass == Init => PassInv
<1> SUFFICES ASSUME Init PROVE PassInv
  OBVIOUS
<1>1. InUse = {} /\ expired = {} /\ aging.at = "idle"
  BY DEF Init, InUse, Free, NotAging
<1>2. BetweenInv
  BY <1>1 DEF Init, BetweenInv, Keeps
<1> QED BY <1>1, <1>2 DEF PassInv
-----------------------------------------------------------------------------
(* What the whole shows                                                     *)

TableInv ==
  Inv /\ AddedInv /\ LeadsInv /\ SizeInv /\ RoutesInv /\ BspcInv /\ RaceInv /\ PassInv

LEMMA InitTable == Init => TableInv
BY InitInv, InitLeads, InitSize, InitRoutes, InitRace, InitPass DEF TableInv

LEMMA NextTable == ASSUME OneWriter PROVE TableInv /\ [Next]_vars => TableInv'
<1> SUFFICES ASSUME TableInv, [Next]_vars PROVE TableInv'
  OBVIOUS
<1>1. Inv'
  BY NextInv DEF TableInv
<1>2. AddedInv' /\ LeadsInv'
  BY AddedStep, LeadsStep DEF TableInv
<1>3. SizeInv'
  BY <1>1, SizeStep DEF TableInv
<1>4. RoutesInv' /\ BspcInv' /\ RaceInv'
  BY RoutesStep, BspcStep, RaceStep DEF TableInv
<1>5. PassInv'
  BY <1>1, PassInvStep DEF TableInv
<1> QED BY <1>1, <1>2, <1>3, <1>4, <1>5 DEF TableInv

LEMMA NoMoreThanThreads == TableInv => DuplicatesBounded
<1> SUFFICES ASSUME TableInv, NEW id \in Id
             PROVE  Cardinality({e \in InUse : key[e] = id}) <= IF Locking THEN Cardinality(Rx) ELSE 1
  BY DEF DuplicatesBounded
<1>1. {e \in InUse : key[e] = id} = Match(id)
  BY TableAssumption DEF InUse, Free, Match
<1>2. CASE Locking
  <2>1. Cardinality(Match(id)) + Cardinality(Adders(id)) <= Cardinality(Rx)
    BY <1>2 DEF TableInv, RaceInv
  <2>2. Cardinality(Match(id)) <= Cardinality(Rx)
    BY <2>1, RaceFinite
  <2> QED BY <1>1, <1>2, <2>2
<1>3. CASE ~Locking
  <2>1. Unique
    BY <1>3, TableAssumption DEF TableInv, Inv, TypeOK, Locking, RoutesInv, BspcInv
  <2>2. Match(id) = {} \/ \E e : Match(id) = {e}
    BY <1>1, <2>1 DEF Unique
  <2>3. Cardinality(Match(id)) \in {0, 1}
    BY <2>2, FS_EmptySet, FS_Singleton
  <2> QED BY <1>1, <1>3, <2>3
<1> QED BY <1>2, <1>3

LEMMA FindsLatest == TableInv => LookupFindsLatest
<1> SUFFICES ASSUME TableInv, Unlocked, Uncounted = {}, main \notin {"destroying", "freed"},
                    NEW id \in Id
             PROVE  \/ \E t \in Rx : kind = "son" /\ th[t].id = id
                    \/ Absent(id) /\ wanted[id] = None
                    \/ \E e \in Entry : Found(e, id) /\ wanted[id] = hop[e]
  BY DEF LookupFindsLatest
<1> USE DEF TableInv
<1>1. Unhashed = {}
  BY DEF Unhashed, Uncounted
<1>2. ~Has(id) => Absent(id)
  BY FoundIs, TableAssumption DEF Has, Absent, InUse, Free
<1>3. Has(id) => \E f \in InUse : Found(f, id)
  <2>1. ASSUME NEW e \in InUse, key[e] = id PROVE \E f \in Entry : Found(f, id)
    BY <1>1, <2>1, LookupFinds
  <2>2. \A f \in Entry : Found(f, id) => f \in InUse
    BY FoundIs, TableAssumption DEF InUse, Free
  <2> QED BY <2>1, <2>2 DEF Has
<1>4. InUse \subseteq Entry
  BY DEF InUse
<1>5. CASE Locking
  <2>1. (wanted[id] # None <=> Has(id)) /\ wanted[id] \in {None, Direct} /\ \A e \in InUse : hop[e] = Direct
    BY <1>5 DEF PassInv, BetweenInv, Keeps, Has, RaceInv
  <2> QED BY <1>2, <1>3, <1>4, <2>1
<1>6. CASE ~Locking
  <2>1. Unique
    BY <1>6, TableAssumption DEF Inv, TypeOK, Locking, RoutesInv, BspcInv
  <2>2. Latest(id) \/ \E t \in Rx : kind = "son" /\ th[t].id = id
    <3>1. kind = "bspc" => main = "filling"
      BY DEF Inv, TypeOK, BspcInv
    <3>2. kind \in {"local", "son", "bspc"}
      BY <1>6, TableAssumption DEF Inv, TypeOK, Locking
    <3> QED BY <3>1, <3>2 DEF RoutesInv, BspcInv
  <2>3. ASSUME NEW e \in InUse, key[e] = id, hop[e] = wanted[id]
        PROVE \E f \in Entry : Found(f, id) /\ wanted[id] = hop[f]
    <3>1. PICK f \in InUse : Found(f, id)
      BY <1>3, <2>3 DEF Has
    <3>2. f = e
      BY <2>1, <2>3, <3>1, FoundIs DEF Unique
    <3> QED BY <1>4, <2>3, <3>1, <3>2
  <2> QED BY <1>2, <2>2, <2>3 DEF Latest
<1> QED BY <1>5, <1>6

\* Lists, chains and size agree at every step of list.h, hashtable.h and their
\* callers in arp.c, neighbor.c, fwding.c and bspc.c: loops over the list and
\* over a bucket lead to every entry that is linked and hashed, the size counts
\* them, and bspc_table_destroy leaves none; for any number of entries,
\* buckets and threads, one at most of which writes the routes.
THEOREM TablesCoherent == ASSUME OneWriter PROVE Spec => []TableCoherent
<1>1. TableInv => TableCoherent
  BY Coherent DEF TableInv
<1>2. TableInv /\ [Next]_vars => TableInv'
  BY NextTable
<1> QED BY InitTable, <1>1, <1>2, PTL DEF Spec

\* arp_table_lookup_from_id, nbr_table_lookup and fwd_table_lookup find an id
\* exactly if it has been noted and neither been deleted nor gone unheard from
\* one aging pass to the next, with the next hop noted last or first, as
\* fwding.c does for vSON's routes or those that beacons leave.
THEOREM LookupsFindLatest == ASSUME OneWriter PROVE Spec => []LookupFindsLatest
<1>1. TableInv => LookupFindsLatest
  BY FindsLatest
<1>2. TableInv /\ [Next]_vars => TableInv'
  BY NextTable
<1> QED BY InitTable, <1>1, <1>2, PTL DEF Spec

\* Threads that all look up an id before any of them adds it, as
\* __neighbor_maintain lets them, leave as many entries of it as there are
\* threads and no more; a table of routes or connections has one of each id.
THEOREM FewDuplicates == ASSUME OneWriter PROVE Spec => []DuplicatesBounded
<1>1. TableInv => DuplicatesBounded
  BY NoMoreThanThreads
<1>2. TableInv /\ [Next]_vars => TableInv'
  BY NextTable
<1> QED BY InitTable, <1>1, <1>2, PTL DEF Spec

\* arp_table_aging and nbr_table_aging size their array before they take the
\* lock; whatever is added in between, they record no more than it holds.
THEOREM AgingRecFits == ASSUME OneWriter PROVE Spec => []RecFits
<1>1. TableInv => RecFits
  BY DEF TableInv, PassInv, RecFits
<1>2. TableInv /\ [Next]_vars => TableInv'
  BY NextTable
<1> QED BY InitTable, <1>1, <1>2, PTL DEF Spec
=============================================================================
