----------------------------- MODULE LinkedList -----------------------------
(***************************************************************************)
(* The lists of list.h and the hash chains of list.h and hashtable.h, as   *)
(* memory: a list is a record of two functions from nodes to pointers, a   *)
(* hash table one of three.  The functions of the source take and give     *)
(* such records here, their assignments in the source's order.             *)
(***************************************************************************)
EXTENDS Naturals, FiniteSets

CONSTANTS
  Entry,    \* addresses of table entries
  Head,     \* the list's head, a node that is no entry
  Bucket,   \* the chain heads of a hash table
  Null,
  Poison1, Poison2  \* what list_del leaves in an entry

ASSUME PointerAssumption ==
  /\ Head \notin Entry /\ Entry \cap Bucket = {} /\ Head \notin Bucket
  /\ {Null, Poison1, Poison2} \cap (Entry \cup Bucket \cup {Head}) = {}

Node    == Entry \cup {Head}
Pointer == Node \cup {Null, Poison1, Poison2}

\* struct list_head in the table and in each entry; entries come zeroed.
List == [next : [Node -> Pointer], prev : [Node -> Pointer]]

\* struct hlist_head for each bucket, struct hlist_node in each entry.  pprev
\* is the address of a pointer: of a bucket's first or of an entry's next.
Hash == [first : [Bucket -> Entry \cup {Null}],
         next  : [Entry -> Entry \cup {Null}],
         pprev : [Entry -> Entry \cup Bucket \cup {Null}]]
-----------------------------------------------------------------------------
(* struct list_head                                                         *)

INIT_LIST_HEAD ==
  LET zeroed == [n \in Node |-> IF n = Head THEN Head ELSE Null]
  IN [next |-> zeroed, prev |-> zeroed]

\* Mutant of __list_add: the next node is not told of the new one.
ListAddOneWay(l, new, prev, next) ==
  [next |-> [l.next EXCEPT ![new] = next, ![prev] = new],
   prev |-> [l.prev EXCEPT ![new] = prev]]

__list_add(l, new, prev, next) ==
  [next |-> [l.next EXCEPT ![new] = next, ![prev] = new],
   prev |-> [l.prev EXCEPT ![next] = new, ![new] = prev]]

list_add(l, new, head) == __list_add(l, new, head, l.next[head])

list_add_tail(l, new, head) == __list_add(l, new, l.prev[head], head)

__list_del(l, prev, next) ==
  [next |-> [l.next EXCEPT ![prev] = next], prev |-> [l.prev EXCEPT ![next] = prev]]

list_del(l, entry) ==
  LET cut == __list_del(l, l.prev[entry], l.next[entry])
  IN [next |-> [cut.next EXCEPT ![entry] = Poison1],
      prev |-> [cut.prev EXCEPT ![entry] = Poison2]]

\* A loop from `first' on, that ends at an entry of Stop or where it is led to
\* no entry, sees every set of entries that it cannot leave, and no more.
CannotLeave(first, next, Stop, S) ==
  /\ first \in Entry => first \in S
  /\ \A e \in S \ Stop : next[e] \in Entry => next[e] \in S

Loop(first, next, Stop) ==
  {e \in Entry : \A S \in SUBSET Entry : CannotLeave(first, next, Stop, S) => e \in S}

\* What a loop over the whole list sees.
list_for_each_entry(l) == Loop(l.next[Head], l.next, {})
-----------------------------------------------------------------------------
(* struct hlist_head, struct hlist_node and the hash tables made of them     *)

hash_init ==
  [first |-> [b \in Bucket |-> Null],
   next  |-> [e \in Entry |-> Null],
   pprev |-> [e \in Entry |-> Null]]

\* Mutant of PutFirst: the entry does not lead on to the rest of the chain.
PutFirstDropsRest(h, n, b, first) ==
  [first |-> [h.first EXCEPT ![b] = n], next |-> h.next, pprev |-> [h.pprev EXCEPT ![n] = b]]

\* The writes of hlist_add_head, after it has read the bucket's first entry.
PutFirst(h, n, b, first) ==
  [first |-> [h.first EXCEPT ![b] = n],
   next  |-> [h.next EXCEPT ![n] = first],
   pprev |-> IF first = Null THEN [h.pprev EXCEPT ![n] = b]
             ELSE [h.pprev EXCEPT ![first] = n, ![n] = b]]

hlist_add_head(h, n, b) == PutFirst(h, n, b, h.first[b])

hlist_unhashed(h, n) == h.pprev[n] = Null

\* *pprev = next, and next's pprev.
__hlist_del(h, n) ==
  LET next == h.next[n] pprev == h.pprev[n]
  IN [first |-> IF pprev \in Bucket THEN [h.first EXCEPT ![pprev] = next] ELSE h.first,
      next  |-> IF pprev \in Entry THEN [h.next EXCEPT ![pprev] = next] ELSE h.next,
      pprev |-> IF next = Null THEN h.pprev ELSE [h.pprev EXCEPT ![next] = pprev]]

INIT_HLIST_NODE(h, n) ==
  [h EXCEPT !.next = [@ EXCEPT ![n] = Null], !.pprev = [@ EXCEPT ![n] = Null]]

\* Mutant of hlist_del_init: the entry stays in its chain.
HlistDelInitStays(h, n) == INIT_HLIST_NODE(h, n)

hlist_del_init(h, n) ==
  IF hlist_unhashed(h, n) THEN h ELSE INIT_HLIST_NODE(__hlist_del(h, n), n)

\* What a loop over one bucket sees, up to the first entry of Stop.
hash_for_each_possible(h, b, Stop) == Loop(h.first[b], h.next, Stop)
-----------------------------------------------------------------------------
(* What the functions keep                                                  *)

\* S is the set of nodes of a list, the head among them: next and prev lead
\* from one to another and back.
Linked(l, S) ==
  /\ \A n \in S : l.next[n] \in S /\ l.prev[n] \in S
  /\ \A n \in S : l.prev[l.next[n]] = n /\ l.next[l.prev[n]] = n

\* S is the set of entries in a hash table: every pointer leads to one of them
\* and each knows the one pointer that leads to it.
Hashed(h, S) ==
  /\ \A b \in Bucket : h.first[b] # Null => h.first[b] \in S /\ h.pprev[h.first[b]] = b
  /\ \A e \in S : h.next[e] # Null => h.next[e] \in S /\ h.pprev[h.next[e]] = e
  /\ \A e \in S :
       \/ h.pprev[e] \in Bucket /\ h.first[h.pprev[e]] = e
       \/ h.pprev[e] \in S /\ h.next[h.pprev[e]] = e
=============================================================================
