--------------------------- MODULE MCRegistration ---------------------------
(* Registration on small networks. *)
EXTENDS Registration, TLC

CONSTANTS b1, b2, d1, d2, d3

Both(P) == P \cup {<<p[2], p[1]>> : p \in P}

\* b1 -- d1 -- d2
Line == Both({<<b1, d1>>, <<d1, d2>>})
\* b1 hears d1 and d2 only; d1, d2 and d3 hear one another; b2 hears d3 only
Diamond == Both({<<b1, d1>>, <<b1, d2>>, <<d1, d2>>, <<d1, d3>>, <<d2, d3>>, <<b2, d3>>})

TwoDevices == Permutations({d1, d2})

\* The nodes in joined have joined, each device over b1 directly, and what was
\* in the air is gone; those in off are off; the others start from nothing.
Start(joined, off) ==
  /\ state = [n \in Node |-> IF n \in off THEN "dead"
                             ELSE IF n \in joined THEN "connected" ELSE "unreg"]
  /\ gw = [n \in Node |-> IF n \notin joined THEN None ELSE IF n = b2 THEN b2 ELSE b1]
  /\ local = [n \in Node |-> [x \in Node |->
       IF {n, x} \subseteq joined \ {b2} /\ b1 \in {n, x} /\ n # x THEN x ELSE None]]
  /\ arp = [n \in Node |-> {x \in joined : {n, x} \subseteq joined \ {b2} /\ b1 \in {n, x} /\ n # x}]
  /\ air = {} /\ toVtsd = {} /\ fromVtsd = {}
  /\ known = joined /\ fresh = joined /\ approved = joined
  /\ leaked = {}

\* In the diamond: all of b1, one device that it hears, and d3 behind that one
\* have yet to join; or b1 has joined, and the two devices that it hears and
\* that hear each other have not; or only d3 has not, behind both, or between
\* one of them and b2, which has joined, too.
JoinInit ==
  \/ Start({}, {d1, b2}) \/ Start({}, {d2, b2})
  \/ Start({b1}, {d3, b2})
  \/ Start({b1, d1, d2}, {b2})
  \/ Start({b1, d1, b2}, {d2}) \/ Start({b1, d2, b2}, {d1})

JoinSpec == JoinInit /\ [][Next]_vars

\* d1 has joined, d2 is about to join over it.
LineSpec == Start({b1, d1}, {}) /\ [][Next]_vars /\ Fairness
=============================================================================
