--------------------------- MODULE MCBaseStation ---------------------------
EXTENDS BaseStation

CONSTANTS d1, d2, r1, r2

\* d1 is heard itself on both interfaces, and passes on the beacons of d2 on one.
MCHeard == {<<d1, d1, r1>>, <<d1, d1, r2>>, <<d2, d1, r2>>}

\* Data for d2 is overheard there, on its way through d1.
MCOverheard == {<<d2, r2>>}

\* Their routes are in one bucket.
MCBucket == [d \in {d1, d2} |-> 0]
=============================================================================
