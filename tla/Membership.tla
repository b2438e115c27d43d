----------------------------- MODULE Membership -----------------------------
(***************************************************************************)
(* What the vSON topology service promises about who is in the network,    *)
(* with no graph, lock, cache or thread: a node is admitted once, every    *)
(* report renews it, the operator may withdraw it at any time, and it      *)
(* expires only when a whole monitor period has passed between the tick    *)
(* that found it silent and the tick that found it silent again.  A node   *)
(* that is gone is marked with who removed it, so that an expiry cannot    *)
(* pass for a withdrawal.                                                  *)
(*                                                                         *)
(* TopologyGraph is shown to implement this module.                        *)
(***************************************************************************)
CONSTANT ID          \* the device and base-station identifiers

VARIABLE mark        \* mark[n]: what the service knows of n

\* "fresh": heard since the last tick; "stale": not heard since then;
\* "doomed": two ticks in a row found it silent; "absent": never admitted, or
\* withdrawn by the operator; "expired": removed by the monitor.
Known == {"fresh", "stale", "doomed"}

Init == mark = [n \in ID |-> "absent"]

Admit(n) == /\ mark[n] \notin Known
            /\ mark' = [mark EXCEPT ![n] = "fresh"]

Renew(n) == /\ mark[n] \in Known
            /\ mark' = [mark EXCEPT ![n] = "fresh"]

\* The operator may remove a node at any time.
Withdraw(n) == /\ mark[n] \in Known
               /\ mark' = [mark EXCEPT ![n] = "absent"]

Older(m) == IF m = "fresh" THEN "stale"
            ELSE IF m = "stale" THEN "doomed" ELSE m

\* One monitor tick ages every node by one period.
Tick == /\ \A n \in ID : mark[n] # "doomed"
        /\ mark' = [n \in ID |-> Older(mark[n])]

\* The monitor removes doomed nodes only.
Expire(n) == /\ mark[n] = "doomed"
             /\ mark' = [mark EXCEPT ![n] = "expired"]

Next == \/ Tick
        \/ \E n \in ID : Admit(n) \/ Renew(n) \/ Withdraw(n) \/ Expire(n)

Spec == Init /\ [][Next]_mark
=============================================================================
