------------------------------ MODULE Mailbox ------------------------------
(***************************************************************************)
(* What nso_layer_recv promises the application: once the device is        *)
(* connected, every data packet for it is handed to one caller, once, in   *)
(* the order of arrival.                                                   *)
(***************************************************************************)
EXTENDS Sequences

CONSTANTS Receiver, Packet, None

VARIABLES
  open, \* the device is connected
  box,  \* packets that have arrived and have not been handed out
  got   \* the last packet each caller was handed

Open == ~open /\ open' = TRUE /\ UNCHANGED <<box, got>>

Put(p) == open /\ box' = Append(box, p) /\ UNCHANGED <<open, got>>

Take(r) ==
  /\ open /\ box # <<>>
  /\ got' = [got EXCEPT ![r] = Head(box)]
  /\ box' = Tail(box)
  /\ UNCHANGED open

Init == open = FALSE /\ box = <<>> /\ got = [r \in Receiver |-> None]

Next == Open \/ (\E p \in Packet : Put(p)) \/ (\E r \in Receiver : Take(r))

Spec == Init /\ [][Next]_<<open, box, got>>
=============================================================================
