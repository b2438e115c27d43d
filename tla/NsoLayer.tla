------------------------------ MODULE NsoLayer ------------------------------
(***************************************************************************)
(* The threads of a device's NSO layer (nso/src/nso_lib/nso.c) and those of *)
(* the application that call it: the tx thread that registers and then     *)
(* reports, the rx threads that connect the device and queue data packets, *)
(* the callers of nso_layer_send and nso_layer_recv that wait for both.    *)
(*                                                                         *)
(* state_lock with state_signal guards `state', data_lock with data_signal *)
(* guards `pq'.  A critical section is one step; a thread that waits on a  *)
(* condition variable is in a waiting place of `pc' and a broadcast moves  *)
(* it to the place where it has the mutex again and looks once more.       *)
(***************************************************************************)
EXTENDS Naturals, Sequences

CONSTANTS
  Receiver,  \* application threads that call nso_layer_recv
  Sender,    \* application threads that call nso_layer_send
  Tx,        \* the tx thread
  Packet,    \* data packets
  None,      \* no packet
  MaxQueue   \* bound: packets queued (the code has none)

ASSUME ThreadAssumption ==
  /\ Receiver \cap Sender = {} /\ Tx \notin Receiver \cup Sender
  /\ None \notin Packet
  /\ MaxQueue \in Nat

VARIABLES
  state,  \* nso_layer.dev_state
  asked,  \* a beacon has been broadcast, so a reply may come
  pq,     \* nso_layer.data_pq
  pc,     \* where each thread is
  got     \* the packet each receiver was last handed

vars == <<state, asked, pq, pc, got>>

App == Receiver \cup Sender

Init ==
  /\ state = "unreg" /\ asked = FALSE /\ pq = <<>>
  /\ pc = [t \in App \cup {Tx} |-> IF t = Tx THEN "test" ELSE "idle"]
  /\ got = [r \in Receiver |-> None]

AppPlace == {"idle", "gate", "gateWait", "get", "getWait"}
TxPlace  == {"test", "beacon", "lock", "timedWait", "report"}

TypeOK ==
  /\ state \in {"unreg", "connected"} /\ asked \in BOOLEAN
  /\ pq \in Seq(Packet)
  /\ pc \in [App \cup {Tx} -> AppPlace \cup TxPlace]
  /\ pc[Tx] \in TxPlace /\ \A t \in App : pc[t] \in AppPlace
  /\ got \in [Receiver -> Packet \cup {None}]

\* pthread_cond_broadcast, on data_signal and on state_signal: whoever waits
\* goes on to look again.
WakeData == [t \in App \cup {Tx} |-> IF pc[t] = "getWait" THEN "get" ELSE pc[t]]
WakeState ==
  [t \in App \cup {Tx} |-> IF pc[t] = "gateWait" THEN "gate"
                           ELSE IF pc[t] = "timedWait" THEN "test" ELSE pc[t]]
-----------------------------------------------------------------------------
(* nso_layer_send and nso_layer_recv                                        *)

Call(t) ==
  /\ t \in App /\ pc[t] = "idle"
  /\ pc' = [pc EXCEPT ![t] = "gate"]
  /\ UNCHANGED <<state, asked, pq, got>>

\* Both wait until the device is connected.  A sender then forwards its
\* packet and is done, a receiver goes for the queue.
Gate(t) ==
  /\ t \in App /\ pc[t] = "gate"
  /\ pc' = [pc EXCEPT ![t] = IF state # "connected" THEN "gateWait"
                             ELSE IF t \in Receiver THEN "get" ELSE "idle"]
  /\ UNCHANGED <<state, asked, pq, got>>

\* Mutant of Get: the queue is not looked at again after the wait.
GetUnchecked(r) ==
  /\ r \in Receiver /\ pc[r] = "get"
  /\ got' = [got EXCEPT ![r] = IF pq = <<>> THEN None ELSE Head(pq)]
  /\ pq' = IF pq = <<>> THEN pq ELSE Tail(pq)
  /\ pc' = [pc EXCEPT ![r] = "idle"]
  /\ UNCHANGED <<state, asked>>

\* With data_lock: wait while the queue is empty, then take its first packet.
Get(r) ==
  /\ r \in Receiver /\ pc[r] = "get"
  /\ \/ /\ pq = <<>>
        /\ pc' = [pc EXCEPT ![r] = "getWait"]
        /\ UNCHANGED <<pq, got>>
     \/ /\ pq # <<>>
        /\ got' = [got EXCEPT ![r] = Head(pq)]
        /\ pq' = Tail(pq)
        /\ pc' = [pc EXCEPT ![r] = "idle"]
  /\ UNCHANGED <<state, asked>>

\* A condition variable may also wake a thread for no reason.
Spurious(t) ==
  /\ t \in App /\ pc[t] \in {"gateWait", "getWait"}
  /\ pc' = [pc EXCEPT ![t] = IF pc[t] = "gateWait" THEN "gate" ELSE "get"]
  /\ UNCHANGED <<state, asked, pq, got>>
-----------------------------------------------------------------------------
(* The tx thread                                                            *)

\* With state_lock: connected or not.
TxTest ==
  /\ pc[Tx] = "test"
  /\ pc' = [pc EXCEPT ![Tx] = IF state = "unreg" THEN "beacon" ELSE "report"]
  /\ UNCHANGED <<state, asked, pq, got>>

\* Without it: broadcast a beacon.
TxBeacon ==
  /\ pc[Tx] = "beacon"
  /\ asked' = TRUE
  /\ pc' = [pc EXCEPT ![Tx] = "lock"]
  /\ UNCHANGED <<state, pq, got>>

\* Lock again and wait, without another look at the state: a reply that came
\* in between has signalled nobody.
TxWait ==
  /\ pc[Tx] = "lock"
  /\ pc' = [pc EXCEPT ![Tx] = "timedWait"]
  /\ UNCHANGED <<state, asked, pq, got>>

\* Mutant of TxTimeout: pthread_cond_wait in the place of the timed wait.
TxTimeoutNever == FALSE /\ UNCHANGED vars

TxTimeout ==
  /\ pc[Tx] = "timedWait"
  /\ pc' = [pc EXCEPT ![Tx] = "test"]
  /\ UNCHANGED <<state, asked, pq, got>>
-----------------------------------------------------------------------------
(* The rx threads                                                           *)

\* Mutants of AcceptReply: one waiting thread is signalled, whichever it is;
\* the state is set to registered, not connected, as the copy in bs/ does.
AcceptReplySignalsOne ==
  /\ asked /\ state = "unreg"
  /\ state' = "connected"
  /\ \/ \E t \in App \cup {Tx} :
          pc[t] \in {"gateWait", "timedWait"} /\ pc' = [pc EXCEPT ![t] = WakeState[t]]
     \/ (\A t \in App \cup {Tx} : pc[t] \notin {"gateWait", "timedWait"}) /\ pc' = pc
  /\ UNCHANGED <<asked, pq, got>>

AcceptReplyRegisters ==
  /\ asked /\ state = "unreg"
  /\ state' = "registered"
  /\ pc' = WakeState
  /\ UNCHANGED <<asked, pq, got>>

\* __process_reg_reply: connected from now on; a later reply is dropped.
AcceptReply ==
  /\ asked /\ state = "unreg"
  /\ state' = "connected"
  /\ pc' = WakeState
  /\ UNCHANGED <<asked, pq, got>>

\* Mutant of Deliver: one waiting receiver is signalled.
DeliverSignalsOne(p) ==
  /\ state = "connected" /\ Len(pq) < MaxQueue
  /\ pq' = Append(pq, p)
  /\ \/ /\ pq = <<>>
        /\ \E r \in Receiver : pc[r] = "getWait" /\ pc' = [pc EXCEPT ![r] = "get"]
     \/ /\ pq # <<>> \/ \A r \in Receiver : pc[r] # "getWait"
        /\ pc' = pc
  /\ UNCHANGED <<state, asked, got>>

\* data_process_rx: queue the packet; signal only if the queue was empty.
Deliver(p) ==
  /\ state = "connected" /\ Len(pq) < MaxQueue
  /\ pq' = Append(pq, p)
  /\ pc' = IF pq = <<>> THEN WakeData ELSE pc
  /\ UNCHANGED <<state, asked, got>>
-----------------------------------------------------------------------------
AppStep(t) == Call(t) \/ Gate(t) \/ Get(t) \/ Spurious(t)

Next ==
  \/ \E t \in App : AppStep(t)
  \/ TxTest \/ TxBeacon \/ TxWait \/ TxTimeout
  \/ AcceptReply
  \/ \E p \in Packet : Deliver(p)

Spec == Init /\ [][Next]_vars

\* The tx thread is scheduled and its timed wait ends.
FairSpec == Spec /\ WF_vars(TxTest) /\ WF_vars(TxBeacon) /\ WF_vars(TxWait)
                 /\ WF_vars(TxTimeout)
-----------------------------------------------------------------------------
(* Properties                                                               *)

\* No receiver sleeps while there is a packet for it: rx threads signal only
\* an empty queue's first packet, and wake every sleeper when they do.
NoLostWakeup == pq # <<>> => \A r \in Receiver : pc[r] # "getWait"

\* Once the device is connected no caller of nso_layer_send or nso_layer_recv
\* sleeps until it is, for nothing would wake it.
GateOpens == state = "connected" => \A t \in App : pc[t] # "gateWait"

\* Packets reach the application once each, in order, after the connection.
MB == INSTANCE Mailbox WITH open <- (state = "connected"), box <- pq
ImplementsMailbox == MB!Spec

\* The tx thread of a connected device comes to report, though the signal of
\* the connection may have come when it was not waiting.
ConnectedReports == state = "connected" ~> pc[Tx] = "report"
=============================================================================
