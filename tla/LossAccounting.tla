--------------------------- MODULE LossAccounting ---------------------------
(***************************************************************************)
(* How the power meter's service (dptr/application/power_meter.py) counts  *)
(* what the network loses of a device's readings.  The device              *)
(* (app_example/power_meter/power_meter.c) numbers its packets with a      *)
(* counter of 16 bits that starts at 0 with the process; the network may   *)
(* lose, reorder and, as relays forward what they overhear, repeat them;   *)
(* the service notes gaps as losses and takes a late packet off the list.  *)
(*                                                                         *)
(* One device on one connection: every handler has its own counters.  The  *)
(* connection lives on when the device's process is started again, for the *)
(* translator keeps one per device.  A packet is one read at the service.  *)
(***************************************************************************)
EXTENDS Integers, FiniteSets

CONSTANTS
  SeqMod,      \* the counter's modulus, 2^16
  Repeats,     \* the network may deliver a packet more than once
  MaxSent,     \* bound: packets the device sends
  MaxRestarts, \* bound: restarts of its process
  MaxFaults    \* bound: requests the web server fails

ASSUME MeterAssumption ==
  /\ SeqMod \in Nat \ {0} /\ Repeats \in BOOLEAN
  /\ MaxSent \in Nat /\ MaxRestarts \in Nat /\ MaxFaults \in Nat

VARIABLES
  next,       \* the device's seq: the number of its next packet
  sent,       \* how many it has sent in all
  restarts,   \* how often its process has started anew
  network,    \* packets under way: the how-many-th, and its number
  open,       \* the service's handler is running
  seq,        \* self.seq, "the next expected sequence number"
  losses,     \* self.losses, a list without repetitions
  lost,       \* self.lost
  received,   \* self.received
  disordered, \* self.disordered
  arrived,    \* history: the packets the handler has read
  repeated,   \* history: it has read one of them twice
  faults      \* requests that have failed

device  == <<next, sent, restarts>>
counts  == <<seq, losses, lost, received, disordered>>
history == <<arrived, repeated>>
vars    == <<device, network, open, counts, history, faults>>

Packet == [id : 1..MaxSent, seq : 0..(SeqMod - 1)]

Init ==
  /\ next = 0 /\ sent = 0 /\ restarts = 0 /\ network = {}
  /\ open = TRUE
  /\ seq = 0 /\ losses = {} /\ lost = 0 /\ received = 0 /\ disordered = 0
  /\ arrived = {} /\ repeated = FALSE /\ faults = 0

TypeOK ==
  /\ next \in 0..(SeqMod - 1) /\ sent \in 0..MaxSent /\ restarts \in 0..MaxRestarts
  /\ network \subseteq Packet /\ arrived \subseteq Packet
  /\ open \in BOOLEAN /\ repeated \in BOOLEAN /\ faults \in 0..MaxFaults
  /\ seq \in Nat /\ losses \subseteq 0..(seq - 1)
  /\ lost \in Nat /\ received \in Nat /\ disordered \in Nat
-----------------------------------------------------------------------------
(* The device and the network                                               *)

\* __app_tx: number a packet and hand it to the NSO layer.
Send ==
  /\ sent < MaxSent
  /\ network' = network \cup {[id |-> sent + 1, seq |-> next]}
  /\ next' = (next + 1) % SeqMod
  /\ sent' = sent + 1
  /\ UNCHANGED <<restarts, open, counts, history, faults>>

\* The process ends and starts again: the usage is kept in a file, the counter
\* is not.
Restart ==
  /\ restarts < MaxRestarts
  /\ next' = 0
  /\ restarts' = restarts + 1
  /\ UNCHANGED <<sent, network, open, counts, history, faults>>

Lose(p) ==
  /\ p \in network
  /\ network' = network \ {p}
  /\ UNCHANGED <<device, open, counts, history, faults>>
-----------------------------------------------------------------------------
(* The service                                                              *)

\* Mutant of Gap: the expected number itself is left off the list.
GapShort(n) ==
  /\ n > seq
  /\ losses' = losses \cup (seq + 1)..(n - 1)
  /\ lost' = Cardinality(losses')
  /\ seq' = n + 1
  /\ UNCHANGED disordered

\* A number beyond the expected one: those between are lost for now.
Gap(n) ==
  /\ n > seq
  /\ losses' = losses \cup seq..(n - 1)
  /\ lost' = Cardinality(losses')
  /\ seq' = n + 1
  /\ UNCHANGED disordered

\* Mutant of Late: the packet stays on the list.
LateStays(n) ==
  /\ n < seq /\ n \in losses
  /\ lost' = lost - 1
  /\ disordered' = disordered + 1
  /\ UNCHANGED <<seq, losses>>

\* A number before it, from the list: it was not lost but late.
Late(n) ==
  /\ n < seq /\ n \in losses
  /\ losses' = losses \ {n}
  /\ lost' = lost - 1
  /\ disordered' = disordered + 1
  /\ UNCHANGED seq

\* Mutant of Expected: the counter stays, so the next packet makes a gap.
ExpectedStays(n) ==
  /\ n = seq
  /\ UNCHANGED <<seq, losses, lost, disordered>>

Expected(n) ==
  /\ n = seq
  /\ seq' = n + 1
  /\ UNCHANGED <<losses, lost, disordered>>

\* list.remove raises ValueError on a number that is not on the list.
Unlisted(n) ==
  /\ n < seq /\ n \notin losses
  /\ disordered' = disordered + 1
  /\ UNCHANGED <<seq, losses, lost>>

\* The request to the web server with the reading and the loss rate: if it
\* fails, the exception ends the handler.
Report ==
  \/ UNCHANGED <<open, faults>>
  \/ faults < MaxFaults /\ faults' = faults + 1 /\ open' = FALSE

\* __tx_data_to_webserver and the loop around it: any exception ends it.
Receive(p) ==
  /\ open /\ p \in network
  /\ network' \in IF Repeats THEN {network, network \ {p}} ELSE {network \ {p}}
  /\ arrived' = arrived \cup {p}
  /\ repeated' = (repeated \/ p \in arrived)
  /\ received' = received + 1
  /\ \/ (Gap(p.seq) \/ Late(p.seq) \/ Expected(p.seq)) /\ Report
     \/ Unlisted(p.seq) /\ open' = FALSE /\ UNCHANGED faults
  /\ UNCHANGED device

Next == Send \/ Restart \/ \E p \in network : Lose(p) \/ Receive(p)

Spec == Init /\ [][Next]_vars
-----------------------------------------------------------------------------
(* Properties                                                               *)

\* While the handler runs, every number below the expected one is counted
\* either as received or as lost, through gaps, late packets, repetitions,
\* restarts and the wrap of the counter.  So the loss rate it reports, lost /
\* seq, is one: neither negative nor above 1, and never a division by zero.
EveryNumberCounted ==
  /\ open => received + lost = seq /\ lost = Cardinality(losses)
  /\ received > 0 => seq > 0

\* The numbers counted as lost are those below the expected one with which no
\* packet has arrived.
LossesAreMissing ==
  open => losses = {n \in 0..(seq - 1) : \A p \in arrived : p.seq # n}

\* One process that has not used up its numbers.
OneRound == restarts = 0 /\ sent <= SeqMod

\* The handler gives the device up only for a failed request, a packet that
\* came twice, or a counter that began again.
EndsOnlyOnRepeat == open \/ repeated \/ faults > 0 \/ ~OneRound
=============================================================================
