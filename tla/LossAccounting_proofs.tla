------------------------ MODULE LossAccounting_proofs ------------------------
(***************************************************************************)
(* The power meter's accounting, for a counter of any width, any number of *)
(* packets and any network.                                                *)
(***************************************************************************)
EXTENDS LossAccounting, FiniteSetTheorems, TLAPS

\* The counter after one step: the wrap is the only exception.
LEMMA CounterStep ==
  ASSUME NEW n \in 0..(SeqMod - 1)
  PROVE  /\ (n + 1) % SeqMod = (IF n + 1 = SeqMod THEN 0 ELSE n + 1)
         /\ (n + 1) % SeqMod \in 0..(SeqMod - 1)
<1>1. SeqMod \in Nat \ {0}
  BY MeterAssumption
<1>2. CASE n + 1 = SeqMod
  <2>1. SeqMod % SeqMod = 0
    BY <1>1
  <2> QED BY <1>1, <1>2, <2>1
<1>3. CASE n + 1 # SeqMod
  <2>1. n + 1 \in 0..(SeqMod - 1)
    BY <1>1, <1>3
  <2>2. \A k \in 0..(SeqMod - 1) : k % SeqMod = k
    BY <1>1
  <2> QED BY <1>3, <2>1, <2>2
<1> QED BY <1>2, <1>3

-----------------------------------------------------------------------------
(* Counting                                                                 *)

\* What the counters say while the handler runs.
Counted ==
  /\ seq \in Nat /\ losses \subseteq 0..(seq - 1)
  /\ lost \in Nat /\ received \in Nat /\ disordered \in Nat
  /\ lost = Cardinality(losses)
  /\ received + lost = seq

\* The list of losses is finite.
LEMMA LossesFinite == ASSUME Counted PROVE IsFiniteSet(losses)
<1>1. IsFiniteSet(0..(seq - 1))
  BY FS_Interval DEF Counted
<1> QED BY <1>1, FS_Subset DEF Counted

\* A gap adds as many losses as it moves the expected number, less the packet.
LEMMA GapCounts ==
  ASSUME Counted, NEW n \in Nat, Gap(n), received' = received + 1
  PROVE  Counted' /\ seq' > 0
<1> DEFINE New == seq..(n - 1)
<1>1. seq \in Nat /\ n > seq /\ IsFiniteSet(losses)
  BY LossesFinite DEF Counted, Gap
<1>2. losses' = losses \cup New /\ seq' = n + 1 /\ lost' = Cardinality(losses')
  BY DEF Gap
<1>3. IsFiniteSet(New) /\ Cardinality(New) = n - seq
  <2>1. seq \in Int /\ n - 1 \in Int
    BY <1>1
  <2>2. IsFiniteSet(New) /\ Cardinality(New) = IF seq > n - 1 THEN 0 ELSE (n - 1) - seq + 1
    BY <2>1, FS_Interval
  <2> QED BY <1>1, <2>2
<1>4. losses \cap New = {}
  BY <1>1 DEF Counted
<1>5. Cardinality(losses') = Cardinality(losses) + Cardinality(New)
  <2>1. Cardinality(losses \cup New)
        = Cardinality(losses) + Cardinality(New) - Cardinality(losses \cap New)
    BY <1>1, <1>3, FS_Union
  <2>2. Cardinality(losses \cap New) = 0
    BY <1>4, FS_EmptySet
  <2>3. Cardinality(losses) \in Nat /\ Cardinality(New) \in Nat
    BY <1>1, <1>3, FS_CardinalityType
  <2> QED BY <1>2, <2>1, <2>2, <2>3
<1>6. lost' = lost + (n - seq)
  BY <1>2, <1>3, <1>5 DEF Counted
<1>7. losses' \subseteq 0..(seq' - 1)
  BY <1>1, <1>2 DEF Counted
<1>8. received + lost = seq /\ lost \in Nat /\ received \in Nat
  BY DEF Counted
<1>9. lost' \in Nat /\ received' \in Nat /\ seq' \in Nat /\ received' + lost' = seq' /\ seq' > 0
  BY <1>1, <1>2, <1>6, <1>8
<1>10. disordered' \in Nat
  BY DEF Gap, Counted
<1> QED BY <1>2, <1>7, <1>9, <1>10 DEF Counted

\* A late packet moves from the losses to the received.
LEMMA LateCounts ==
  ASSUME Counted, NEW n \in Nat, Late(n), received' = received + 1
  PROVE  Counted' /\ seq' > 0
<1>1. /\ n < seq /\ n \in losses /\ losses' = losses \ {n}
      /\ lost' = lost - 1 /\ disordered' = disordered + 1 /\ seq' = seq
  BY DEF Late
<1>2. Cardinality(losses') = Cardinality(losses) - 1
  BY <1>1, LossesFinite, FS_RemoveElement
<1>3. Cardinality(losses') \in Nat
  BY <1>1, LossesFinite, FS_RemoveElement, FS_CardinalityType
<1>4. /\ seq \in Nat /\ lost \in Nat /\ received \in Nat /\ disordered \in Nat
      /\ received + lost = seq /\ lost = Cardinality(losses)
  BY DEF Counted
<1>5. losses' \subseteq 0..(seq' - 1)
  BY <1>1 DEF Counted
<1>6. lost' \in Nat /\ lost' = Cardinality(losses')
  BY <1>1, <1>2, <1>3, <1>4
<1>7. received' \in Nat /\ seq' \in Nat /\ disordered' \in Nat /\ received' + lost' = seq' /\ seq' > 0
  BY <1>1, <1>4
<1> QED BY <1>5, <1>6, <1>7 DEF Counted

\* The expected packet is received.
LEMMA ExpectedCounts ==
  ASSUME Counted, NEW n \in Nat, Expected(n), received' = received + 1
  PROVE  Counted' /\ seq' > 0
<1>1. /\ seq' = seq + 1 /\ losses' = losses /\ lost' = lost /\ disordered' = disordered
      /\ seq \in Nat /\ lost \in Nat /\ received \in Nat /\ disordered \in Nat
      /\ received + lost = seq /\ lost = Cardinality(losses) /\ losses \subseteq 0..(seq - 1)
  BY DEF Expected, Counted
<1>2. received' + lost' = seq' /\ seq' \in Nat /\ seq' > 0 /\ received' \in Nat
  BY <1>1
<1>3. losses' \subseteq 0..(seq' - 1)
  BY <1>1
<1> QED BY <1>1, <1>2, <1>3 DEF Counted

-----------------------------------------------------------------------------
(* The invariant                                                            *)

\* What arrived has a number below the expected one.
ArrivedBelow == open => \A p \in arrived : p.seq < seq

\* In one round a packet's number tells which packet it is.
NumbersAreIds ==
  OneRound => /\ next = IF sent = SeqMod THEN 0 ELSE sent
              /\ \A p \in network \cup arrived : p.seq = p.id - 1

Inv ==
  /\ TypeOK
  /\ open => Counted
  /\ received > 0 => seq > 0
  /\ ArrivedBelow
  /\ LossesAreMissing
  /\ NumbersAreIds
  /\ EndsOnlyOnRepeat

\* The parts that only the counters and the arrived packets are part of.
LEMMA QuietStep ==
  ASSUME Inv, TypeOK', UNCHANGED <<open, counts, history, faults>>,
         OneRound' => OneRound, NumbersAreIds'
  PROVE  Inv'
<1>1. /\ open => Counted'
      /\ received' > 0 => seq' > 0
  BY DEF Inv, counts, Counted
<1>2. ArrivedBelow' /\ LossesAreMissing'
  BY DEF Inv, counts, history, ArrivedBelow, LossesAreMissing
<1>3. EndsOnlyOnRepeat'
  BY DEF Inv, history, EndsOnlyOnRepeat
<1> QED BY <1>1, <1>2, <1>3 DEF Inv

\* A packet sent carries its number, the counter goes on.
LEMMA SendStep == ASSUME Inv, Send PROVE Inv'
<1>1. /\ sent < MaxSent /\ sent' = sent + 1 /\ next' = (next + 1) % SeqMod
      /\ network' = network \cup {[id |-> sent + 1, seq |-> next]}
      /\ UNCHANGED <<restarts, open, counts, history, faults>>
  BY DEF Send
<1>2. next' \in 0..(SeqMod - 1) /\ sent' \in 1..MaxSent
  BY <1>1, CounterStep, MeterAssumption DEF Inv, TypeOK
<1>3. [id |-> sent + 1, seq |-> next] \in Packet
  BY <1>1, <1>2 DEF Inv, TypeOK, Packet
<1>4. TypeOK'
  BY <1>1, <1>2, <1>3 DEF Inv, TypeOK, counts, history
<1>5. ASSUME OneRound' PROVE OneRound /\ next = sent /\ sent < SeqMod
  BY <1>1, <1>5, MeterAssumption DEF Inv, TypeOK, OneRound, NumbersAreIds
<1>6. ASSUME OneRound'
      PROVE  next' = IF sent' = SeqMod THEN 0 ELSE sent'
  BY <1>1, <1>5, <1>6, CounterStep DEF Inv, TypeOK
<1>7. ASSUME OneRound', NEW p \in network' \cup arrived' PROVE p.seq = p.id - 1
  <2>1. CASE p \in network \cup arrived
    BY <1>5, <1>7, <2>1 DEF Inv, NumbersAreIds
  <2>2. CASE p = [id |-> sent + 1, seq |-> next]
    <3>1. p.seq = sent /\ p.id = sent + 1
      BY <1>5, <1>7, <2>2
    <3> QED BY <3>1 DEF Inv, TypeOK
  <2> QED BY <1>1, <1>7, <2>1, <2>2 DEF history
<1>8. NumbersAreIds'
  BY <1>6, <1>7 DEF NumbersAreIds
<1> QED BY <1>1, <1>4, <1>5, <1>8, QuietStep

\* A number read while the handler runs, with the request that follows.
LEMMA ReceiveStep == ASSUME Inv, NEW p \in network, Receive(p) PROVE Inv'
<1>1. /\ open /\ arrived' = arrived \cup {p} /\ received' = received + 1
      /\ network' \subseteq network /\ UNCHANGED device
      /\ repeated' = (repeated \/ p \in arrived)
  BY DEF Receive
<1>2. p \in Packet /\ p.seq \in Nat /\ Counted /\ seq \in Nat /\ received \in Nat /\ disordered \in Nat
  BY <1>1, MeterAssumption DEF Inv, TypeOK, Packet
<1>3. NumbersAreIds' /\ (OneRound' <=> OneRound)
  BY <1>1 DEF Inv, NumbersAreIds, OneRound, device
<1>4. /\ network' \subseteq Packet /\ arrived' \subseteq Packet /\ repeated' \in BOOLEAN
      /\ next' \in 0..(SeqMod - 1) /\ sent' \in 0..MaxSent /\ restarts' \in 0..MaxRestarts
  BY <1>1, <1>2 DEF Inv, TypeOK, device
<1>5. CASE (Gap(p.seq) \/ Late(p.seq) \/ Expected(p.seq)) /\ Report
  <2>1. Counted' /\ seq' > 0
    BY <1>1, <1>2, <1>5, GapCounts, LateCounts, ExpectedCounts
  <2>2. open' \in BOOLEAN /\ faults' \in 0..MaxFaults /\ (open' \/ faults' > 0)
    <3>1. CASE UNCHANGED <<open, faults>>
      BY <1>1, <3>1 DEF Inv, TypeOK
    <3>2. CASE faults < MaxFaults /\ faults' = faults + 1 /\ open' = FALSE
      <4>1. faults' \in 0..MaxFaults /\ faults' > 0
        BY <3>2, MeterAssumption DEF Inv, TypeOK
      <4> QED BY <3>2, <4>1
    <3> QED BY <1>5, <3>1, <3>2 DEF Report
  <2>3. TypeOK'
    BY <1>4, <2>1, <2>2 DEF TypeOK, Counted
  <2>4. EndsOnlyOnRepeat'
    BY <2>2 DEF EndsOnlyOnRepeat
  <2>5. /\ \A q \in arrived : q.seq < seq /\ q.seq \in Nat
        /\ losses = {n \in 0..(seq - 1) : \A q \in arrived : q.seq # n}
    BY <1>1 DEF Inv, ArrivedBelow, LossesAreMissing, TypeOK, Packet
  <2>6. CASE Gap(p.seq)
    <3>1. p.seq > seq /\ seq' = p.seq + 1 /\ losses' = losses \cup seq..(p.seq - 1)
      BY <2>6 DEF Gap
    <3>2. \A q \in arrived' : q.seq < seq'
      BY <1>1, <1>2, <2>5, <3>1
    <3>3. losses' = {n \in 0..(seq' - 1) : \A q \in arrived' : q.seq # n}
      BY <1>1, <1>2, <2>5, <3>1
    <3> QED BY <1>3, <2>1, <2>3, <2>4, <3>2, <3>3 DEF Inv, ArrivedBelow, LossesAreMissing
  <2>7. CASE Late(p.seq)
    <3>1. p.seq < seq /\ seq' = seq /\ losses' = losses \ {p.seq}
      BY <2>7 DEF Late
    <3>2. \A q \in arrived' : q.seq < seq'
      BY <1>1, <2>5, <3>1
    <3>3. losses' = {n \in 0..(seq' - 1) : \A q \in arrived' : q.seq # n}
      BY <1>1, <1>2, <2>5, <3>1
    <3> QED BY <1>3, <2>1, <2>3, <2>4, <3>2, <3>3 DEF Inv, ArrivedBelow, LossesAreMissing
  <2>8. CASE Expected(p.seq)
    <3>1. p.seq = seq /\ seq' = p.seq + 1 /\ losses' = losses
      BY <2>8 DEF Expected
    <3>2. \A q \in arrived' : q.seq < seq'
      BY <1>1, <1>2, <2>5, <3>1
    <3>3. losses' = {n \in 0..(seq' - 1) : \A q \in arrived' : q.seq # n}
      BY <1>1, <1>2, <2>5, <3>1
    <3> QED BY <1>3, <2>1, <2>3, <2>4, <3>2, <3>3 DEF Inv, ArrivedBelow, LossesAreMissing
  <2> QED BY <1>5, <2>6, <2>7, <2>8
<1>6. CASE Unlisted(p.seq) /\ open' = FALSE /\ UNCHANGED faults
  <2>1. /\ p.seq < seq /\ p.seq \notin losses /\ disordered' = disordered + 1
        /\ UNCHANGED <<seq, losses, lost>>
    BY <1>6 DEF Unlisted
  <2>2. TypeOK'
    <3>1. /\ seq' \in Nat /\ losses' \subseteq 0..(seq' - 1) /\ lost' \in Nat
          /\ received' \in Nat /\ disordered' \in Nat
      BY <1>1, <1>2, <2>1 DEF Counted
    <3>2. open' \in BOOLEAN /\ faults' \in 0..MaxFaults
      BY <1>6 DEF Inv, TypeOK
    <3> QED BY <1>4, <3>1, <3>2 DEF TypeOK
  <2>3. seq' > 0
    BY <1>2, <2>1
  <2>4. ASSUME OneRound PROVE p \in arrived
    <3>1. PICK q \in arrived : q.seq = p.seq
      BY <1>1, <1>2, <2>1 DEF Inv, LossesAreMissing
    <3>2. q \in Packet /\ q.seq = q.id - 1 /\ p.seq = p.id - 1
      BY <2>4 DEF Inv, NumbersAreIds, TypeOK
    <3>3. q.id = p.id
      <4>1. q.id \in Int /\ p.id \in Int
        BY <1>2, <3>2 DEF Packet
      <4>2. q.id - 1 = p.id - 1
        BY <3>1, <3>2
      <4>3. \A i, j \in Int : i - 1 = j - 1 => i = j
        OBVIOUS
      <4> QED BY <4>1, <4>2, <4>3
    <3> QED BY <1>2, <3>1, <3>2, <3>3 DEF Packet
  <2>5. EndsOnlyOnRepeat'
    BY <1>1, <1>3, <2>4 DEF EndsOnlyOnRepeat
  <2> QED BY <1>3, <1>6, <2>2, <2>3, <2>5 DEF Inv, ArrivedBelow, LossesAreMissing
<1> QED BY <1>5, <1>6 DEF Receive

\* The invariant of the accounting.
LEMMA Invariant == Spec => []Inv
<1>1. Init => Inv
  <2> SUFFICES ASSUME Init PROVE Inv
    OBVIOUS
  <2>1. TypeOK /\ Counted
    <3>1. 0 \in 0..(SeqMod - 1) /\ 0 \in 0..MaxSent /\ 0 \in 0..MaxRestarts /\ 0 \in 0..MaxFaults
      BY MeterAssumption
    <3>2. Cardinality({}) = 0
      BY FS_EmptySet
    <3>3. Counted
      BY <3>2 DEF Init, Counted
    <3>4. open \in BOOLEAN /\ repeated \in BOOLEAN
      BY DEF Init
    <3> QED BY <3>1, <3>3, <3>4 DEF Init, TypeOK
  <2>2. ArrivedBelow /\ LossesAreMissing /\ EndsOnlyOnRepeat
    BY DEF Init, ArrivedBelow, LossesAreMissing, EndsOnlyOnRepeat
  <2>3. NumbersAreIds
    BY MeterAssumption DEF Init, NumbersAreIds, OneRound
  <2> QED BY <2>1, <2>2, <2>3 DEF Init, Inv
<1>2. Inv /\ [Next]_vars => Inv'
  <2> SUFFICES ASSUME Inv, [Next]_vars PROVE Inv'
    OBVIOUS
  <2>1. ASSUME Restart PROVE Inv'
    <3>1. /\ restarts < MaxRestarts /\ next' = 0 /\ restarts' = restarts + 1
          /\ UNCHANGED <<sent, network, open, counts, history, faults>>
      BY <2>1 DEF Restart
    <3>2. TypeOK'
      BY <3>1, MeterAssumption DEF Inv, TypeOK, counts, history
    <3>3. ~OneRound'
      BY <3>1 DEF Inv, TypeOK, OneRound
    <3> QED BY <3>1, <3>2, <3>3, QuietStep DEF NumbersAreIds
  <2>2. ASSUME NEW p \in network, Lose(p) PROVE Inv'
    <3>1. /\ network' \subseteq network
          /\ UNCHANGED <<device, open, counts, history, faults>>
      BY <2>2 DEF Lose
    <3>2. TypeOK'
      BY <3>1 DEF Inv, TypeOK, device, counts, history
    <3>3. (OneRound' => OneRound) /\ NumbersAreIds'
      BY <3>1 DEF Inv, NumbersAreIds, OneRound, device, history
    <3> QED BY <3>1, <3>2, <3>3, QuietStep
  <2>3. CASE UNCHANGED vars
    <3>1. TypeOK' /\ (OneRound' => OneRound) /\ NumbersAreIds'
      BY <2>3 DEF vars, Inv, TypeOK, NumbersAreIds, OneRound, device, counts, history
    <3> QED BY <2>3, <3>1, QuietStep DEF vars
  <2> QED BY <2>1, <2>2, <2>3, SendStep, ReceiveStep DEF Next
<1> QED BY <1>1, <1>2, PTL DEF Spec

-----------------------------------------------------------------------------
(* Theorems                                                                 *)

\* The counters and the packets under way are of their types; lost never
\* becomes negative.
THEOREM TypeCorrect == Spec => []TypeOK
<1>1. Inv => TypeOK
  BY DEF Inv
<1> QED BY <1>1, Invariant, PTL

\* While the service's handler runs, received and lost make up the expected
\* number, whatever the network repeats and wherever the counter starts again.
THEOREM NumbersAreCounted == Spec => []EveryNumberCounted
<1>1. Inv => EveryNumberCounted
  BY DEF Inv, Counted, EveryNumberCounted
<1> QED BY <1>1, Invariant, PTL

\* The list of losses is the set of numbers that have not arrived.
THEOREM LossesAreExact == Spec => []LossesAreMissing
<1>1. Inv => LossesAreMissing
  BY DEF Inv
<1> QED BY <1>1, Invariant, PTL

\* In one round of the counter, only a repeated packet or a failed request
\* ends the service's handler.
THEOREM HandlerEndsForAReason == Spec => []EndsOnlyOnRepeat
<1>1. Inv => EndsOnlyOnRepeat
  BY DEF Inv
<1> QED BY <1>1, Invariant, PTL
=============================================================================
