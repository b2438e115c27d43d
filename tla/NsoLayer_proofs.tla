--------------------------- MODULE NsoLayer_proofs ---------------------------
(***************************************************************************)
(* Proofs about NsoLayer, for any number of application threads, and about *)
(* PacketBuffer, for any headroom, MTU and number of interfaces.           *)
(***************************************************************************)
EXTENDS NsoLayer, PacketBuffer, SequenceTheorems, TLAPS

\* A broadcast moves every thread to a place of its own kind.
LEMMA WakeType ==
  ASSUME TypeOK
  PROVE  /\ WakeData \in [App \cup {Tx} -> AppPlace \cup TxPlace]
         /\ WakeData[Tx] \in TxPlace /\ \A t \in App : WakeData[t] \in AppPlace
         /\ WakeState \in [App \cup {Tx} -> AppPlace \cup TxPlace]
         /\ WakeState[Tx] \in TxPlace /\ \A t \in App : WakeState[t] \in AppPlace
BY DEF TypeOK, WakeData, WakeState, AppPlace, TxPlace

\* A thread that goes to a place of its own kind leaves the types intact.
LEMMA MoveType ==
  ASSUME TypeOK, NEW t \in App \cup {Tx}, NEW to,
         t = Tx => to \in TxPlace, t # Tx => to \in AppPlace
  PROVE  LET npc == [pc EXCEPT ![t] = to]
         IN  /\ npc \in [App \cup {Tx} -> AppPlace \cup TxPlace]
             /\ npc[Tx] \in TxPlace /\ \A u \in App : npc[u] \in AppPlace
BY ThreadAssumption DEF TypeOK, App

\* Places, queue and buffers keep their types, step by step.
LEMMA TypeStep == TypeOK /\ [Next]_vars => TypeOK'
<1> SUFFICES ASSUME TypeOK, [Next]_vars PROVE TypeOK'
  OBVIOUS
<1>0. \A t \in App : t # Tx
  BY ThreadAssumption DEF App
<1>1. ASSUME NEW t \in App, Call(t) PROVE TypeOK'
  BY <1>0, <1>1, MoveType DEF Call, TypeOK, AppPlace
<1>2. ASSUME NEW t \in App, Gate(t) PROVE TypeOK'
  <2>1. PICK to \in AppPlace : pc' = [pc EXCEPT ![t] = to]
    BY <1>2 DEF Gate, AppPlace
  <2> QED BY <1>0, <1>2, <2>1, MoveType DEF Gate, TypeOK
<1>3. ASSUME NEW t \in App, Get(t) PROVE TypeOK'
  <2>1. PICK to \in AppPlace : pc' = [pc EXCEPT ![t] = to]
    BY <1>3 DEF Get, AppPlace
  <2>2. /\ pc' \in [App \cup {Tx} -> AppPlace \cup TxPlace]
        /\ pc'[Tx] \in TxPlace /\ \A u \in App : pc'[u] \in AppPlace
    BY <1>0, <2>1, MoveType
  <2>3. CASE pq = <<>> /\ UNCHANGED <<pq, got>>
    BY <1>3, <2>2, <2>3 DEF Get, TypeOK
  <2>4. CASE pq # <<>> /\ pq' = Tail(pq) /\ got' = [got EXCEPT ![t] = Head(pq)]
    <3>1. Head(pq) \in Packet /\ Tail(pq) \in Seq(Packet)
      BY <2>4, HeadTailProperties DEF TypeOK
    <3> QED BY <1>3, <2>2, <2>4, <3>1 DEF Get, TypeOK
  <2> QED BY <1>3, <2>3, <2>4 DEF Get
<1>4. ASSUME NEW t \in App, Spurious(t) PROVE TypeOK'
  <2>1. PICK to \in AppPlace : pc' = [pc EXCEPT ![t] = to]
    BY <1>4 DEF Spurious, AppPlace
  <2> QED BY <1>0, <1>4, <2>1, MoveType DEF Spurious, TypeOK
<1>5. CASE TxTest
  <2>1. PICK to \in TxPlace : pc' = [pc EXCEPT ![Tx] = to]
    BY <1>5 DEF TxTest, TxPlace
  <2> QED BY <1>5, <2>1, MoveType DEF TxTest, TypeOK
<1>6. CASE TxBeacon
  BY <1>6, MoveType DEF TxBeacon, TypeOK, TxPlace
<1>7. CASE TxWait \/ TxTimeout
  BY <1>7, MoveType DEF TxWait, TxTimeout, TypeOK, TxPlace
<1>8. CASE AcceptReply
  BY <1>8, WakeType DEF AcceptReply, TypeOK
<1>9. ASSUME NEW p \in Packet, Deliver(p) PROVE TypeOK'
  <2>1. Append(pq, p) \in Seq(Packet)
    BY AppendProperties DEF TypeOK
  <2> QED BY <1>9, <2>1, WakeType DEF Deliver, TypeOK
<1>10. CASE UNCHANGED vars
  BY <1>10 DEF vars, TypeOK
<1> QED
  BY <1>1, <1>2, <1>3, <1>4, <1>5, <1>6, <1>7, <1>8, <1>9, <1>10 DEF Next, AppStep

\* The state, the queue and the places of all threads have their types in
\* every reachable state.
THEOREM TypeCorrect == Spec => []TypeOK
<1>1. Init => TypeOK
  <2> SUFFICES ASSUME Init PROVE TypeOK
    OBVIOUS
  <2>1. \A t \in App : t # Tx
    BY ThreadAssumption DEF App
  <2>2. pc[Tx] = "test" /\ \A t \in App : pc[t] = "idle"
    BY <2>1 DEF Init
  <2>3. pq \in Seq(Packet)
    BY EmptySeq DEF Init
  <2> QED BY <2>2, <2>3 DEF Init, TypeOK, AppPlace, TxPlace
<1> QED BY <1>1, TypeStep, PTL DEF Spec

\* However many receivers there are, in whatever places between the gate, the
\* queue and the wait, none sleeps while a packet is queued.
THEOREM NoWakeupIsLost == Spec => []NoLostWakeup
<1>1. Init => NoLostWakeup
  BY DEF Init, NoLostWakeup
<1>2. TypeOK /\ NoLostWakeup /\ [Next]_vars => NoLostWakeup'
  <2> SUFFICES ASSUME TypeOK, NoLostWakeup, [Next]_vars,
                      NEW r \in Receiver, pq' # <<>>
               PROVE  pc'[r] # "getWait"
    BY DEF NoLostWakeup
  <2>0. r \in App /\ r # Tx
    BY ThreadAssumption DEF App
  <2>1. ASSUME NEW t \in App, Call(t) \/ Gate(t) \/ Spurious(t) PROVE pc'[r] # "getWait"
    BY <2>0, <2>1 DEF Call, Gate, Spurious, TypeOK, NoLostWakeup
  <2>2. ASSUME NEW t \in App, Get(t) PROVE pc'[r] # "getWait"
    <3>1. CASE pq = <<>> /\ pq' = pq
      BY <3>1
    <3>2. CASE pq # <<>> /\ pc' = [pc EXCEPT ![t] = "idle"]
      BY <2>0, <3>2 DEF TypeOK, NoLostWakeup
    <3> QED BY <2>2, <3>1, <3>2 DEF Get
  <2>3. CASE TxTest \/ TxBeacon \/ TxWait \/ TxTimeout
    BY <2>0, <2>3 DEF TxTest, TxBeacon, TxWait, TxTimeout, TypeOK, NoLostWakeup
  <2>4. CASE AcceptReply
    BY <2>0, <2>4 DEF AcceptReply, WakeState, TypeOK, NoLostWakeup
  <2>5. ASSUME NEW p \in Packet, Deliver(p) PROVE pc'[r] # "getWait"
    BY <2>0, <2>5 DEF Deliver, WakeData, TypeOK, NoLostWakeup
  <2>6. CASE UNCHANGED vars
    BY <2>6 DEF vars, NoLostWakeup
  <2> QED BY <2>1, <2>2, <2>3, <2>4, <2>5, <2>6 DEF Next, AppStep
<1> QED BY <1>1, <1>2, TypeCorrect, PTL DEF Spec

\* However many threads call into the layer before it is connected, all are
\* let through once it is.
THEOREM GateIsOpened == Spec => []GateOpens
<1>1. Init => GateOpens
  BY DEF Init, GateOpens
<1>2. TypeOK /\ GateOpens /\ [Next]_vars => GateOpens'
  <2> SUFFICES ASSUME TypeOK, GateOpens, [Next]_vars,
                      NEW a \in App, state' = "connected"
               PROVE  pc'[a] # "gateWait"
    BY DEF GateOpens
  <2>0. a # Tx
    BY ThreadAssumption DEF App
  <2>1. ASSUME NEW t \in App, AppStep(t) PROVE pc'[a] # "gateWait"
    BY <2>0, <2>1 DEF AppStep, Call, Gate, Get, Spurious, TypeOK, GateOpens
  <2>2. CASE TxTest \/ TxBeacon \/ TxWait \/ TxTimeout
    BY <2>0, <2>2 DEF TxTest, TxBeacon, TxWait, TxTimeout, TypeOK, GateOpens
  <2>3. CASE AcceptReply
    BY <2>0, <2>3 DEF AcceptReply, WakeState, TypeOK
  <2>4. ASSUME NEW p \in Packet, Deliver(p) PROVE pc'[a] # "gateWait"
    BY <2>0, <2>4 DEF Deliver, WakeData, TypeOK, GateOpens
  <2>5. CASE UNCHANGED vars
    BY <2>5 DEF vars, GateOpens
  <2> QED BY <2>1, <2>2, <2>3, <2>4, <2>5 DEF Next
<1> QED BY <1>1, <1>2, TypeCorrect, PTL DEF Spec

\* Only a connected device queues packets.
QueueIsOpen == pq # <<>> => state = "connected"

\* The application gets what Mailbox promises: each packet once, in order, and
\* none before the device is connected.
THEOREM NsoLayerImplementsMailbox == Spec => ImplementsMailbox
<1>1. Init => MB!Init
  BY DEF Init, MB!Init
<1>2. Init => QueueIsOpen
  BY DEF Init, QueueIsOpen
<1>3. TypeOK /\ QueueIsOpen /\ [Next]_vars =>
        QueueIsOpen' /\ [MB!Next]_<<state = "connected", pq, got>>
  <2> SUFFICES ASSUME TypeOK, QueueIsOpen, [Next]_vars
               PROVE  QueueIsOpen' /\ [MB!Next]_<<state = "connected", pq, got>>
    OBVIOUS
  <2>1. ASSUME UNCHANGED <<state, pq, got>>
        PROVE  QueueIsOpen' /\ [MB!Next]_<<state = "connected", pq, got>>
    BY <2>1 DEF QueueIsOpen
  <2>2. ASSUME NEW t \in App, Call(t) \/ Gate(t) \/ Spurious(t)
        PROVE  UNCHANGED <<state, pq, got>>
    BY <2>2 DEF Call, Gate, Spurious
  <2>3. ASSUME NEW t \in App, Get(t)
        PROVE  QueueIsOpen' /\ [MB!Next]_<<state = "connected", pq, got>>
    <3>1. CASE UNCHANGED <<pq, got>>
      BY <2>1, <2>3, <3>1 DEF Get
    <3>2. CASE pq # <<>> /\ got' = [got EXCEPT ![t] = Head(pq)] /\ pq' = Tail(pq)
      <4>1. t \in Receiver /\ state' = state /\ state = "connected"
        BY <2>3, <3>2 DEF Get, QueueIsOpen
      <4>2. MB!Take(t)
        BY <3>2, <4>1 DEF MB!Take
      <4> QED BY <4>1, <4>2 DEF QueueIsOpen, MB!Next
    <3> QED BY <2>3, <3>1, <3>2 DEF Get
  <2>4. CASE TxTest \/ TxBeacon \/ TxWait \/ TxTimeout \/ UNCHANGED vars
    BY <2>1, <2>4 DEF TxTest, TxBeacon, TxWait, TxTimeout, vars
  <2>5. CASE AcceptReply
    <3>1. MB!Open
      BY <2>5 DEF AcceptReply, MB!Open
    <3> QED BY <2>5, <3>1 DEF AcceptReply, QueueIsOpen, MB!Next
  <2>6. ASSUME NEW p \in Packet, Deliver(p)
        PROVE  QueueIsOpen' /\ [MB!Next]_<<state = "connected", pq, got>>
    <3>1. MB!Put(p)
      BY <2>6 DEF Deliver, MB!Put
    <3> QED BY <2>6, <3>1 DEF Deliver, QueueIsOpen, MB!Next
  <2> QED BY <2>2, <2>1, <2>3, <2>4, <2>5, <2>6 DEF Next, AppStep
<1> QED BY <1>1, <1>2, <1>3, TypeCorrect, PTL DEF Spec, ImplementsMailbox, MB!Spec
-----------------------------------------------------------------------------
(* Packet buffers: the packets of the tx thread and of the rx threads, which  *)
(* share nothing with the queue and its locks.                                *)

\* The two packets are well formed and in their buffers; the rx thread's is
\* at its initial position whenever a handler is about to run or has run.
BufferInv ==
  /\ BufferTypeOK
  /\ BufferBounds
  /\ rxPkt.data = Headroom

\* A packet behind a link header begins in the buffer, because there was room
\* for the header, and ends where it did.
LEMMA FramedInBuffer ==
  ASSUME NEW p \in PacketType, InBuffer(p), HasHeadroom(p)
  PROVE  Framed(p) \in PacketType /\ InBuffer(Framed(p))
<1>1. /\ Headroom \in Nat /\ Eth \in Nat /\ Mtu \in Nat
      /\ p.data \in Int /\ p.len \in Nat /\ p.data >= Eth
      /\ p.data <= Headroom /\ p.data + p.len <= Headroom + Mtu
  BY BufferAssumption DEF PacketType, InBuffer, HasHeadroom
<1>2. Framed(p).data = p.data - Eth /\ Framed(p).len = p.len + Eth
  BY DEF Framed
<1>3. /\ p.data - Eth \in Int /\ p.len + Eth \in Nat
      /\ 0 <= p.data - Eth /\ p.data - Eth <= Headroom
      /\ (p.data - Eth) + (p.len + Eth) <= Headroom + Mtu
  BY <1>1
<1> QED BY <1>2, <1>3 DEF Framed, PacketType, InBuffer

\* A packet at its initial position with at most the MTU's bytes is in bounds.
LEMMA FreshInBuffer ==
  ASSUME NEW n \in 0..Mtu
  PROVE  LET p == [data |-> Headroom, len |-> n] IN p \in PacketType /\ InBuffer(p)
  BY BufferAssumption DEF PacketType, InBuffer

\* The tx thread's steps.
LEMMA TxStep == ASSUME BufferInv, StartAdvert \/ Broadcast \/ FinishAdvert PROVE BufferInv'
<1>1. rx' = rx
  BY DEF StartAdvert, Broadcast, FinishAdvert
<1>2. /\ txPkt' \in PacketType /\ InBuffer(txPkt')
      /\ aired' \in [1..Ifaces -> Nat]
  <2>1. CASE StartAdvert
    <3>1. AdvLen \in 0..Mtu
      BY BufferAssumption
    <3> QED BY <2>1, <3>1, FreshInBuffer DEF StartAdvert
  <2>2. CASE Broadcast
    <3>1. txPkt' \in PacketType /\ InBuffer(txPkt')
      BY <2>2, FramedInBuffer DEF Broadcast, BufferInv, BufferTypeOK, BufferBounds
    <3>2. txPkt'.len \in Nat
      BY <3>1 DEF PacketType
    <3> QED BY <2>2, <3>1, <3>2 DEF Broadcast, BufferInv, BufferTypeOK
  <2>3. CASE FinishAdvert
    BY <2>3 DEF FinishAdvert, BufferInv, BufferTypeOK, BufferBounds
  <2> QED BY <2>1, <2>2, <2>3
<1>3. txNext' \in 0..(Ifaces + 1)
  BY BufferAssumption DEF StartAdvert, Broadcast, FinishAdvert, BufferInv, BufferTypeOK
<1> QED BY <1>1, <1>2, <1>3 DEF rx, BufferInv, BufferTypeOK, BufferBounds, InBuffer

\* The rx thread's steps: however its packet is used, it starts again at the
\* initial position.
LEMMA RxStep ==
  ASSUME BufferInv,
         \/ \E m \in Msg, n \in 0..Mtu : ReceiveFrame(m, n)
         \/ ReceiveFails
         \/ Process
  PROVE  BufferInv'
<1>1. tx' = tx
  BY DEF ReceiveFrame, ReceiveFails, Process
<1>2. rxPkt' \in PacketType /\ InBuffer(rxPkt') /\ rxPkt'.data = Headroom
  <2>1. ASSUME NEW m \in Msg, NEW n \in 0..Mtu, ReceiveFrame(m, n)
        PROVE  rxPkt' = [data |-> Headroom, len |-> n]
    BY <2>1 DEF ReceiveFrame, BufferInv, BufferTypeOK, PacketType
  <2>2. CASE ReceiveFails
    BY <2>2 DEF ReceiveFails, BufferInv, BufferTypeOK, BufferBounds
  <2>3. CASE Process
    <3>1. rxPkt' = [data |-> Headroom, len |-> 0] /\ 0 \in 0..Mtu
      BY <2>3, BufferAssumption DEF Process, Reset
    <3> QED BY <3>1, FreshInBuffer
  <2> QED BY <2>1, <2>2, <2>3, FreshInBuffer
<1>3. /\ rxPlace' \in {"receive", "process", "dead"}
      /\ held' \in Msg \cup {Zeroes} /\ addr' \in {"unset", "live", "freed"}
  BY DEF ReceiveFrame, ReceiveFails, Process, BufferInv, BufferTypeOK
<1> QED BY <1>1, <1>2, <1>3 DEF tx, BufferInv, BufferTypeOK, BufferBounds, InBuffer

\* The invariant of both threads.
LEMMA BufferInvariant == BufferSpec => []BufferInv
<1>1. BufferInit => BufferInv
  <2> SUFFICES ASSUME BufferInit PROVE BufferInv
    OBVIOUS
  <2>1. Empty \in PacketType /\ InBuffer(Empty) /\ Empty.data = Headroom
    <3>1. 0 \in 0..Mtu
      BY BufferAssumption
    <3> QED BY <3>1, FreshInBuffer DEF Empty
  <2>2. 0 \in 0..(Ifaces + 1)
    BY BufferAssumption
  <2> QED BY <2>1, <2>2 DEF BufferInit, BufferInv, BufferTypeOK, BufferBounds
<1>2. BufferInv /\ [BufferNext]_buffers => BufferInv'
  <2>1. BufferInv /\ UNCHANGED buffers => BufferInv'
    BY DEF buffers, tx, rx, BufferInv, BufferTypeOK, BufferBounds, InBuffer
  <2> QED BY <2>1, TxStep, RxStep DEF BufferNext
<1> QED BY <1>1, <1>2, PTL DEF BufferSpec

\* Positions, lengths and places are of their types.
THEOREM BufferTypeCorrect == BufferSpec => []BufferTypeOK
<1>1. BufferInv => BufferTypeOK
  BY DEF BufferInv
<1> QED BY <1>1, BufferInvariant, PTL

\* No packet ever claims bytes outside its buffer, neither before its beginning
\* nor behind its end, on any number of interfaces.
THEOREM PacketsStayInBuffers == BufferSpec => []BufferBounds
<1>1. BufferInv => BufferBounds
  BY DEF BufferInv
<1> QED BY <1>1, BufferInvariant, PTL

\* The rx thread never runs out of headroom.
THEOREM ReceiveHasRoom == BufferSpec => []RxHasRoom
<1>1. BufferInv => RxHasRoom
  BY BufferAssumption DEF BufferInv, RxHasRoom, HasHeadroom
<1> QED BY <1>1, BufferInvariant, PTL
=============================================================================
