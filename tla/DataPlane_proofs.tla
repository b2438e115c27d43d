-------------------------- MODULE DataPlane_proofs --------------------------
(***************************************************************************)
(* Commands and readings between devices and the service, for any number   *)
(* of devices, connections, restarts, failures and commands on their way.  *)
(***************************************************************************)
EXTENDS DataPlane, SequenceTheorems, TLAPS

EndOf(s) == s[Len(s)]

\* What a queue of commands is after one is put at its end or taken from its
\* front.
LEMMA QueuePut ==
  ASSUME NEW s \in Seq(Command), NEW m \in Command
  PROVE  /\ Append(s, m) \in Seq(Command)
         /\ Append(s, m) # <<>>
         /\ EndOf(Append(s, m)) = m
BY DEF EndOf

LEMMA QueueTake ==
  ASSUME NEW s \in Seq(Command), s # <<>>
  PROVE  /\ Head(s) \in Command
         /\ Tail(s) \in Seq(Command)
         /\ Tail(s) # <<>> => EndOf(Tail(s)) = EndOf(s)
         /\ Tail(s) = <<>> => Head(s) = EndOf(s)
<1>1. Len(s) \in Nat /\ Len(s) # 0 /\ Len(Tail(s)) = Len(s) - 1
  BY EmptySeq, HeadTailProperties
<1>2. Head(s) \in Command /\ Tail(s) \in Seq(Command)
  BY HeadTailProperties
<1>3. ASSUME Tail(s) # <<>> PROVE EndOf(Tail(s)) = EndOf(s)
  <2>1. Len(Tail(s)) # 0
    BY <1>2, <1>3, EmptySeq
  <2>2. Len(s) - 1 \in 1..Len(Tail(s)) /\ Len(s) - 1 + 1 = Len(s)
    BY <1>1, <2>1
  <2>3. Tail(s)[Len(s) - 1] = s[Len(s)]
    BY <2>2, HeadTailProperties
  <2> QED BY <1>1, <2>3 DEF EndOf
<1>4. ASSUME Tail(s) = <<>> PROVE Head(s) = EndOf(s)
  <2>1. Len(<<>>) = 0
    BY EmptySeq
  <2>2. Len(Tail(s)) = 0
    BY <1>4, <2>1, Zenon
  <2>3. \A n \in Nat : n - 1 = 0 => n = 1
    OBVIOUS
  <2>4. Len(s) = 1
    BY <1>1, <2>2, <2>3
  <2> QED BY <2>4 DEF EndOf
<1> QED BY <1>2, <1>3, <1>4
-----------------------------------------------------------------------------
(* Types                                                                    *)

Made(l) == [dev : Device, life : 1..l]

\* The list of connections: what it says of one, and what adding one does.
LEMMA MadeFacts ==
  ASSUME TypeOK
  PROVE  /\ Len(made) \in Nat
         /\ \A c \in 1..Len(made) : /\ c \in Conn
                                    /\ made[c] \in Made(life)
                                    /\ made[c].dev \in Device
                                    /\ made[c].life \in 1..life
<1>1. made \in Seq(Made(life)) /\ Len(made) <= MaxConn
  BY DEF TypeOK, Made
<1>2. Len(made) \in Nat
  BY <1>1
<1>3. \A c \in 1..Len(made) : made[c] \in Made(life)
  BY <1>1
<1>4. \A c \in 1..Len(made) : c \in Conn
  BY <1>1, <1>2, DataPlaneAssumption DEF Conn
<1> QED BY <1>2, <1>3, <1>4 DEF Made

LEMMA MakeFacts ==
  ASSUME TypeOK, NEW d \in Device, Len(made) < MaxConn,
         made' = Append(made, [dev |-> d, life |-> life])
  PROVE  /\ made' \in Seq(Made(life))
         /\ Len(made') = Len(made) + 1 /\ Len(made') \in Conn
         /\ made'[Len(made')] = [dev |-> d, life |-> life]
         /\ \A c \in 1..Len(made) : made'[c] = made[c]
<1>1. made \in Seq(Made(life)) /\ Len(made) \in Nat /\ life \in 1..MaxLife
  BY MadeFacts DEF TypeOK, Made
<1>2. [dev |-> d, life |-> life] \in Made(life)
  BY <1>1, DataPlaneAssumption DEF Made
<1>3. made' \in Seq(Made(life)) /\ Len(made') = Len(made) + 1
  BY <1>1, <1>2
<1>4. /\ made'[Len(made) + 1] = [dev |-> d, life |-> life]
      /\ \A c \in 1..Len(made) : made'[c] = made[c]
  BY <1>1, <1>2
<1>5. Len(made) + 1 \in Conn
  BY <1>1, DataPlaneAssumption DEF Conn
<1> QED BY <1>3, <1>4, <1>5

\* A connection of one life of the base station is one of any later.
LEMMA MadeGrows ==
  ASSUME NEW l \in Nat
  PROVE  Seq(Made(l)) \subseteq Seq(Made(l + 1))
<1>1. Made(l) \subseteq Made(l + 1)
  BY DEF Made
<1> QED BY <1>1, SeqMonotonic

\* Every variable has a value of its type: connections that the translator and
\* the web server refer to have been made.
THEOREM TypeCorrect == Spec => []TypeOK
<1>1. Init => TypeOK
  <2> SUFFICES ASSUME Init PROVE TypeOK
    OBVIOUS
  <2>1. <<>> \in Seq(Command) /\ <<>> \in Seq([dev : Device, life : 1..life]) /\ Len(<<>>) = 0
    BY EmptySeq
  <2>2. life \in 1..MaxLife /\ faults \in 0..MaxFaults /\ Len(made) <= MaxConn
    BY <2>1, DataPlaneAssumption DEF Init
  <2>3. nso2tcp \in [Device -> 0..Len(made)] /\ pending \in [Device -> 0..Len(made)]
    BY <2>1 DEF Init
  <2> QED BY <2>1, <2>2, <2>3 DEF Init, TypeOK, Conn, Command
<1>2. TypeOK /\ [Next]_vars => TypeOK'
  <2> SUFFICES ASSUME TypeOK, [Next]_vars PROVE TypeOK'
    OBVIOUS
  <2> USE DEF device, translator, service, history, vars
  <2>1. CASE Reconnect
    <3>1. life \in Nat /\ life' = life + 1 /\ life' \in 1..MaxLife
      BY <2>1, DataPlaneAssumption DEF Reconnect, TypeOK
    <3>2. made' \in Seq(Made(life'))
      BY <2>1, <3>1, MadeGrows DEF Reconnect, TypeOK, Made
    <3>3. nso2tcp' \in [Device -> 0..Len(made')]
      BY <2>1, MadeFacts DEF Reconnect
    <3> QED BY <2>1, <3>1, <3>2, <3>3 DEF Reconnect, TypeOK, Made
  <2>2. ASSUME NEW d \in Device, FirstReading(d) PROVE TypeOK'
    <3>1. CASE Len(made) < MaxConn /\ made' = Append(made, [dev |-> d, life |-> life])
      <4>1. /\ made' \in Seq(Made(life'))
            /\ Len(made') = Len(made) + 1 /\ Len(made') \in Conn /\ Len(made') <= MaxConn
            /\ Len(made) \in Nat
        BY <2>2, <3>1, MakeFacts, MadeFacts DEF FirstReading, Conn
      <4> HIDE <3>1
      <4>2. /\ nso2tcp' \in [Device -> 0..Len(made')]
            /\ pending' \in [Device -> 0..Len(made')]
        <5>1. pending \in [Device -> 0..Len(made)] /\ nso2tcp \in [Device -> 0..Len(made)]
          BY DEF TypeOK
        <5>2. 0..Len(made) \subseteq 0..Len(made') /\ Len(made') \in 0..Len(made')
          BY <4>1
        <5>3. /\ pending' = pending
              /\ nso2tcp' = [nso2tcp EXCEPT ![d] = Len(made')] \/ nso2tcp' = nso2tcp
          BY <2>2 DEF FirstReading
        <5> QED BY <5>1, <5>2, <5>3
      <4>3. handler' \in [Conn -> {"none", "read", "check", "launch", "report", "ended"}]
        BY <2>2, <4>1 DEF FirstReading, TypeOK, Refused
      <4>4. relay' \in [Conn -> {"none", "open", "ended"}]
        BY <2>2, <4>1 DEF FirstReading, TypeOK, Refused
      <4>5. bs' \in {"open", "broken"} /\ faults' \in 0..MaxFaults
        BY <2>2, DataPlaneAssumption, SMTT(30) DEF FirstReading, TypeOK, Refused, Fails
      <4> QED BY <2>2, <4>1, <4>2, <4>3, <4>4, <4>5 DEF FirstReading, TypeOK, Made
    <3>2. CASE Refused /\ UNCHANGED nso2tcp
      <4>1. faults' \in 0..MaxFaults
        BY <3>2, DataPlaneAssumption DEF Refused, Fails, TypeOK
      <4> QED BY <2>2, <3>2, <4>1 DEF FirstReading, Refused, TypeOK
    <3> QED BY <2>2, <3>1, <3>2 DEF FirstReading
  <2>3. ASSUME NEW d \in Device, Reading(d) PROVE TypeOK'
    <3>1. faults' \in 0..MaxFaults
      BY <2>3, DataPlaneAssumption DEF Reading, Fails, TypeOK
    <3>2. handler' \in [Conn -> {"none", "read", "check", "launch", "report", "ended"}]
      BY <2>3 DEF Reading, TypeOK
    <3>3. bs' \in {"open", "broken"}
      BY <2>3 DEF Reading, TypeOK
    <3> QED BY <2>3, <3>1, <3>2, <3>3 DEF Reading, TypeOK
  <2>4. ASSUME NEW c \in 1..Len(made), Relay(c) PROVE TypeOK'
    <3>1. c \in Conn /\ made[c].dev \in Device /\ cmds[c] \in Seq(Command) /\ cmds[c] # <<>>
      BY <2>4, MadeFacts DEF Relay, TypeOK
    <3>2. Head(cmds[c]) \in Command /\ Tail(cmds[c]) \in Seq(Command) /\ <<>> \in Seq(Command)
      BY <3>1, QueueTake, EmptySeq
    <3>3. air[made[c].dev] \in Seq(Command)
      BY <3>1 DEF TypeOK
    <3>4. Append(air[made[c].dev], Head(cmds[c])) \in Seq(Command)
      BY <3>2, <3>3, QueuePut
    <3>5. air' \in [Device -> Seq(Command)]
      BY <2>4, <3>1, <3>4 DEF Relay, TypeOK
    <3>6. cmds' \in [Conn -> Seq(Command)]
      BY <2>4, <3>1, <3>2 DEF Relay, TypeOK
    <3>7. relay' \in [Conn -> {"none", "open", "ended"}] /\ lost' \subseteq Device
      BY <2>4, <3>1 DEF Relay, TypeOK
    <3> QED BY <2>4, <3>5, <3>6, <3>7 DEF Relay, TypeOK
  <2>5. ASSUME NEW c \in 1..Len(made), RelayEnds(c) \/ ReadEnd(c) \/ Check(c) PROVE TypeOK'
    BY <2>5, MadeFacts DEF RelayEnds, ReadEnd, Check, TypeOK
  <2>6. ASSUME NEW c \in 1..Len(made), Launch(c) PROVE TypeOK'
    BY <2>6, MadeFacts DEF Launch, TypeOK
  <2>7. ASSUME NEW c \in 1..Len(made), Report(c) PROVE TypeOK'
    <3>1. faults' = faults \/ (faults < MaxFaults /\ faults' = faults + 1)
      BY <2>7 DEF Report, Fails
    <3>2. faults' \in 0..MaxFaults
      <4>1. faults \in 0..MaxFaults /\ MaxFaults \in Nat
        BY DataPlaneAssumption DEF TypeOK
      <4> QED BY <3>1, <4>1
    <3>3. handler' \in [Conn -> {"none", "read", "check", "launch", "report", "ended"}]
      BY <2>7 DEF Report, TypeOK
    <3> QED BY <2>7, <3>2, <3>3 DEF Report, TypeOK
  <2>8. ASSUME NEW c \in 1..Len(made), Ask(c) \/ Timeout(c) PROVE TypeOK'
    <3>1. pending' \in [Device -> 0..Len(made')]
      <4>1. pending \in [Device -> 0..Len(made)]
        BY DEF TypeOK
      <4>2. c \in 0..Len(made)
        BY MadeFacts
      <4>3. /\ pending' = [pending EXCEPT ![made[c].dev] = c] \/ pending' = pending
            /\ made' = made
        BY <2>8 DEF Ask, Timeout
      <4> QED BY <4>1, <4>2, <4>3
    <3>2. poller' \in [Conn -> [at : {"none", "ask", "waiting"}, cmd : {None}]
                               \cup [at : {"send"}, cmd : Command]]
      <4>1. poller[c].cmd = None /\ poller[c] \in [at : {"none", "ask", "waiting"}, cmd : {None}]
        BY <2>8, MadeFacts DEF Ask, Timeout, TypeOK
      <4>2. \/ poller' = [poller EXCEPT ![c].at = "waiting"]
            \/ poller' = [poller EXCEPT ![c].at = "ask"]
        BY <2>8 DEF Ask, Timeout
      <4>3. poller \in [Conn -> [at : {"none", "ask", "waiting"}, cmd : {None}]
                                \cup [at : {"send"}, cmd : Command]]
        BY DEF TypeOK
      <4> QED BY <4>1, <4>2, <4>3
    <3> QED BY <2>8, <3>1, <3>2 DEF Ask, Timeout, TypeOK
  <2>9. ASSUME NEW c \in 1..Len(made), SendCommand(c) PROVE TypeOK'
    <3>1. c \in Conn /\ made[c].dev \in Device /\ cmds[c] \in Seq(Command)
      BY MadeFacts DEF TypeOK
    <3>2. poller[c].cmd \in Command
      BY <2>9, <3>1 DEF SendCommand, TypeOK
    <3>3. Append(cmds[c], poller[c].cmd) \in Seq(Command)
      BY <3>1, <3>2, QueuePut
    <3>4. cmds' \in [Conn -> Seq(Command)] /\ lost' \subseteq Device
      BY <2>9, <3>1, <3>3 DEF SendCommand, TypeOK
    <3> QED BY <2>9, <3>1, <3>4 DEF SendCommand, TypeOK
  <2>10. ASSUME NEW d \in Device, NEW m \in Command, Act(d, m) PROVE TypeOK'
    <3>1. pending[d] \in 0..Len(made) /\ pending[d] # 0
      BY <2>10 DEF Act, TypeOK
    <3>2. pending[d] \in 1..Len(made)
      BY <3>1, MadeFacts
    <3>3. pending[d] \in Conn
      BY <3>2, MadeFacts
    <3>4. pending' \in [Device -> 0..Len(made')]
      <4>1. pending \in [Device -> 0..Len(made)] /\ 0 \in 0..Len(made)
        BY <3>1, MadeFacts DEF TypeOK
      <4>2. pending' = [pending EXCEPT ![d] = 0] /\ made' = made
        BY <2>10 DEF Act
      <4> QED BY <4>1, <4>2
    <3>5. last' \in [Device -> Command] /\ lost' \subseteq Device
      BY <2>10 DEF Act, TypeOK
    <3>6. poller' \in [Conn -> [at : {"none", "ask", "waiting"}, cmd : {None}]
                               \cup [at : {"send"}, cmd : Command]]
      <4>1. \/ poller' = [poller EXCEPT ![pending[d]] = [at |-> "send", cmd |-> m]]
            \/ poller' = poller
        BY <2>10 DEF Act
      <4>2. poller \in [Conn -> [at : {"none", "ask", "waiting"}, cmd : {None}]
                                \cup [at : {"send"}, cmd : Command]]
        BY DEF TypeOK
      <4> QED BY <3>3, <4>1, <4>2
    <3> QED BY <2>10, <3>4, <3>5, <3>6 DEF Act, TypeOK
  <2>11. ASSUME NEW d \in Device, Obey(d) \/ LoseCommand(d) PROVE TypeOK'
    <3>1. air[d] \in Seq(Command) /\ air[d] # <<>>
      BY <2>11 DEF Obey, LoseCommand, TypeOK
    <3>2. Tail(air[d]) \in Seq(Command)
      BY <3>1, QueueTake
    <3>3. air' \in [Device -> Seq(Command)]
      BY <2>11, <3>2 DEF Obey, LoseCommand, TypeOK
    <3> QED BY <2>11, <3>3 DEF Obey, LoseCommand, TypeOK
  <2>12. CASE UNCHANGED vars
    BY <2>12 DEF TypeOK
  <2> QED BY <2>1, <2>2, <2>3, <2>4, <2>5, <2>6, <2>7, <2>8, <2>9, <2>10, <2>11, <2>12 DEF Next, Poll
<1> QED BY <1>1, <1>2, PTL DEF Spec

-----------------------------------------------------------------------------
(* Connections                                                              *)

\* Nothing happens on a connection before it is made.
UnmadeIdle ==
  \A c \in Conn : c \notin 1..Len(made) => cmds[c] = <<>> /\ poller[c].at = "none"

\* The map leads to a connection of the device and of this life, and while the
\* handler lives to every such connection: there is one for each device.
MapLeads ==
  \A d \in Device : nso2tcp[d] # 0 => made[nso2tcp[d]] = [dev |-> d, life |-> life]

MapComplete ==
  bs = "open" => \A c \in 1..Len(made) : made[c].life = life => nso2tcp[made[c].dev] = c

\* A thread is started on a connection once.
LaunchedOnce ==
  \A c \in 1..Len(made) :
    poller[c].at # "none" => made[c].dev \in dev_id_map /\ handler[c] # "launch"

\* A handler with a connection of this life ends only after a failure.
EndedByFault ==
  \A c \in 1..Len(made) : handler[c] = "ended" /\ made[c].life = life => faults > 0

ConnInv == UnmadeIdle /\ MapLeads /\ MapComplete /\ LaunchedOnce /\ EndedByFault /\ CutOnlyByFault

LEMMA ConnStep ==
  ASSUME TypeOK, ConnInv, [Next]_vars
  PROVE  ConnInv'
<1> USE DEF device, translator, service, history, vars
<1>0. /\ faults \in Nat /\ life \in Nat
      /\ \A c \in 1..Len(made) : c \in Conn /\ made[c].dev \in Device
                                 /\ made[c].life \in Nat /\ made[c].life <= life
  <2>1. faults \in Nat /\ life \in Nat
    BY DataPlaneAssumption DEF TypeOK
  <2>2. \A c \in 1..Len(made) : c \in Conn /\ made[c].dev \in Device /\ made[c].life \in 1..life
    BY MadeFacts
  <2> QED BY <2>1, <2>2
<1>1. CASE Reconnect
  <2>1. life' = life + 1 /\ bs' = "open" /\ made' = made /\ nso2tcp' = [d \in Device |-> 0]
    BY <1>1 DEF Reconnect
  <2>2. \A c \in 1..Len(made) : made'[c].life # life'
    BY <1>0, <2>1
  <2>3. UNCHANGED <<cmds, poller, dev_id_map, handler>>
    BY <1>1 DEF Reconnect
  <2>4. UnmadeIdle' /\ MapLeads' /\ LaunchedOnce'
    BY <2>1, <2>3 DEF ConnInv, UnmadeIdle, MapLeads, LaunchedOnce
  <2>5. MapComplete' /\ EndedByFault' /\ CutOnlyByFault'
    BY <2>1, <2>2 DEF MapComplete, EndedByFault, CutOnlyByFault
  <2> QED BY <2>4, <2>5 DEF ConnInv
<1>2. ASSUME NEW d \in Device, FirstReading(d) PROVE ConnInv'
  <2>0. UNCHANGED <<life, cmds, poller, dev_id_map>> /\ bs = "open" /\ nso2tcp[d] = 0
    BY <1>2 DEF FirstReading
  <2>1. ASSUME Len(made) < MaxConn, made' = Append(made, [dev |-> d, life |-> life]),
               nso2tcp' = [nso2tcp EXCEPT ![d] = Len(made')],
               handler' = [handler EXCEPT ![Len(made')] = "check"],
               UNCHANGED <<bs, faults>>
        PROVE  ConnInv'
    <3>1. /\ Len(made) \in Nat
          /\ Len(made') = Len(made) + 1 /\ Len(made') \in Conn
          /\ made'[Len(made')] = [dev |-> d, life |-> life]
          /\ \A c \in 1..Len(made) : made'[c] = made[c]
      BY <2>1, MakeFacts, MadeFacts
    <3>2. \A c \in 1..Len(made') : c = Len(made') \/ c \in 1..Len(made)
      BY <3>1
    <3>3. 1..Len(made) \subseteq 1..Len(made') /\ Len(made') \notin 1..Len(made)
      BY <3>1
    <3>4. UnmadeIdle'
      BY <2>0, <3>3 DEF ConnInv, UnmadeIdle
    <3>5. MapLeads'
      <4> SUFFICES ASSUME NEW e \in Device, nso2tcp'[e] # 0
                   PROVE  made'[nso2tcp'[e]] = [dev |-> e, life |-> life']
        BY DEF MapLeads
      <4>1. CASE e = d
        BY <2>0, <2>1, <3>1, <4>1 DEF TypeOK
      <4>2. CASE e # d
        <5>1. nso2tcp'[e] = nso2tcp[e] /\ nso2tcp[e] \in 0..Len(made)
          BY <2>1, <4>2 DEF TypeOK
        <5>2. nso2tcp[e] \in 1..Len(made)
          BY <3>1, <5>1
        <5> QED BY <2>0, <3>1, <5>1, <5>2 DEF ConnInv, MapLeads
      <4> QED BY <4>1, <4>2
    <3>6. MapComplete'
      <4> SUFFICES ASSUME NEW c \in 1..Len(made'), made'[c].life = life'
                   PROVE  nso2tcp'[made'[c].dev] = c
        BY DEF MapComplete
      <4>1. CASE c = Len(made')
        BY <2>1, <3>1, <4>1 DEF TypeOK
      <4>2. CASE c \in 1..Len(made)
        <5>1. nso2tcp[made[c].dev] = c /\ made'[c] = made[c] /\ c # 0
          BY <2>0, <3>1, <4>2 DEF ConnInv, MapComplete
        <5>2. made[c].dev # d
          BY <2>0, <5>1
        <5> QED BY <1>0, <2>1, <4>2, <5>1, <5>2 DEF TypeOK
      <4> QED BY <3>2, <4>1, <4>2
    <3>7. LaunchedOnce'
      <4> SUFFICES ASSUME NEW c \in 1..Len(made'), poller'[c].at # "none"
                   PROVE  made'[c].dev \in dev_id_map' /\ handler'[c] # "launch"
        BY DEF LaunchedOnce
      <4>1. c \in 1..Len(made)
        BY <2>0, <3>1, <3>2, <3>3 DEF ConnInv, UnmadeIdle
      <4>2. c # Len(made') /\ made'[c] = made[c]
        BY <3>1, <3>3, <4>1
      <4> QED BY <2>0, <2>1, <4>1, <4>2, <1>0 DEF ConnInv, LaunchedOnce, TypeOK
    <3>8. EndedByFault'
      <4> SUFFICES ASSUME NEW c \in 1..Len(made'), handler'[c] = "ended", made'[c].life = life'
                   PROVE  faults' > 0
        BY DEF EndedByFault
      <4>1. c # Len(made')
        BY <2>1, <3>1 DEF TypeOK
      <4>2. c \in 1..Len(made)
        BY <3>2, <4>1
      <4>3. handler'[c] = handler[c] /\ made'[c] = made[c]
        BY <1>0, <2>1, <3>1, <4>1, <4>2 DEF TypeOK
      <4> QED BY <2>0, <2>1, <4>2, <4>3 DEF ConnInv, EndedByFault
    <3>9. CutOnlyByFault'
      BY <2>0, <2>1 DEF CutOnlyByFault
    <3> QED BY <3>4, <3>5, <3>6, <3>7, <3>8, <3>9 DEF ConnInv
  <2>2. ASSUME Refused, UNCHANGED nso2tcp PROVE ConnInv'
    <3>1. bs' = "broken" /\ faults' = faults + 1 /\ UNCHANGED <<made, handler>>
      BY <2>2 DEF Refused, Fails
    <3>2. faults' > 0
      BY <1>0, <3>1
    <3> QED BY <2>0, <2>2, <3>1, <3>2 DEF ConnInv, UnmadeIdle, MapLeads, MapComplete, LaunchedOnce,
                                          EndedByFault, CutOnlyByFault
  <2> QED BY <1>2, <2>1, <2>2 DEF FirstReading
<1>3. ASSUME NEW d \in Device, Reading(d) PROVE ConnInv'
  <2>0. /\ UNCHANGED <<life, nso2tcp, made, cmds, poller, dev_id_map>>
        /\ bs = "open" /\ nso2tcp[d] # 0
    BY <1>3 DEF Reading
  <2>1. nso2tcp[d] \in 1..Len(made) /\ made[nso2tcp[d]].life = life
    <3>1. nso2tcp[d] \in 0..Len(made) /\ Len(made) \in Nat
      BY MadeFacts DEF TypeOK
    <3>2. nso2tcp[d] \in 1..Len(made)
      BY <2>0, <3>1
    <3>3. made[nso2tcp[d]] = [dev |-> d, life |-> life]
      BY <2>0 DEF ConnInv, MapLeads
    <3> QED BY <3>2, <3>3
  <2>2. ASSUME handler[nso2tcp[d]] = "read", UNCHANGED bs,
               \/ handler' = [handler EXCEPT ![nso2tcp[d]] = "check"] /\ UNCHANGED faults
               \/ handler' = [handler EXCEPT ![nso2tcp[d]] = "ended"] /\ Fails
        PROVE  ConnInv'
    <3>0. \A h : \A c \in 1..Len(made) : [handler EXCEPT ![nso2tcp[d]] = h][c] \in {h, handler[c]}
      BY <1>0 DEF TypeOK
    <3>1. \A c \in 1..Len(made) : handler'[c] # "launch" \/ handler'[c] = handler[c]
      BY <2>2, <3>0, ZenonT(60)
    <3>2. LaunchedOnce'
      BY <2>0, <3>1 DEF ConnInv, LaunchedOnce
    <3>3. \/ faults' > 0
          \/ faults' = faults /\ \A c \in 1..Len(made) : handler'[c] = "ended" => handler[c] = "ended"
      <4>1. CASE handler' = [handler EXCEPT ![nso2tcp[d]] = "check"] /\ UNCHANGED faults
        <5>1. \A c \in 1..Len(made) : handler'[c] = "ended" => handler[c] = "ended"
          BY <3>0, <4>1
        <5> QED BY <4>1, <5>1
      <4>2. CASE Fails
        BY <1>0, <4>2 DEF Fails
      <4> QED BY <2>2, <4>1, <4>2
    <3>4. EndedByFault' /\ CutOnlyByFault'
      BY <2>0, <2>2, <3>3 DEF ConnInv, EndedByFault, CutOnlyByFault
    <3> QED BY <2>0, <2>2, <3>2, <3>4 DEF ConnInv, UnmadeIdle, MapLeads, MapComplete
  <2>3. ASSUME handler[nso2tcp[d]] = "ended", bs' = "broken", UNCHANGED <<handler, faults>>
        PROVE  ConnInv'
    <3>1. faults > 0
      BY <2>1, <2>3 DEF ConnInv, EndedByFault
    <3> QED BY <2>0, <2>3, <3>1 DEF ConnInv, UnmadeIdle, MapLeads, MapComplete, LaunchedOnce,
                                    EndedByFault, CutOnlyByFault
  <2> QED BY <1>3, <2>2, <2>3 DEF Reading
<1>4. ASSUME NEW c \in 1..Len(made), Relay(c) \/ RelayEnds(c) PROVE ConnInv'
  <2>1. UNCHANGED <<life, bs, nso2tcp, made, handler, dev_id_map, poller, faults>>
    BY <1>4 DEF Relay, RelayEnds
  <2>2. \A e \in Conn : cmds'[e] = cmds[e] \/ e = c
    BY <1>4 DEF Relay, RelayEnds, TypeOK
  <2> QED BY <2>1, <2>2 DEF ConnInv, UnmadeIdle, MapLeads, MapComplete, LaunchedOnce,
                            EndedByFault, CutOnlyByFault
<1>5. ASSUME NEW c \in 1..Len(made), ReadEnd(c) PROVE ConnInv'
  <2>1. UNCHANGED <<life, bs, nso2tcp, made, cmds, dev_id_map, poller, faults>> /\ made[c].life # life
    BY <1>5 DEF ReadEnd
  <2>2. \A e \in 1..Len(made) : handler'[e] = handler[e] \/ (e = c /\ handler'[e] = "ended")
    BY <1>0, <1>5 DEF ReadEnd, TypeOK
  <2> QED BY <2>1, <2>2 DEF ConnInv, UnmadeIdle, MapLeads, MapComplete, LaunchedOnce,
                            EndedByFault, CutOnlyByFault
<1>6. ASSUME NEW c \in 1..Len(made), Check(c) PROVE ConnInv'
  <2>1. UNCHANGED <<life, bs, nso2tcp, made, cmds, dev_id_map, poller, faults>>
    BY <1>6 DEF Check
  <2>2. \A e \in 1..Len(made) : \/ handler'[e] = handler[e]
                                \/ handler'[e] = "report"
                                \/ handler'[e] = "launch" /\ made[e].dev \notin dev_id_map
    BY <1>0, <1>6 DEF Check, TypeOK
  <2> QED BY <2>1, <2>2 DEF ConnInv, UnmadeIdle, MapLeads, MapComplete, LaunchedOnce,
                            EndedByFault, CutOnlyByFault
<1>7. ASSUME NEW c \in 1..Len(made), Launch(c) PROVE ConnInv'
  <2>1. /\ UNCHANGED <<life, bs, nso2tcp, made, cmds, faults>>
        /\ dev_id_map' = dev_id_map \cup {made[c].dev}
    BY <1>7 DEF Launch
  <2>2. \A e \in Conn : \/ handler'[e] = handler[e] /\ poller'[e] = poller[e]
                        \/ e = c /\ handler'[e] = "report"
    BY <1>0, <1>7 DEF Launch, TypeOK
  <2> QED BY <1>0, <2>1, <2>2 DEF ConnInv, UnmadeIdle, MapLeads, MapComplete, LaunchedOnce,
                            EndedByFault, CutOnlyByFault
<1>8. ASSUME NEW c \in 1..Len(made), Report(c) PROVE ConnInv'
  <2>1. UNCHANGED <<life, bs, nso2tcp, made, cmds, dev_id_map, poller>>
    BY <1>8 DEF Report
  <2>2. \A e \in 1..Len(made) : handler'[e] = handler[e] \/ handler'[e] \in {"read", "ended"}
    BY <1>0, <1>8 DEF Report, TypeOK
  <2>3. \/ faults' > 0
        \/ faults' = faults /\ \A e \in 1..Len(made) : handler'[e] = "ended" => handler[e] = "ended"
    <3>1. CASE handler' = [handler EXCEPT ![c] = "read"] /\ UNCHANGED faults
      <4>1. \A e \in 1..Len(made) : handler'[e] \in {"read", handler[e]}
        BY <1>0, <3>1 DEF TypeOK
      <4> QED BY <3>1, <4>1
    <3>2. CASE Fails
      BY <1>0, <3>2 DEF Fails
    <3> QED BY <1>8, <3>1, <3>2 DEF Report
  <2> QED BY <2>1, <2>2, <2>3 DEF ConnInv, UnmadeIdle, MapLeads, MapComplete, LaunchedOnce,
                            EndedByFault, CutOnlyByFault
<1>9. ASSUME NEW c \in 1..Len(made), Poll(c) PROVE ConnInv'
  <2>1. UNCHANGED <<life, bs, nso2tcp, made, handler, dev_id_map, faults>>
    BY <1>9 DEF Poll, Ask, Timeout, SendCommand
  <2>2. poller[c].at # "none"
    BY <1>9 DEF Poll, Ask, Timeout, SendCommand
  <2>3. \A e \in Conn : (cmds'[e] = cmds[e] /\ poller'[e] = poller[e]) \/ e = c
    BY <1>9 DEF Poll, Ask, Timeout, SendCommand, TypeOK
  <2> QED BY <1>0, <2>1, <2>2, <2>3 DEF ConnInv, UnmadeIdle, MapLeads, MapComplete, LaunchedOnce,
                            EndedByFault, CutOnlyByFault
<1>10. ASSUME NEW d \in Device, NEW m \in Command, Act(d, m) PROVE ConnInv'
  <2>1. UNCHANGED <<life, bs, nso2tcp, made, cmds, handler, dev_id_map, faults>>
    BY <1>10 DEF Act
  <2>2. pending[d] \in 1..Len(made)
    BY <1>10, MadeFacts DEF Act, TypeOK
  <2>3. \A e \in Conn : \/ poller'[e] = poller[e]
                        \/ e = pending[d] /\ poller[e].at = "waiting"
    BY <1>10 DEF Act, TypeOK
  <2> QED BY <1>0, <2>1, <2>2, <2>3 DEF ConnInv, UnmadeIdle, MapLeads, MapComplete, LaunchedOnce,
                            EndedByFault, CutOnlyByFault
<1>11. ASSUME \/ \E d \in Device : Obey(d) \/ LoseCommand(d)
              \/ UNCHANGED vars
       PROVE  ConnInv'
  <2>1. UNCHANGED <<life, bs, nso2tcp, made, cmds, handler, dev_id_map, poller, faults>>
    BY <1>11 DEF Obey, LoseCommand
  <2> QED BY <2>1 DEF ConnInv, UnmadeIdle, MapLeads, MapComplete, LaunchedOnce,
                      EndedByFault, CutOnlyByFault
<1> QED BY <1>1, <1>2, <1>3, <1>4, <1>5, <1>6, <1>7, <1>8, <1>9, <1>10, <1>11 DEF Next

LEMMA ConnInvariant == Spec => []ConnInv
<1>1. Init => ConnInv
  <2> SUFFICES ASSUME Init PROVE ConnInv
    OBVIOUS
  <2>1. Len(made) = 0
    BY EmptySeq DEF Init
  <2> QED BY <2>1 DEF Init, ConnInv, UnmadeIdle, MapLeads, MapComplete, LaunchedOnce,
                      EndedByFault, CutOnlyByFault
<1>2. TypeOK /\ ConnInv /\ [Next]_vars => ConnInv'
  BY ConnStep
<1> QED BY <1>1, <1>2, TypeCorrect, PTL DEF Spec

\* The translator drops a base station only after a failure.
THEOREM CutsHaveACause == Spec => []CutOnlyByFault
<1>1. ConnInv => CutOnlyByFault
  BY DEF ConnInv
<1> QED BY <1>1, ConnInvariant, PTL
-----------------------------------------------------------------------------
(* The threads that ask for commands                                        *)

\* A thread that asks for a device's commands is there for good.
LEMMA PollersStay ==
  ASSUME TypeOK, [Next]_vars
  PROVE  \A d \in Device : PollersOf(d) # {} => PollersOf(d)' # {}
<1> USE DEF device, translator, service, history, vars
<1>1. \A c \in 1..Len(made) : c \in 1..Len(made') /\ made'[c] = made[c]
  <2>1. CASE UNCHANGED made
    BY <2>1
  <2>2. ASSUME NEW d \in Device, Len(made) < MaxConn,
               made' = Append(made, [dev |-> d, life |-> life])
        PROVE  \A c \in 1..Len(made) : c \in 1..Len(made') /\ made'[c] = made[c]
    BY <2>2, MakeFacts, MadeFacts
  <2>3. UNCHANGED made \/ \E d \in Device : FirstReading(d)
    BY DEF Next, Reconnect, Reading, Obey, LoseCommand, Act, Relay, RelayEnds, ReadEnd, Check,
           Launch, Report, Poll, Ask, Timeout, SendCommand
  <2> QED BY <2>1, <2>2, <2>3 DEF FirstReading, Refused
<1>2. \A c \in Conn : poller[c].at # "none" => poller'[c].at # "none"
  <2>1. CASE UNCHANGED poller
    BY <2>1
  <2>2. ASSUME NEW c \in 1..Len(made), Launch(c) \/ Poll(c)
        PROVE  \A e \in Conn : poller[e].at # "none" => poller'[e].at # "none"
    <3>1. c \in Conn /\ poller[c].at \in {"none", "ask", "waiting", "send"}
      BY MadeFacts DEF TypeOK
    <3>2. poller[c] = [at |-> poller[c].at, cmd |-> poller[c].cmd] /\ poller[c].cmd \in Command \cup {None}
      BY <3>1 DEF TypeOK
    <3>3. \E p \in {"ask", "waiting"}, m \in Command \cup {None} :
            poller' = [poller EXCEPT ![c] = [at |-> p, cmd |-> m]]
      BY <2>2, <3>2 DEF Launch, Poll, Ask, Timeout, SendCommand
    <3>4. poller \in [Conn -> [at : {"none", "ask", "waiting"}, cmd : {None}]
                              \cup [at : {"send"}, cmd : Command]]
      BY DEF TypeOK
    <3> QED BY <3>3, <3>4
  <2>3. ASSUME NEW d \in Device, NEW m \in Command, Act(d, m)
        PROVE  \A e \in Conn : poller[e].at # "none" => poller'[e].at # "none"
    <3>1. \/ UNCHANGED poller
          \/ poller' = [poller EXCEPT ![pending[d]] = [at |-> "send", cmd |-> m]]
      BY <2>3 DEF Act
    <3>2. poller \in [Conn -> [at : {"none", "ask", "waiting"}, cmd : {None}]
                              \cup [at : {"send"}, cmd : Command]]
      BY DEF TypeOK
    <3> QED BY <3>1, <3>2
  <2>4. \/ UNCHANGED poller
        \/ \E c \in 1..Len(made) : Launch(c) \/ Poll(c)
        \/ \E d \in Device, m \in Command : Act(d, m)
    BY DEF Next, Reconnect, FirstReading, Reading, Obey, LoseCommand, Relay, RelayEnds, ReadEnd,
           Check, Report
  <2> QED BY <2>1, <2>2, <2>3, <2>4
<1> QED BY <1>1, <1>2, MadeFacts DEF PollersOf

\* Wherever a command for a device is, there is a thread that asks for more.
CommandsPolled ==
  /\ \A d \in Device : air[d] # <<>> => PollersOf(d) # {}
  /\ \A c \in 1..Len(made) : cmds[c] # <<>> => PollersOf(made[c].dev) # {}

PollInv == StoppedHasPoller /\ CommandsPolled

LEMMA PollStep ==
  ASSUME TypeOK, ConnInv, PollInv, [Next]_vars
  PROVE  PollInv'
<1> USE DEF device, translator, service, history, vars
<1>0. \A c \in 1..Len(made) : c \in Conn /\ made[c].dev \in Device
  BY MadeFacts
<1>x. \A d \in Device : PollersOf(d) # {} => PollersOf(d)' # {}
  BY PollersStay
<1>1. CASE UNCHANGED <<stopped, air, made, cmds>>
  BY <1>0, <1>1, <1>x DEF PollInv, StoppedHasPoller, CommandsPolled, TypeOK
<1>2. ASSUME NEW d \in Device, FirstReading(d) PROVE PollInv'
  <2>1. CASE UNCHANGED made
    <3>1. UNCHANGED <<stopped, air, cmds>>
      BY <1>2 DEF FirstReading
    <3> QED BY <1>1, <2>1, <3>1
  <2>2. CASE Len(made) < MaxConn /\ made' = Append(made, [dev |-> d, life |-> life])
    <3>1. /\ Len(made) \in Nat /\ Len(made') = Len(made) + 1 /\ Len(made') \in Conn
          /\ \A c \in 1..Len(made) : made'[c] = made[c]
      BY <2>2, MakeFacts, MadeFacts
    <3>2. UNCHANGED <<stopped, air, cmds>>
      BY <1>2 DEF FirstReading
    <3>3. \A c \in 1..Len(made') : c \in 1..Len(made) \/ (c = Len(made') /\ c \notin 1..Len(made))
      BY <3>1
    <3>4. \A c \in 1..Len(made') : cmds'[c] # <<>> => c \in 1..Len(made)
      BY <3>1, <3>2, <3>3 DEF ConnInv, UnmadeIdle
    <3> QED BY <1>0, <1>x, <3>1, <3>2, <3>4 DEF PollInv, StoppedHasPoller, CommandsPolled, TypeOK
  <2> QED BY <1>2, <2>1, <2>2 DEF FirstReading, Refused
<1>3. ASSUME NEW c \in 1..Len(made), Relay(c) PROVE PollInv'
  <2>1. UNCHANGED <<stopped, made>> /\ PollersOf(made[c].dev) # {}
    BY <1>3 DEF Relay, PollInv, CommandsPolled
  <2>2. \A d \in Device : air'[d] = air[d] \/ d = made[c].dev
    BY <1>0, <1>3 DEF Relay, TypeOK
  <2>3. \A e \in 1..Len(made) : cmds'[e] = cmds[e] \/ e = c
    BY <1>0, <1>3 DEF Relay, TypeOK
  <2> QED BY <1>0, <1>x, <2>1, <2>2, <2>3 DEF PollInv, StoppedHasPoller, CommandsPolled, TypeOK
<1>4. ASSUME NEW c \in 1..Len(made), SendCommand(c) PROVE PollInv'
  <2>1. UNCHANGED <<stopped, air, made>> /\ PollersOf(made[c].dev) # {}
    BY <1>4 DEF SendCommand, PollersOf
  <2>2. \A e \in 1..Len(made) : cmds'[e] = cmds[e] \/ e = c
    BY <1>0, <1>4 DEF SendCommand, TypeOK
  <2> QED BY <1>0, <1>x, <2>1, <2>2 DEF PollInv, StoppedHasPoller, CommandsPolled, TypeOK
<1>5. ASSUME NEW d \in Device, Obey(d) \/ LoseCommand(d) PROVE PollInv'
  <2>1. UNCHANGED <<made, cmds>> /\ PollersOf(d) # {}
    BY <1>5 DEF Obey, LoseCommand, PollInv, CommandsPolled
  <2>2. \A e \in Device : air'[e] = air[e] \/ e = d
    BY <1>5 DEF Obey, LoseCommand, TypeOK
  <2>3. stopped' \subseteq stopped \cup {d}
    BY <1>5 DEF Obey, LoseCommand
  <2> QED BY <1>0, <1>x, <2>1, <2>2, <2>3 DEF PollInv, StoppedHasPoller, CommandsPolled, TypeOK
<1>6. \/ UNCHANGED <<stopped, air, made, cmds>>
      \/ \E d \in Device : FirstReading(d) \/ Obey(d) \/ LoseCommand(d)
      \/ \E c \in 1..Len(made) : Relay(c) \/ SendCommand(c)
  BY DEF Next, Reconnect, Reading, Act, RelayEnds, ReadEnd, Check, Launch, Report, Poll, Ask, Timeout
<1> QED BY <1>1, <1>2, <1>3, <1>4, <1>5, <1>6

\* For a stopped device there is always a thread that asks for its commands.
THEOREM StoppedIsPolled == Spec => []StoppedHasPoller
<1>1. Init => PollInv
  <2> SUFFICES ASSUME Init PROVE PollInv
    OBVIOUS
  <2>1. Len(made) = 0
    BY EmptySeq DEF Init
  <2> QED BY <2>1 DEF Init, PollInv, StoppedHasPoller, CommandsPolled
<1>2. TypeOK /\ ConnInv /\ PollInv /\ [Next]_vars => PollInv'
  BY PollStep
<1>3. PollInv => StoppedHasPoller
  BY DEF PollInv
<1> QED BY <1>1, <1>2, <1>3, TypeCorrect, ConnInvariant, PTL DEF Spec
-----------------------------------------------------------------------------
(* The order of commands                                                    *)

For(c, d) == c \in 1..Len(made) /\ made[c].dev = d
Sending(c) == poller[c].at = "send"
Busy(c) == Sending(c) \/ cmds[c] # <<>>

\* The last command for d is with a thread that got it; or last on a
\* connection whose thread has nothing newer; or the last one sent to the
\* device, or obeyed, and then no connection that leads to the device holds
\* an older one.
WithThread(c, d)   == For(c, d) /\ Sending(c) /\ poller[c].cmd = last[d]
OnConnection(c, d) == For(c, d) /\ ~Sending(c) /\ cmds[c] # <<>> /\ EndOf(cmds[c]) = last[d]
AtDevice(d) ==
  /\ air[d] # <<>> => EndOf(air[d]) = last[d]
  /\ air[d] = <<>> => (d \in stopped <=> last[d] = "stop")
  /\ \A c \in Conn : For(c, d) /\ Leads(c) => ~Busy(c)

LatestIsSomewhere(d) ==
  \/ \E c \in Conn : WithThread(c, d)
  \/ \E c \in Conn : OnConnection(c, d)
  \/ AtDevice(d)

OrderInv == \A d \in Device \ lost : LatestIsSomewhere(d)

\* A step that leaves the commands where they are.
LEMMA QuietStep ==
  ASSUME TypeOK, OrderInv,
         UNCHANGED <<stopped, air, made, cmds, last, lost>>,
         \A c \in 1..Len(made) : Leads(c)' => Leads(c),
         \A c \in 1..Len(made) : Sending(c) \/ Sending(c)' => poller'[c] = poller[c]
  PROVE  OrderInv'
<1> SUFFICES ASSUME NEW d \in Device \ lost PROVE LatestIsSomewhere(d)'
  BY DEF OrderInv
<1>0. \A c : For(c, d)' <=> For(c, d)
  BY DEF For
<1>1. ASSUME NEW c \in Conn, WithThread(c, d) PROVE WithThread(c, d)'
  BY <1>0, <1>1 DEF WithThread, For, Sending
<1>2. ASSUME NEW c \in Conn, OnConnection(c, d) PROVE OnConnection(c, d)'
  BY <1>0, <1>2 DEF OnConnection, For, Sending, EndOf
<1>3. ASSUME AtDevice(d) PROVE AtDevice(d)'
  BY <1>0, <1>3 DEF AtDevice, For, Busy, Sending, EndOf
<1> QED BY <1>1, <1>2, <1>3 DEF OrderInv, LatestIsSomewhere

\* There is one connection of a device that leads to it.
LEMMA OneLeads ==
  ASSUME TypeOK, ConnInv, NEW d \in Device, NEW c, NEW e,
         For(c, d), Leads(c), For(e, d), Leads(e)
  PROVE  c = e
BY DEF For, Leads, ConnInv, MapComplete

\* The web server keeps a device's request under its id.
PendingInv == \A d \in Device : pending[d] # 0 => made[pending[d]].dev = d

LEMMA PendingStep ==
  ASSUME TypeOK, PendingInv, [Next]_vars
  PROVE  PendingInv'
<1> USE DEF device, translator, service, history, vars
<1>0. /\ Len(made) \in Nat
      /\ \A c \in 1..Len(made) : made[c].dev \in Device
  BY MadeFacts
<1>1. CASE UNCHANGED <<pending, made>>
  BY <1>1 DEF PendingInv
<1>2. ASSUME NEW e \in Device, FirstReading(e) PROVE PendingInv'
  <2>1. UNCHANGED pending
    BY <1>2 DEF FirstReading
  <2>2. CASE UNCHANGED made
    BY <1>1, <2>1, <2>2
  <2>3. CASE Len(made) < MaxConn /\ made' = Append(made, [dev |-> e, life |-> life])
    <3>1. \A c \in 1..Len(made) : made'[c] = made[c]
      BY <2>3, MakeFacts
    <3>2. \A d \in Device : pending[d] # 0 => pending[d] \in 1..Len(made)
      BY <1>0 DEF TypeOK
    <3> QED BY <2>1, <3>1, <3>2 DEF PendingInv
  <2> QED BY <1>2, <2>2, <2>3 DEF FirstReading, Refused
<1>3. ASSUME NEW c \in 1..Len(made), Ask(c) PROVE PendingInv'
  <2>1. pending' = [pending EXCEPT ![made[c].dev] = c] /\ UNCHANGED made
    BY <1>3 DEF Ask
  <2>2. pending \in [Device -> 0..Len(made)]
    BY DEF TypeOK
  <2> QED BY <1>0, <2>1, <2>2 DEF PendingInv
<1>4. ASSUME NEW e \in Device, NEW m \in Command, Act(e, m) PROVE PendingInv'
  <2>1. pending' = [pending EXCEPT ![e] = 0] /\ UNCHANGED made
    BY <1>4 DEF Act
  <2>2. pending \in [Device -> 0..Len(made)]
    BY DEF TypeOK
  <2> QED BY <2>1, <2>2 DEF PendingInv
<1>5. \/ UNCHANGED <<pending, made>>
      \/ \E e \in Device : FirstReading(e) \/ \E m \in Command : Act(e, m)
      \/ \E c \in 1..Len(made) : Ask(c)
  BY DEF Next, Reconnect, Reading, Obey, LoseCommand, Relay, RelayEnds, ReadEnd, Check,
         Launch, Report, Poll, Timeout, SendCommand
<1> QED BY <1>1, <1>2, <1>3, <1>4, <1>5

LEMMA OrderStep ==
  ASSUME TypeOK, ConnInv, PendingInv, OrderInv, [Next]_vars
  PROVE  OrderInv'
<1> USE DEF device, translator, service, history, vars
<1>0. /\ Len(made) \in Nat
      /\ \A c \in 1..Len(made) : c \in Conn /\ made[c].dev \in Device /\ made[c].life \in 1..life
  BY MadeFacts
<1>1. CASE Reconnect
  <2>1. /\ UNCHANGED <<stopped, air, made, cmds, last, lost, poller>>
        /\ life' = life + 1 /\ life \in Nat
    BY <1>1, DataPlaneAssumption DEF Reconnect, TypeOK
  <2>2. \A c \in 1..Len(made) : ~Leads(c)'
    BY <1>0, <2>1 DEF Leads
  <2> QED BY <2>1, <2>2, QuietStep DEF Sending
<1>2. ASSUME NEW e \in Device, FirstReading(e) PROVE OrderInv'
  <2>0. UNCHANGED <<stopped, air, cmds, last, lost, poller, life>> /\ bs = "open"
    BY <1>2 DEF FirstReading
  <2>1. CASE Refused
    <3>1. bs' = "broken" /\ UNCHANGED made
      BY <2>1 DEF Refused
    <3> QED BY <2>0, <3>1, QuietStep DEF Sending, Leads
  <2>2. CASE Len(made) < MaxConn /\ made' = Append(made, [dev |-> e, life |-> life]) /\ UNCHANGED bs
    <3>1. /\ Len(made') = Len(made) + 1
          /\ \A c \in 1..Len(made) : made'[c] = made[c]
      BY <2>2, MakeFacts
    <3>2. \A c \in 1..Len(made) : c \in 1..Len(made')
      BY <1>0, <3>1
    <3>3. \A c \in Conn : c \notin 1..Len(made) => ~Busy(c)
      BY DEF ConnInv, UnmadeIdle, Busy, Sending
    <3> SUFFICES ASSUME NEW d \in Device \ lost PROVE LatestIsSomewhere(d)'
      BY <2>0 DEF OrderInv
    <3>4. \A c : For(c, d) => For(c, d)'
      BY <3>1, <3>2 DEF For
    <3>5. ASSUME NEW c \in Conn, WithThread(c, d) PROVE WithThread(c, d)'
      BY <2>0, <3>4, <3>5 DEF WithThread, Sending
    <3>6. ASSUME NEW c \in Conn, OnConnection(c, d) PROVE OnConnection(c, d)'
      BY <2>0, <3>4, <3>6 DEF OnConnection, Sending, EndOf
    <3>7. ASSUME AtDevice(d) PROVE AtDevice(d)'
      <4>1. ASSUME NEW c \in Conn, For(c, d)', Leads(c)' PROVE ~Busy(c)
        <5>1. CASE c \in 1..Len(made)
          BY <2>0, <2>2, <3>1, <3>7, <4>1, <5>1 DEF AtDevice, For, Leads
        <5>2. CASE c \notin 1..Len(made)
          BY <3>3, <5>2
        <5> QED BY <5>1, <5>2
      <4> QED BY <2>0, <3>7, <4>1 DEF AtDevice, Busy, Sending, EndOf
    <3> QED BY <3>5, <3>6, <3>7 DEF OrderInv, LatestIsSomewhere
  <2> QED BY <1>2, <2>1, <2>2 DEF FirstReading
<1>3. ASSUME NEW e \in Device, Reading(e) PROVE OrderInv'
  <2>1. UNCHANGED <<stopped, air, made, cmds, last, lost, poller, life>> /\ bs = "open"
    BY <1>3 DEF Reading
  <2> QED BY <2>1, QuietStep DEF Sending, Leads
<1>4. ASSUME NEW e \in 1..Len(made), RelayEnds(e) \/ ReadEnd(e) \/ Check(e) \/ Report(e) PROVE OrderInv'
  <2>1. UNCHANGED <<stopped, air, made, cmds, last, lost, poller, life, bs>>
    BY <1>4 DEF RelayEnds, ReadEnd, Check, Report
  <2> QED BY <2>1, QuietStep DEF Sending, Leads
<1>5. ASSUME NEW e \in 1..Len(made), Launch(e) \/ Ask(e) \/ Timeout(e) PROVE OrderInv'
  <2>1. UNCHANGED <<stopped, air, made, cmds, last, lost, life, bs>>
    BY <1>5 DEF Launch, Ask, Timeout
  <2>2. ~Sending(e)
    BY <1>5 DEF Launch, Ask, Timeout, Sending, ConnInv, LaunchedOnce
  <2>3. poller[e] = [at |-> poller[e].at, cmd |-> poller[e].cmd] /\ poller[e].cmd \in Command \cup {None}
    BY <1>0 DEF TypeOK
  <2>4. \E p \in {"ask", "waiting"}, m \in Command \cup {None} : poller' = [poller EXCEPT ![e] = [at |-> p, cmd |-> m]]
    BY <1>5, <2>3 DEF Launch, Ask, Timeout
  <2>5. \A c \in 1..Len(made) : poller'[c] = poller[c] \/ (c = e /\ ~Sending(c)')
    <3>1. poller \in [Conn -> [at : {"none", "ask", "waiting"}, cmd : {None}]
                              \cup [at : {"send"}, cmd : Command]]
      BY DEF TypeOK
    <3> PICK p \in {"ask", "waiting"}, m \in Command \cup {None} : poller' = [poller EXCEPT ![e] = [at |-> p, cmd |-> m]]
      BY <2>4
    <3>2. e \in Conn /\ poller'[e].at = p
      BY <1>0, <3>1
    <3>3. \A c \in Conn : c = e \/ poller'[c] = poller[c]
      BY <3>1
    <3>4. ~Sending(e)'
      BY <3>2 DEF Sending
    <3> QED BY <1>0, <3>3, <3>4, Zenon
  <2> QED BY <2>1, <2>2, <2>5, QuietStep DEF Leads
<1>6. ASSUME NEW e \in 1..Len(made), Relay(e) PROVE OrderInv'
  <2>0. /\ UNCHANGED <<stopped, made, last, poller, life, bs>>
        /\ cmds[e] # <<>> /\ cmds[e] \in Seq(Command) /\ Head(cmds[e]) \in Command
        /\ e \in Conn /\ made[e].dev \in Device
        /\ \A d \in Device : air[d] \in Seq(Command)
    BY <1>0, <1>6, QueueTake DEF Relay, TypeOK
  <2> SUFFICES ASSUME NEW d \in Device, d \notin lost' PROVE LatestIsSomewhere(d)'
    BY DEF OrderInv
  <2>1. \A c : For(c, d)' <=> For(c, d)
    BY <2>0 DEF For
  <2>2. \A c : Leads(c)' <=> Leads(c)
    BY <2>0 DEF Leads
  <2>3. \A c \in Conn : cmds'[c] = cmds[c] \/ c = e
    BY <1>6 DEF Relay, TypeOK
  <2>4. CASE made[e].dev # d
    <3>1. ~For(e, d) /\ d \notin lost /\ air'[d] = air[d]
      BY <1>6, <2>0, <2>4 DEF Relay, For, TypeOK
    <3>2. ASSUME NEW c \in Conn, WithThread(c, d) PROVE WithThread(c, d)'
      BY <2>0, <2>1, <3>2 DEF WithThread, Sending
    <3>3. ASSUME NEW c \in Conn, OnConnection(c, d) PROVE OnConnection(c, d)'
      BY <2>0, <2>1, <2>3, <3>1, <3>3 DEF OnConnection, Sending, EndOf
    <3>4. ASSUME AtDevice(d) PROVE AtDevice(d)'
      BY <2>0, <2>1, <2>2, <2>3, <3>1, <3>4 DEF AtDevice, Busy, Sending, EndOf
    <3> QED BY <3>1, <3>2, <3>3, <3>4 DEF OrderInv, LatestIsSomewhere
  <2>5. CASE made[e].dev = d
    <3>1. /\ Leads(e) /\ d \notin lost /\ For(e, d)
          /\ air' = [air EXCEPT ![d] = Append(@, Head(cmds[e]))]
          /\ cmds' = [cmds EXCEPT ![e] = Tail(@)]
      BY <1>6, <2>5 DEF Relay, For
    <3>2. air'[d] = Append(air[d], Head(cmds[e])) /\ cmds'[e] = Tail(cmds[e])
      BY <2>0, <3>1 DEF TypeOK
    <3>3. ASSUME NEW c \in Conn, WithThread(c, d) PROVE WithThread(c, d)'
      BY <2>0, <2>1, <3>3 DEF WithThread, Sending
    <3>4. ASSUME NEW c \in Conn, OnConnection(c, d) PROVE LatestIsSomewhere(d)'
      <4>1. CASE c # e \/ Tail(cmds[e]) # <<>>
        <5>1. OnConnection(c, d)'
          BY <2>0, <2>1, <2>3, <3>2, <3>4, <4>1, QueueTake, ZenonT(60) DEF OnConnection, Sending, EndOf
        <5> QED BY <5>1 DEF LatestIsSomewhere
      <4>2. CASE c = e /\ Tail(cmds[e]) = <<>>
        <5>1. Head(cmds[e]) = last[d]
          BY <2>0, <3>4, <4>2, QueueTake DEF OnConnection
        <5>2. air'[d] # <<>> /\ EndOf(air'[d]) = last'[d]
          BY <2>0, <3>2, <5>1, QueuePut
        <5>3. ASSUME NEW f \in Conn, For(f, d)', Leads(f)' PROVE ~Busy(f)'
          <6>1. f = e
            BY <2>1, <2>2, <3>1, <5>3, OneLeads
          <6> QED BY <2>0, <3>2, <3>4, <4>2, <6>1 DEF Busy, Sending, OnConnection
        <5>4. AtDevice(d)'
          BY <5>2, <5>3 DEF AtDevice, EndOf
        <5> QED BY <5>4 DEF LatestIsSomewhere
      <4> QED BY <4>1, <4>2
    <3>5. ~AtDevice(d)
      BY <2>0, <3>1 DEF AtDevice, Busy
    <3> QED BY <3>1, <3>3, <3>4, <3>5 DEF OrderInv, LatestIsSomewhere
  <2> QED BY <2>4, <2>5
<1>7. ASSUME NEW e \in 1..Len(made), SendCommand(e) PROVE OrderInv'
  <2>0. /\ UNCHANGED <<stopped, air, made, last, life, bs>>
        /\ Sending(e) /\ e \in Conn /\ cmds[e] \in Seq(Command)
    BY <1>0, <1>7 DEF SendCommand, Sending, TypeOK
  <2>8. poller[e].cmd \in Command
    BY <2>0 DEF Sending, TypeOK
  <2>9. \A c \in Conn : IF c = e THEN ~Sending(c)' ELSE poller'[c] = poller[c]
    BY <1>7, <2>0 DEF SendCommand, Sending, TypeOK
  <2> SUFFICES ASSUME NEW d \in Device, d \notin lost' PROVE LatestIsSomewhere(d)'
    BY DEF OrderInv
  <2>1. \A c : For(c, d)' <=> For(c, d)
    BY <2>0 DEF For
  <2>2. \A c : Leads(c)' <=> Leads(c)
    BY <2>0 DEF Leads
  <2>3. \A c \in Conn : cmds'[c] = cmds[c] \/ c = e
    BY <1>7 DEF SendCommand, TypeOK
  <2>4. d \notin lost
    BY <1>7 DEF SendCommand
  <2>5. ASSUME NEW c \in Conn, WithThread(c, d) PROVE LatestIsSomewhere(d)'
    <3>1. CASE c # e
      <4>1. WithThread(c, d)'
        BY <2>0, <2>1, <2>9, <2>5, <3>1 DEF WithThread, Sending
      <4> QED BY <4>1 DEF LatestIsSomewhere
    <3>2. CASE c = e
      <4>1. For(e, d) /\ poller[e].cmd = last[d]
        BY <2>5, <3>2 DEF WithThread
      <4>2. cmds' = [cmds EXCEPT ![e] = Append(@, poller[e].cmd)]
        BY <1>7, <4>1 DEF SendCommand, For
      <4>3. cmds'[e] = Append(cmds[e], poller[e].cmd)
        BY <2>0, <4>2 DEF TypeOK
      <4>4. cmds'[e] # <<>> /\ EndOf(cmds'[e]) = last[d]
        BY <2>0, <2>8, <4>1, <4>3, QueuePut
      <4>5. OnConnection(e, d)'
        BY <2>0, <2>1, <2>9, <4>1, <4>4 DEF OnConnection, EndOf
      <4> QED BY <2>0, <4>5 DEF LatestIsSomewhere
    <3> QED BY <3>1, <3>2
  <2>6. ASSUME NEW c \in Conn, OnConnection(c, d) PROVE OnConnection(c, d)'
    <3>1. c # e
      BY <2>0, <2>6 DEF OnConnection
    <3> QED BY <2>0, <2>1, <2>3, <2>9, <2>6, <3>1 DEF OnConnection, Sending, EndOf
  <2>7. ASSUME AtDevice(d) PROVE AtDevice(d)'
    <3>1. ASSUME NEW c \in Conn, For(c, d)', Leads(c)' PROVE ~Busy(c)'
      <4>1. ~Busy(c)
        BY <2>1, <2>2, <2>7, <3>1 DEF AtDevice
      <4>2. c # e
        BY <2>0, <4>1 DEF Busy
      <4> QED BY <2>3, <2>9, <4>1, <4>2 DEF Busy, Sending
    <3> QED BY <2>0, <2>7, <3>1 DEF AtDevice, EndOf
  <2> QED BY <2>4, <2>5, <2>6, <2>7 DEF OrderInv, LatestIsSomewhere
<1>8. ASSUME NEW e \in Device, NEW m \in Command, Act(e, m) PROVE OrderInv'
  <2>0. UNCHANGED <<stopped, air, made, cmds, life, bs>> /\ last' = [last EXCEPT ![e] = m]
    BY <1>8 DEF Act
  <2>1. pending[e] \in 1..Len(made) /\ pending[e] \in Conn
    BY <1>0, <1>8 DEF Act, TypeOK
  <2>2. \/ /\ poller[pending[e]].at = "waiting"
           /\ poller' = [poller EXCEPT ![pending[e]] = [at |-> "send", cmd |-> m]]
           /\ lost' = lost \ {e}
        \/ lost' = lost \cup {e} /\ UNCHANGED poller
    BY <1>8 DEF Act
  <2>3. made[pending[e]].dev = e
    BY <1>8 DEF Act, PendingInv
  <2> SUFFICES ASSUME NEW d \in Device, d \notin lost' PROVE LatestIsSomewhere(d)'
    BY DEF OrderInv
  <2>4. \A c : (For(c, d)' <=> For(c, d)) /\ (Leads(c)' <=> Leads(c))
    BY <2>0 DEF For, Leads
  <2>5. CASE d = e
    <3>1. poller' = [poller EXCEPT ![pending[e]] = [at |-> "send", cmd |-> m]]
      BY <2>2, <2>5
    <3> PICK c \in Conn : c = pending[e]
      BY <2>1
    <3>2. poller'[c] = [at |-> "send", cmd |-> m] /\ last'[d] = m
      BY <2>0, <2>1, <2>5, <3>1 DEF TypeOK
    <3>3. WithThread(c, d)'
      BY <2>1, <2>3, <2>4, <2>5, <3>2 DEF WithThread, For, Sending
    <3> QED BY <3>3 DEF LatestIsSomewhere
  <2>6. CASE d # e
    <3>1. d \notin lost /\ last'[d] = last[d]
      BY <2>0, <2>2, <2>6 DEF TypeOK
    <3>2. \A c \in Conn : For(c, d) => poller'[c] = poller[c]
      BY <2>2, <2>3, <2>6 DEF For, TypeOK
    <3>3. ASSUME NEW c \in Conn, WithThread(c, d) PROVE WithThread(c, d)'
      BY <2>4, <3>1, <3>2, <3>3 DEF WithThread, Sending
    <3>4. ASSUME NEW c \in Conn, OnConnection(c, d) PROVE OnConnection(c, d)'
      BY <2>0, <2>4, <3>1, <3>2, <3>4 DEF OnConnection, Sending, EndOf
    <3>5. ASSUME AtDevice(d) PROVE AtDevice(d)'
      BY <2>0, <2>4, <3>1, <3>2, <3>5 DEF AtDevice, Busy, Sending, EndOf
    <3> QED BY <3>1, <3>3, <3>4, <3>5 DEF OrderInv, LatestIsSomewhere
  <2> QED BY <2>5, <2>6
<1>9. ASSUME NEW e \in Device, Obey(e) PROVE OrderInv'
  <2>0. /\ UNCHANGED <<made, cmds, life, bs, poller, last, lost>>
        /\ air[e] # <<>> /\ air[e] \in Seq(Command)
        /\ air' = [air EXCEPT ![e] = Tail(@)]
        /\ stopped' = IF Head(air[e]) = "stop" THEN stopped \cup {e} ELSE stopped \ {e}
    BY <1>9 DEF Obey, TypeOK
  <2> SUFFICES ASSUME NEW d \in Device \ lost PROVE LatestIsSomewhere(d)'
    BY <2>0 DEF OrderInv
  <2>1. \A c : (For(c, d)' <=> For(c, d)) /\ (Leads(c)' <=> Leads(c)) /\ (Busy(c)' <=> Busy(c))
    BY <2>0 DEF For, Leads, Busy, Sending
  <2>2. ASSUME NEW c \in Conn, WithThread(c, d) PROVE WithThread(c, d)'
    BY <2>0, <2>1, <2>2 DEF WithThread, Sending
  <2>3. ASSUME NEW c \in Conn, OnConnection(c, d) PROVE OnConnection(c, d)'
    BY <2>0, <2>1, <2>3 DEF OnConnection, Sending, EndOf
  <2>4. ASSUME AtDevice(d) PROVE AtDevice(d)'
    <3>1. \A c \in Conn : For(c, d)' /\ Leads(c)' => ~Busy(c)'
      BY <2>1, <2>4 DEF AtDevice
    <3>2. CASE d # e
      <4>1. air'[d] = air[d] /\ (d \in stopped' <=> d \in stopped)
        BY <2>0, <3>2 DEF TypeOK
      <4> QED BY <2>0, <2>4, <3>1, <4>1 DEF AtDevice, EndOf
    <3>3. CASE d = e
      <4>1. air'[d] = Tail(air[d])
        BY <2>0, <3>3 DEF TypeOK
      <4>2. EndOf(air[d]) = last[d]
        BY <2>0, <2>4, <3>3 DEF AtDevice
      <4>3. air'[d] # <<>> => EndOf(air'[d]) = last[d]
        BY <2>0, <3>3, <4>1, <4>2, QueueTake
      <4>4. air'[d] = <<>> => Head(air[d]) = last[d]
        BY <2>0, <3>3, <4>1, <4>2, QueueTake
      <4>5. air'[d] = <<>> => (d \in stopped' <=> last[d] = "stop")
        BY <2>0, <3>3, <4>4
      <4> QED BY <2>0, <3>1, <4>3, <4>5 DEF AtDevice, EndOf
    <3> QED BY <3>2, <3>3
  <2> QED BY <2>2, <2>3, <2>4 DEF OrderInv, LatestIsSomewhere
<1>10. ASSUME NEW e \in Device, LoseCommand(e) PROVE OrderInv'
  <2>0. /\ UNCHANGED <<stopped, made, cmds, life, bs, poller, last>>
        /\ lost' = lost \cup {e}
        /\ air' = [air EXCEPT ![e] = Tail(@)]
    BY <1>10 DEF LoseCommand
  <2> SUFFICES ASSUME NEW d \in Device \ lost, d # e PROVE LatestIsSomewhere(d)'
    BY <2>0 DEF OrderInv
  <2>1. \A c : (For(c, d)' <=> For(c, d)) /\ (Leads(c)' <=> Leads(c)) /\ (Busy(c)' <=> Busy(c))
    BY <2>0 DEF For, Leads, Busy, Sending
  <2>2. ASSUME NEW c \in Conn, WithThread(c, d) PROVE WithThread(c, d)'
    BY <2>0, <2>1, <2>2 DEF WithThread, Sending
  <2>3. ASSUME NEW c \in Conn, OnConnection(c, d) PROVE OnConnection(c, d)'
    BY <2>0, <2>1, <2>3 DEF OnConnection, Sending, EndOf
  <2>4. ASSUME AtDevice(d) PROVE AtDevice(d)'
    <3>1. air'[d] = air[d]
      BY <2>0 DEF TypeOK
    <3> QED BY <2>0, <2>1, <2>4, <3>1 DEF AtDevice, EndOf
  <2> QED BY <2>2, <2>3, <2>4 DEF OrderInv, LatestIsSomewhere
<1>11. CASE UNCHANGED vars
  BY <1>11, QuietStep DEF Sending, Leads
<1> QED BY <1>1, <1>2, <1>3, <1>4, <1>5, <1>6, <1>7, <1>8, <1>9, <1>10, <1>11 DEF Next, Poll

\* With none on its way and the last one not lost, a device does what the last
\* command said: none overtakes another.
THEOREM LatestIsObeyed == Spec => []ObeysLatest
<1>1. Init => OrderInv
  <2> SUFFICES ASSUME Init PROVE OrderInv
    OBVIOUS
  <2>1. Len(made) = 0
    BY EmptySeq DEF Init
  <2>2. ASSUME NEW d \in Device PROVE AtDevice(d)
    <3>1. \A c \in Conn : ~For(c, d)
      BY <2>1 DEF For
    <3>2. air[d] = <<>> /\ d \notin stopped /\ last[d] = "start"
      BY DEF Init
    <3> QED BY <3>1, <3>2 DEF AtDevice
  <2> QED BY <2>2 DEF OrderInv, LatestIsSomewhere
<1>2. TypeOK /\ ConnInv /\ PendingInv /\ OrderInv /\ [Next]_vars => OrderInv'
  BY OrderStep
<1>3. Init => PendingInv
  BY DEF Init, PendingInv
<1>4. TypeOK /\ PendingInv /\ [Next]_vars => PendingInv'
  BY PendingStep
<1>5. TypeOK /\ OrderInv => ObeysLatest
  <2> SUFFICES ASSUME TypeOK, OrderInv, NEW d \in Device, ~Underway(d), d \notin lost
               PROVE  d \in stopped <=> last[d] = "stop"
    BY DEF ObeysLatest
  <2>1. \A c \in Conn : ~WithThread(c, d) /\ ~OnConnection(c, d)
    BY DEF Underway, WithThread, OnConnection, For, Sending
  <2>2. AtDevice(d)
    BY <2>1 DEF OrderInv, LatestIsSomewhere
  <2> QED BY <2>2 DEF AtDevice, Underway
<1> QED BY <1>1, <1>2, <1>3, <1>4, <1>5, TypeCorrect, ConnInvariant, PTL DEF Spec
=============================================================================
