----------------------------- MODULE DataPlane -----------------------------
(***************************************************************************)
(* Readings up and commands down: the data plane translator                *)
(* (dptr/translator/trans.py), the power meter's service                   *)
(* (dptr/application/power_meter.py), the web server                       *)
(* (websocket-io/index.js) and the command loop of the device.             *)
(*                                                                         *)
(* A base station has one connection to the translator, which makes one    *)
(* connection to the service for each device that it reads data of, with a *)
(* thread that takes commands back.  The service has a handler for each    *)
(* connection and, for each device id that it has not met before, a thread *)
(* that asks the web server for the next command by a request that is      *)
(* answered when a user gives one.                                         *)
(*                                                                         *)
(* A read takes one reading, or one command; a reading is sent when the    *)
(* service reads.  Devices hear the base station itself, so that what      *)
(* arrives is in order.  What the readings say is in LossAccounting.       *)
(***************************************************************************)
EXTENDS Naturals, Sequences

CONSTANTS
  Device,
  MaxConn,   \* bound: connections to the service
  MaxLife,   \* bound: connections of the base station to the translator
  MaxFaults, \* bound: requests and connections that fail
  Window,    \* bound: commands on their way in one place
  None       \* no device; no command

ASSUME DataPlaneAssumption ==
  /\ MaxConn \in Nat /\ MaxLife \in Nat \ {0} /\ MaxFaults \in Nat /\ Window \in Nat \ {0}
  /\ None \notin Device

VARIABLES
  stopped,  \* devices whose power_meter.stop_charge is set
  air,      \* commands from the base station to each device
  life,     \* which connection the base station now has to the translator
  bs,       \* the translator's handler of it: "open" or "broken"
  nso2tcp,  \* its __nso_map: the connection for a device, 0 if none
  made,     \* connections to the service: for which device, in which life
  relay,    \* the translator's thread of each: "none", "open" or "ended"
  cmds,     \* commands on their way back on each
  handler,  \* where the service's handler of each is
  dev_id_map, \* device ids the service has met
  poller,   \* where the thread that asks for commands for a connection is
  pending,  \* resContainer: whose request is answered next, for each device
  last,     \* history: the last command taken for each device
  lost,     \* history: devices for which a command was lost since
  faults

device     == <<stopped, air>>
translator == <<life, bs, nso2tcp, made, relay, cmds>>
service    == <<handler, dev_id_map, poller>>
history    == <<last, lost>>
vars       == <<device, translator, service, pending, history, faults>>

Conn    == 1..MaxConn
Command == {"start", "stop"}

Init ==
  /\ stopped = {} /\ air = [d \in Device |-> <<>>]
  /\ life = 1 /\ bs = "open" /\ nso2tcp = [d \in Device |-> 0]
  /\ made = <<>> /\ relay = [c \in Conn |-> "none"]
  /\ cmds = [c \in Conn |-> <<>>]
  /\ handler = [c \in Conn |-> "none"] /\ dev_id_map = {}
  /\ poller = [c \in Conn |-> [at |-> "none", cmd |-> None]]
  /\ pending = [d \in Device |-> 0]
  /\ last = [d \in Device |-> "start"] /\ lost = {} /\ faults = 0

Fails == faults < MaxFaults /\ faults' = faults + 1

\* Connection c still leads to the base station.
Leads(c) == made[c].life = life /\ bs = "open"
-----------------------------------------------------------------------------
(* The base station and the translator                                      *)

\* Mutant of Reconnect: the map is shared by all handlers.
ReconnectSharedMap ==
  /\ life < MaxLife
  /\ life' = life + 1 /\ bs' = "open"
  /\ UNCHANGED <<device, nso2tcp, made, relay, cmds, service, pending, history, faults>>

\* The base station's process is started again: a new handler, an empty map.
Reconnect ==
  /\ life < MaxLife
  /\ life' = life + 1 /\ bs' = "open"
  /\ nso2tcp' = [d \in Device |-> 0]
  /\ UNCHANGED <<device, made, relay, cmds, service, pending, history, faults>>

\* The application refuses a connection: the exception ends the handler.
Refused == Fails /\ bs' = "broken" /\ UNCHANGED <<made, relay, handler>>

\* Mutant of FirstReading: the entry is made before the connection.
FirstReadingEntersFirst(d) ==
  /\ d \notin stopped /\ bs = "open" /\ nso2tcp[d] = 0 /\ Len(made) < MaxConn
  /\ nso2tcp' = [nso2tcp EXCEPT ![d] = Len(made) + 1]
  /\ \/ /\ made' = Append(made, [dev |-> d, life |-> life])
        /\ relay' = [relay EXCEPT ![Len(made')] = "open"]
        /\ handler' = [handler EXCEPT ![Len(made')] = "check"]
        /\ UNCHANGED <<bs, faults>>
     \/ Refused
  /\ UNCHANGED <<device, life, cmds, dev_id_map, poller, pending, history>>

\* service.handle of the translator: the first reading of a device, which sends
\* none while it is stopped.
FirstReading(d) ==
  /\ d \notin stopped /\ bs = "open" /\ nso2tcp[d] = 0
  /\ \/ /\ Len(made) < MaxConn
        /\ made' = Append(made, [dev |-> d, life |-> life])
        /\ nso2tcp' = [nso2tcp EXCEPT ![d] = Len(made')]
        /\ relay' = [relay EXCEPT ![Len(made')] = "open"]
        /\ handler' = [handler EXCEPT ![Len(made')] = "check"]
        /\ UNCHANGED <<bs, faults>>
     \/ Refused /\ UNCHANGED nso2tcp
  /\ UNCHANGED <<device, life, cmds, dev_id_map, poller, pending, history>>

\* Any other.  A number that is not to be accounted for ends the service's
\* handler.  When that has closed the connection, the first write is lost and
\* one after it raises: all devices of the base station are cut off.
Reading(d) ==
  /\ d \notin stopped /\ bs = "open" /\ nso2tcp[d] # 0
  /\ LET c == nso2tcp[d] IN
       \/ /\ handler[c] = "read"
          /\ \/ handler' = [handler EXCEPT ![c] = "check"] /\ UNCHANGED faults
             \/ handler' = [handler EXCEPT ![c] = "ended"] /\ Fails
          /\ UNCHANGED bs
       \/ /\ handler[c] = "ended"
          /\ bs' = "broken"
          /\ UNCHANGED <<handler, faults>>
  /\ UNCHANGED <<device, life, nso2tcp, made, relay, cmds, dev_id_map, poller, pending, history>>

\* __rx_from_app_server: a command goes to the base station whose handler made
\* the connection; if that one is gone the thread ends with an exception.
Relay(c) ==
  /\ relay[c] = "open" /\ cmds[c] # <<>>
  /\ LET d == made[c].dev IN
       \/ /\ Leads(c) /\ Len(air[d]) < Window
          /\ air' = [air EXCEPT ![d] = Append(@, Head(cmds[c]))]
          /\ cmds' = [cmds EXCEPT ![c] = Tail(@)]
          /\ UNCHANGED <<relay, lost>>
       \/ /\ ~Leads(c)
          /\ relay' = [relay EXCEPT ![c] = "ended"]
          /\ cmds' = [cmds EXCEPT ![c] = <<>>]
          /\ lost' = lost \cup {d}
          /\ UNCHANGED air
  /\ UNCHANGED <<stopped, life, bs, nso2tcp, made, service, pending, last, faults>>

\* It reads the end of the connection that the service has closed.
RelayEnds(c) ==
  /\ relay[c] = "open" /\ cmds[c] = <<>> /\ handler[c] = "ended"
  /\ relay' = [relay EXCEPT ![c] = "ended"]
  /\ UNCHANGED <<device, life, bs, nso2tcp, made, cmds, service, pending, history, faults>>
-----------------------------------------------------------------------------
(* The service's handlers                                                   *)

\* It reads the end of a connection that the translator no longer refers to.
ReadEnd(c) ==
  /\ handler[c] = "read" /\ relay[c] = "ended" /\ made[c].life # life
  /\ handler' = [handler EXCEPT ![c] = "ended"]
  /\ UNCHANGED <<device, translator, dev_id_map, poller, pending, history, faults>>

\* if dev_id not in dev_id_map ...
Check(c) ==
  /\ handler[c] = "check"
  /\ handler' = [handler EXCEPT ![c] = IF made[c].dev \in dev_id_map THEN "report" ELSE "launch"]
  /\ UNCHANGED <<device, translator, dev_id_map, poller, pending, history, faults>>

\* ... put it there and start a thread for it, on this connection.
Launch(c) ==
  /\ handler[c] = "launch"
  /\ dev_id_map' = dev_id_map \cup {made[c].dev}
  /\ poller' = [poller EXCEPT ![c] = [at |-> "ask", cmd |-> None]]
  /\ handler' = [handler EXCEPT ![c] = "report"]
  /\ UNCHANGED <<device, translator, pending, history, faults>>

\* The request with the reading; if it fails, the handler ends and its
\* connection is closed.
Report(c) ==
  /\ handler[c] = "report"
  /\ \/ handler' = [handler EXCEPT ![c] = "read"] /\ UNCHANGED faults
     \/ handler' = [handler EXCEPT ![c] = "ended"] /\ Fails
  /\ UNCHANGED <<device, translator, dev_id_map, poller, pending, history>>
-----------------------------------------------------------------------------
(* The threads that ask for commands, and the web server                    *)

\* GET /recv: the response is kept for the next command, in place of another.
Ask(c) ==
  /\ poller[c].at = "ask"
  /\ poller' = [poller EXCEPT ![c].at = "waiting"]
  /\ pending' = [pending EXCEPT ![made[c].dev] = c]
  /\ UNCHANGED <<device, translator, handler, dev_id_map, history, faults>>

\* Mutant of Timeout: the thread does not survive the exception.
TimeoutEnds(c) ==
  /\ poller[c].at = "waiting"
  /\ poller' = [poller EXCEPT ![c].at = "none"]
  /\ UNCHANGED <<device, translator, handler, dev_id_map, pending, history, faults>>

\* The web server closes a request that waits too long, and keeps its
\* response: the thread asks again.
Timeout(c) ==
  /\ poller[c].at = "waiting"
  /\ poller' = [poller EXCEPT ![c].at = "ask"]
  /\ UNCHANGED <<device, translator, handler, dev_id_map, pending, history, faults>>

\* An action message for a device with a response kept.  The thread gets it if
\* it still waits for that response.  (Without one nothing happens.)
Act(d, m) ==
  /\ pending[d] # 0
  /\ pending' = [pending EXCEPT ![d] = 0]
  /\ last' = [last EXCEPT ![d] = m]
  /\ LET c == pending[d] IN
       \/ /\ poller[c].at = "waiting"
          /\ poller' = [poller EXCEPT ![c] = [at |-> "send", cmd |-> m]]
          /\ lost' = lost \ {d}
       \/ /\ poller[c].at # "waiting"
          /\ lost' = lost \cup {d}
          /\ UNCHANGED poller
  /\ UNCHANGED <<device, translator, handler, dev_id_map, faults>>

\* Mutant of SendCommand: the thread asks for one command only.
SendCommandOnce(c) ==
  /\ poller[c].at = "send"
  /\ \/ /\ handler[c] # "ended" /\ relay[c] = "open" /\ Len(cmds[c]) < Window
        /\ cmds' = [cmds EXCEPT ![c] = Append(@, poller[c].cmd)]
        /\ UNCHANGED lost
     \/ /\ handler[c] = "ended" \/ relay[c] = "ended"
        /\ lost' = lost \cup {made[c].dev}
        /\ UNCHANGED cmds
  /\ poller' = [poller EXCEPT ![c] = [at |-> "none", cmd |-> None]]
  /\ UNCHANGED <<device, life, bs, nso2tcp, made, relay, handler, dev_id_map, pending, last, faults>>

\* appsock.sendall: into the connection the thread was started on; an
\* exception if it is closed, and then the command is forgotten.
SendCommand(c) ==
  /\ poller[c].at = "send"
  /\ \/ /\ handler[c] # "ended" /\ relay[c] = "open" /\ Len(cmds[c]) < Window
        /\ cmds' = [cmds EXCEPT ![c] = Append(@, poller[c].cmd)]
        /\ UNCHANGED lost
     \/ /\ handler[c] = "ended" \/ relay[c] = "ended"
        /\ lost' = lost \cup {made[c].dev}
        /\ UNCHANGED cmds
  /\ poller' = [poller EXCEPT ![c] = [at |-> "ask", cmd |-> None]]
  /\ UNCHANGED <<device, life, bs, nso2tcp, made, relay, handler, dev_id_map, pending, last, faults>>
-----------------------------------------------------------------------------
(* The device                                                               *)

\* Mutant of Obey: process_cmd falls through from stop to start.
ObeyFallsThrough(d) ==
  /\ air[d] # <<>>
  /\ stopped' = stopped \ {d}
  /\ air' = [air EXCEPT ![d] = Tail(@)]
  /\ UNCHANGED <<translator, service, pending, history, faults>>

\* __app_rx and process_cmd.
Obey(d) ==
  /\ air[d] # <<>>
  /\ stopped' = IF Head(air[d]) = "stop" THEN stopped \cup {d} ELSE stopped \ {d}
  /\ air' = [air EXCEPT ![d] = Tail(@)]
  /\ UNCHANGED <<translator, service, pending, history, faults>>

\* The radio loses a command.
LoseCommand(d) ==
  /\ air[d] # <<>>
  /\ air' = [air EXCEPT ![d] = Tail(@)]
  /\ lost' = lost \cup {d}
  /\ UNCHANGED <<stopped, translator, service, pending, last, faults>>
-----------------------------------------------------------------------------
Poll(c) == Ask(c) \/ Timeout(c) \/ SendCommand(c)

Next ==
  \/ Reconnect
  \/ \E d \in Device : \/ FirstReading(d) \/ Reading(d) \/ Obey(d) \/ LoseCommand(d)
                       \/ \E m \in Command : Act(d, m)
  \/ \E c \in 1..Len(made) : \/ Relay(c) \/ RelayEnds(c)
                             \/ ReadEnd(c) \/ Check(c) \/ Launch(c) \/ Report(c) \/ Poll(c)

\* The command that starts device d again.
Starts(d) == Act(d, "start") /\ \E c \in Conn : poller[c].at = "waiting" /\ pending[d] = c

\* Threads run.  A user who wants a device started gives the command again
\* and again, not always in the moment between two requests, and of those sent
\* the radio does not lose every one.
Fairness ==
  /\ \A c \in Conn :
       /\ WF_vars(c \in 1..Len(made) /\ Relay(c))
       /\ WF_vars(c \in 1..Len(made) /\ (Ask(c) \/ SendCommand(c)))
  /\ \A d \in Device :
       /\ WF_vars(Obey(d) \/ LoseCommand(d))
       /\ SF_vars(Starts(d))
       /\ SF_vars(air[d] # <<>> /\ Head(air[d]) = "start" /\ Obey(d))

Spec == Init /\ [][Next]_vars /\ Fairness
-----------------------------------------------------------------------------
(* Properties                                                               *)

TypeOK ==
  /\ stopped \subseteq Device /\ air \in [Device -> Seq(Command)]
  /\ life \in 1..MaxLife /\ bs \in {"open", "broken"}
  /\ nso2tcp \in [Device -> 0..Len(made)]
  /\ made \in Seq([dev : Device, life : 1..life]) /\ Len(made) <= MaxConn
  /\ relay \in [Conn -> {"none", "open", "ended"}]
  /\ cmds \in [Conn -> Seq(Command)]
  /\ handler \in [Conn -> {"none", "read", "check", "launch", "report", "ended"}]
  /\ dev_id_map \subseteq Device
  /\ poller \in [Conn -> [at : {"none", "ask", "waiting"}, cmd : {None}]
                         \cup [at : {"send"}, cmd : Command]]
  /\ pending \in [Device -> 0..Len(made)]
  /\ last \in [Device -> Command] /\ lost \subseteq Device /\ faults \in 0..MaxFaults

PollersOf(d) == {c \in 1..Len(made) : made[c].dev = d /\ poller[c].at # "none"}

\* Whatever devices, users and failures do in between: when no command is on
\* its way to a device and the last one was not lost, the device does what it
\* said, so none overtakes another or is carried out twice, over requests that
\* time out, base stations that come back and threads that no longer lead
\* anywhere.
Underway(d) ==
  \/ air[d] # <<>>
  \/ \E c \in 1..Len(made) : made[c].dev = d /\ (cmds[c] # <<>> \/ poller[c].at = "send")

ObeysLatest ==
  \A d \in Device : ~Underway(d) /\ d \notin lost => (d \in stopped <=> last[d] = "stop")

\* A stopped device sends nothing that could make the service ask for its
\* commands: the thread that brought the stop must still be asking.
StoppedHasPoller == \A d \in stopped : PollersOf(d) # {}

\* The translator drops a base station, with all devices behind it, only after
\* a request or a connection has failed: not for what is left of the base
\* station's former life.
CutOnlyByFault == bs = "broken" => faults > 0

\* A stopped device can be started again, though requests time out and
\* commands get lost, unless some thread asks for its commands that has no way
\* to it any more: that one takes them, and forgets them.
Cut(d) == \E c \in PollersOf(d) : ~Leads(c) \/ handler[c] = "ended" \/ relay[c] = "ended"

StartsAgain == \A d \in Device : d \in stopped ~> (d \notin stopped \/ Cut(d))
=============================================================================
