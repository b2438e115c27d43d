# A formal model of the NRG-5 network at Sorbonne

TLA+ specifications of the self-organising network in this repository, the TLC
runs that check them on small instances, and proofs, checked by TLAPS, of the
invariants that matter most for networks of any size.

Contents: [the system](#1-the-system) · [the modules](#2-the-modules) · [the
runs](#3-the-runs) · [fairness](#4-fairness) · [the proofs](#5-the-proofs) ·
[what is not modelled](#6-what-is-not-modelled) · [the plan](#7-the-plan) · [how
to run it](#8-how-to-run-it)

## 1. The system

```
 application                                             vTSD (Python)
   | nso_send / nso_receive                               |  REST: POST node
 NSO layer --radio-- NSO layer --radio-- base station --TCP
 (device, C)         (relay, C)          (bs, C)      \   v
                                                       \-TCP-> vSON (Python) <-REST- operator
                                                        \-TCP-> translator -TCP-> application service -HTTP-> web relay
```

Devices and base stations run the same *NSO layer* in C (`nso/src/nso_lib`, and
a copy with differences in `bs/src/bs_lib`). A device that wants to join
broadcasts a *beacon*. A connected neighbour learns a route back to it and
passes the beacon on towards its own gateway, a base station, which hands it to
*vTSD* over TCP. vTSD authenticates the device (a stub that always says yes),
registers it with *vSON* by a REST call and, if vSON accepts, answers with a
registration reply, which travels back along the routes that the beacon left.
Connected nodes advertise themselves to their neighbours and send topology
reports to vSON; vSON removes a node it has not heard of for a whole period.
Data packets go through the base station and a *translator* to a TCP service.

### Components

| Component | State | Operations | Hard behaviour | What makes it correct |
|---|---|---|---|---|
| vSON graph (`vson/vSON_graph.py`) | nodes with outgoing and incoming links, `alive` flags, a cached network graph with an out-of-date mark | report, POST, DELETE, GET, the monitor's sweep | threads around one lock; a file error in the middle of a handler or of a sweep | in- and out-lists mirror each other; one link per pair and interface; a cache not marked stale is the graph; only silent nodes expire, and they do |
| vSON southbound, northbound (`vSON_southbound.py`, `vSON_northbound.py`) | one thread per base station; none | decode reports; REST resources | partial reads, undecodable payloads end a thread | a failing thread leaves the graph intact and the lock free |
| Registration (`nso_tsd.c`, both copies; `bs/.../nso.c`) | `dev_state`, `gw_id`, ARP table, forwarding tables | beacon, relay, reply, reverse routes | lost, late, repeated and overheard frames; every handler sees frames for others | no loops, no dead ends; connected only if accepted; eventually connected |
| Topology reports and advertisements (`nso_son.c`) | neighbour table | report, advertise, maintain tables, relay a report | one packet sent on several interfaces; check and insert in separate critical sections | a report lists real neighbours, once |
| Forwarding (`nso.c`) | local and vSON routes, addresses | look up a next hop and its address, send | error paths that free an unset pointer or keep a mutex | every mutex taken is given back |
| NSO layer threads and API (`nso.c`, `api.c`, `packet_queue.c`) | `dev_state` with its condition variable, packet queue with its own | tx thread, rx threads, `nso_send`, `nso_receive` | a signal that comes before the wait; several sleepers, one signal | no lost wakeup; packets handed out once, in order |
| Packets, WiFi (`packet.h`, `wifi_ops.c`) | data pointer and length in a buffer with headroom | alloc, send, receive, reset, clone | header prepended on each send; a failed receive leaves the previous frame | pointer and length stay in the buffer |
| Base station to VNFs (`bs_util.h`, `bspc.c`, `bs/.../nso.c`) | TCP connections | send and receive length-prefixed packets | partial sends and reads, several writers on one connection, end of stream | every packet goes out and comes in whole |
| vTSD (`vtsd/vTSD_launcher.py`) | one thread per base station | device and base-station registration | the reply is sent only if vSON accepts | a reply only for an accepted node |
| Translator (`dptr/translator/trans.py`) | per base station a map from device to TCP connection | forward both ways | connections and threads outlive the base station's connection they serve; one connection written by several threads | a command reaches the device it is for, in order; one device's failure is the only reason to drop the others |
| Power meter (`power_meter.c`, `power_meter.py`) | sequence numbers, losses; `stop_charge` | account for a packet; obey a command | 16-bit counter, reordering, duplicates | the loss rate is that of the network |
| Command relay (`websocket-io/index.js`) | pending long polls | poll, command | a command with no poll pending, a poll that replaces another | a command answers one poll of its device |
| Tables (`arp.c`, `neighbor.c`, `fwding.c`, `bspc.c`, `list.h`, `hashtable.h`, `hash_crc.h`) | lists of entries that also hang in hash chains | add, delete, look up, age, destroy | look-up and insertion in separate critical sections; forwarding tables without a lock; hashes of 16 bits in an `int` | every entry is found, once, by list and by chain; equal ids hash alike, inside the table |
| AAA client, `bs_app.c`, `echo.py`, `common/`, test scripts | – | one HTTP request; start and sleep; echo; constants | – | – |

## 2. The modules

| Module | Models | Builds on |
|---|---|---|
| `Membership` | what vSON promises about who is in the network: admitted once, renewed by reports, withdrawn by the operator or expired after two silent ticks | – |
| `TopologyGraph` | vSON: graph, cache, southbound threads, REST interface, monitor | implements `Membership` |
| `JoinTree` | what joining comes to: each base station's devices are a tree below it that grows by leaves | – |
| `Registration` | devices, base stations, vTSD and the membership half of vSON with the radio and the TCP connections between them, a handler as one step | implements `JoinTree` |
| `BaseStation` | one base station's process, a critical section as one step: rx threads, tx thread, VNF thread, its connections, its end and its next start | – |
| `Mailbox` | what `nso_receive` promises: packets handed out once, in order, after the connection | – |
| `NsoLayer` | the threads of one device: tx, rx, callers of `nso_send` and `nso_receive` | implements `Mailbox` |
| `LinkedList` | the two kinds of lists of `list.h`, as memory | – |
| `Tables` | ARP, neighbour, forwarding and VNF-connection tables as memory, under several threads, with aging and destruction | `LinkedList` |
| `Crc32c` | machine words as sets of bits, the CRC tables and steps of `hash_crc.h`, `hash_32` and `fls` of `hashtable.h` | – |
| `HashCrc` | one call of `hash_crc`, piece by piece, and the bucket it leads to | `Crc32c` |
| `DataPlane` | readings up and commands down: translator, service, web server, the device's command loop | – |
| `LossAccounting` | the power meter's numbering (device) and loss counting (service) over a network that loses, reorders and repeats | – |
| `PacketBuffer` | data pointer and length of a packet as one advertisement goes out on every interface and an rx thread reuses one packet | – |
| `MC…` | networks, symmetry and constants for TLC | `MCTables` takes its buckets from `Crc32c` |
| `…_proofs` | theorems and their proofs | |

Definitions marked *mutant* in a comment are broken variants of the definition
they stand before. They take no part in the specification: each is a plausible
slip in the code, and a property is only kept if one of them violates it.

### TopologyGraph

Every handler of the code runs with the global `lock` from its first to its last
access to the graph, so a handler is one action: `ReceiveReport` is
`put_node_info` (alive flag, links, refresh of the cache), `PostNode`,
`DeleteNode` and `GetTopology` are the REST resources. The monitor's sweep is
several: `MonitorTick` takes the lock, picks the nodes whose flag is clear and
clears all flags; `MonitorDelete` removes one of them; `MonitorSleep` gives the
lock back. It is split because each deletion writes a file and may raise, which
ends the thread with the rest of its list undone; `LockFree` keeps everybody
else out meanwhile.

`expired` is history: the nodes whose last removal was the monitor's. With it
`Membership` tells `Withdraw`, the operator's DELETE, which is allowed at any
time, from `Expire`, which is not: a node the monitor removes must have been
found silent by one tick and silent again by the next. A report that slipped in
between the monitor's choice and the deletion would break it, and does so in the
mutant in which handlers do not take the lock.

`nodes`, `alive`, `olinks`, `ilinks`, `changed`, `njg` are the attributes of
`TopologyGraph` and `Node`. A link is a record of its two ends, interface and
quality; `Same` is `Link.isSame`, which leaves quality out. `AddTo` appends
unless the same link is there: the branch of `add_outlink` that finds one with
another quality assigns to a local name only. `Remove` is `delete_node` with its
way of finding whom to clean: the begin of each incoming link, the end of each
outgoing one. That this finds everybody is what `LinkSymmetry` is about.

`Publish` and `PublishFails` are `__update_netgraph`: the file may refuse to
open (before the cache is refreshed) or to be written (after). In a report
handler the exception ends the base station's thread, which the next connection
replaces (`Accept`); in the sweep it ends the monitor; from Flask it is an error
answer.

### Registration

Time is in steps of a handler: an rx thread takes a frame from the radio and
runs `nso_layer_process_rx` to its end. `air` is the set of frames ever sent
that may still be heard: a frame may be heard by any node in range, once, often,
late or never. A duplicate is thus a second reception, a reordering a late one,
and a frame that is lost one that is never received; where liveness is checked,
`Lose` also removes frames (`Lossy`), since there a frame that stays could be
received at the last. `toVtsd` and `fromVtsd` are what is under way on the TCP
connections.

`HearBeacon` and `RelayBeacon` are the two branches of `__fwd_beacon`;
`AcceptReply` and `RelayReply` those of `__process_reg_reply`; `Forward` is
`nso_layer_fwd` with its two error paths, taken with the tables as the handler
has just left them (`local'`, `arp'`); `AddRoute` is the insertion that keeps
the first route for good, since nothing ages the table. `Register` is a
registration at vTSD with the REST call to vSON and its answer, `TakeReply` the
base station's VNF thread, `MonitorTick` one period of vSON.

`wifi_open` puts every interface in promiscuous mode and no one compares an
address, so a handler runs for every frame in range, whoever it is meant for
(`Receives`). Nor does the rx loop ask whether a receive failed: of a frame of
another protocol it takes the bytes, set to zero, for data to nobody and frees
addresses that were not allocated. `ReceiveForeign` is that, kept to the one
outcome that changes anything, the end of the process. A failed `recvfrom`, which
leaves the frame before with its addresses freed, is in `PacketBuffer` only.

Error paths: a relayed beacon or a reply from a node without an entry in the ARP
table makes the process exit (`state = "dead"`); `nso_layer_fwd` without a route
frees an uninitialised pointer, which may or may not end the process, and
without an address it also returns with the ARP table locked (`leaked`).
Overheard frames do get to the first of these two. `FramesAreRouted` says who
does not: what is sent from hop to hop finds a route at each node that it is
addressed to.

A handler is one step. Where a node has several interfaces their threads add
routes without a lock; `BaseStation` takes those additions apart.

`Advertise` combines sending and hearing an advertisement: only the address that
ends up in the ARP table is kept, and an advertisement may be heard by some and
missed by others.

`JoinTree` has no frames, tables or connections: vTSD accepts a node (`Accept`),
an accepted base station is its own gateway (`Open`), an accepted device joins
once, below a node that has joined, and takes over its gateway (`Join`). Of
`Registration` it reads `approved`, `gw` (`nso_layer.gw_id`) and, as a device's
parent, the next hop of its route to its gateway (`ParentOf`). That route is
what reports and data go by, so the refinement says that whoever sends along it
stays in the tree of the gateway it has been told of.

### BaseStation

`Registration` takes a handler as one step; here each access to a shared table
or lock is one. `rx[r]` is where rx thread r is and the packet it handles:
`ArpLookup` and `ArpAdd` are the two critical sections of `__fwd_beacon` and
`__neighbor_maintain` on the ARP table, `ArpWhose` the look-up by address, which
exits if there is none, `FwdLookup` the search for the route back, `PassBeacon`
the send to vTSD. `fwd_table_add` takes no lock, so noting a route is two steps:
`FwdRead` reads the head of the chain (`seen`), `FwdLink` puts the new entry
before what was read. A route that another thread has linked in between is cut
off, one that was cut off may come back with it; `lost` is history, the devices
whose route was cut off and is not there. `Bucket` says whose routes share a
chain. The list beside the chains, which look-ups do not use, is in `Tables`.

Data for the base station goes to the translator (`HearData`) or, of a protocol
without a VNF, to the result of a look-up that found none (`HearUnknown`). Data
for a device, overheard, is forwarded by the rx thread itself (`HearDataFor`,
then `RxRoute`, `RxAddress`), and a frame of another protocol is treated as data
to nobody (`HearForeign`). The VNF thread takes a reply or data (`TakeOwnReply`,
`TakeReply`, `TakeData`) and runs `nso_layer_fwd` in two sections (`FwdRoute`,
`FwdAddress`) with the same error paths as in `Registration`: whoever finds no
route drops the packet, or the free of a pointer never set ends the process
(`UndefinedFree`). `TxRegister`,
`TxWake` and `TxReport` are `__tx_thread_main`.

`Crash` may come at any step. The tables, the state and what is on the way to
the process are gone; what it has sent is still handled by vTSD and the answer
lost; vSON keeps the node, and the devices stay connected. `Start` makes new
connections, whose number is `life`. A start without the VNFs ends at once and
changes nothing.

Devices are reduced to what this process sees of them: whether they are
connected, and which frames of theirs can be heard on which interface (`Heard`). Whether vSON knows
a device is left open (`Register` may answer or not). A beacon that arrives long
after it was sent, from a device since connected, is left out; `Registration`
has those. Of the registrations of a former life only the base station's own are
kept, since no other has an effect here.

### Tables and LinkedList

`LinkedList` keeps the names and the assignments of `list.h`: a list is a pair
of functions `next` and `prev` on nodes, a hash chain three: `first` of a
bucket, `next` and `pprev` of an entry. `Linked` and `Hashed` say that all
pointers of a set of nodes lead to one another and back. What a loop over
pointers sees, up to an entry of `Stop`, is what lies in every set that it cannot
leave (`CannotLeave`, `Loop`): `list_for_each_entry` and
`hash_for_each_possible` are such sets. A look-up stops at the first entry that
matches, which is the one entry of `Stop` in its loop (`Match`, `Found`).

A behaviour of `Tables` is of one table, whose kind the first state chooses. In
ARP and neighbour tables a critical section is a step: `Lookup`, `ArpAdd`,
`NbrAdd`, and the aging pass, which holds the mutex from its walk to its last
deletion (`AgingLock` to `AgingDone`) but sizes its array before (`AgingAlloc`).
Routes are added without a mutex (`fwding.c` tests `FWD_THREAD_SAFE`, `fwding.h`
defines `FWDT_THREAD_SAFE`), so each read and each group of writes of an
addition is a step (`FwdAlloc`, `FwdLink`, `FwdFirst`, `FwdHash`, `FwdSize`,
`FwdCount`); accesses of different threads are interleaved, weaker memory orders
are not. `RouteRule` is one rule of a route update. `BspcAdd`, `BspcFail`,
`Destroy` and `Destroyed` fill and destroy the table of VNF connections. Nothing
in the repository calls the aging functions: the aging thread returns at once.
They are modelled as one such thread would call them.

`wanted` and `heard` are history: what a look-up has to find. An entry is an
address from `Entry`; an insertion for which all are taken does not happen, so a
failed `malloc` is not modelled.

### Crc32c and HashCrc

A machine word is the set of the positions of its one bits. The eight tables of
256 words are linear, so `crc32c_tables` is given by eight rows of eight words,
those at the powers of two, copied from the source; an entry is the exclusive or
of those of its index's bits. `HashCrc` is one call: `Eight`, `Four`, `Two`,
`One` are the branches of `hash_crc`, each by tables of its own distance, and
`Place` is `hash_min`. A VNF's protocol number is hashed without a CRC, by the
macro `hash_add`, in the type of the argument: `hash_32_int` is that product in
an `int`.

### DataPlane

The translator has a handler for each base station, with a map from device to a
connection to the service (`nso2tcp`) and, per connection, a thread that relays
commands back (`relay`). The service has a handler per connection (`handler`)
which looks the device id up (`Check`), starts a thread for its commands
(`Launch`), and reports the reading to the web server (`Report`). That thread
(`poller`) asks for the next command (`Ask`), the web server keeps one response
for each device (`pending`), a user's command answers it (`Act`), a request that
waits too long is closed (`Timeout`). The command goes to the connection the
thread was started on (`SendCommand`), whether or not that still leads to the
device (`Relay`). `Obey` is the device's loop: a stopped device sends no
readings.

`Reconnect` is the base station's process started again: a new handler with an
empty map, while connections, threads and pollers of the former one live on.
`Refused`, a failed `Report` and a `Reading` that is not accounted for are the
failures; each ends a handler, and a handler's end may end another's when it
next writes.

### NsoLayer

A critical section is one action. `pc` says where each thread is; a thread that
waits on a condition variable is in `gateWait`, `getWait` or `timedWait`, and a
broadcast (`WakeState`, `WakeData`) moves it to the place where it has the mutex
again and looks once more. `TxTest`, `TxBeacon`, `TxWait`, `TxTimeout` are the
tx thread's loop; between its look at the state and its timed wait the mutex is
free, so a reply may come and signal nobody. `AcceptReply` and `Deliver` are
what rx threads do to the shared state, `Gate` and `Get` the two waits of
`nso_layer_recv` (the first one also of `nso_layer_send`), `Spurious` a wakeup
without a signal.

### LossAccounting

`Send` is one turn of `__app_tx`, `Restart` a new process of the meter: it reads
its usage from a file but its `uint16_t seq` starts at 0, on the same connection
of the service, since the translator keeps one per device. `Receive` is one turn
of the service's loop: `Gap`, `Late`, `Expected` and `Unlisted` are the branches
of `__prepare_report`, the last one where `list.remove` raises, and `Report` is
the request to the web server, which may fail; any exception ends the handler
(`open`). Relays forward data packets they overhear, so the network may repeat
them (`Repeats`). The list of losses is a set: numbers are appended in
increasing order, each beyond all that are on it.

Each read at the service is one packet. The byte stream is not modelled: where
TCP runs two messages together, the service sees one (see section 6).

### PacketBuffer

`Framed` is what `wifi_send` does to a packet, `HasHeadroom` the condition under
which it does, `Reset` is `packet_reset`. The tx thread sends one packet on
every interface in turn (`StartAdvert`, `Broadcast`, `FinishAdvert`). The rx
thread receives into its one packet: `ReceiveFails` covers its three ways to
fail, after which the loop goes on as if it had not: `held` is the message the
handler finds then, zeroes or the one before, and `addr` the state of the two
addresses it frees. Zeroes are forwarded like data, for which there is no route.
Freeing an address that is not allocated, there or at the end of the turn, may
end the process or not. The proofs about it stand in `NsoLayer_proofs`, which extends it next to
`NsoLayer`, both of `nso.c`'s threads; so its specification is called
`BufferSpec` and its type invariant `BufferTypeOK`.

## 3. The runs

| Run | Instance | Checks | Why this instance |
|---|---|---|---|
| `graph_core` | 2 nodes, 1 base station, 1 interface, 2 qualities, 2 faults | `TypeOK`, `LinkSymmetry`, `UniqueLinks`, `CacheCoherent`, `ImplementsMembership`, `SilentNodeLeaves` | a link needs two ends (a node may list itself); two faults reach a failed write followed by another, and the death of the monitor or of a thread |
| `reg_join` | diamond: b1; d1, d2 which hear it and each other; d3 behind both; b2 which hears d3; frames overheard, late, repeated, and foreign ones at d3, which also reports | `TypeOK`, `NoLeakedLock`, `ConnectedIsApproved`, `NoForwardingLoop`, `RoutesContinue`, `FramesAreRouted`, `JoinedForGood`, `GrowsAsTree` | b1, one relay and d3 join from nothing; two devices that overhear each other join; d3 joins through either of two relays, the smallest network where relays could form a loop; or d3 joins between a relay of b1 and b2, which both pass its beacon on, and one of its registrations fails |
| `reg_live` | line b1 – d1 – d2, d1 joined, d2 reports, lossy | `EventuallyConnected` | beacon, registration and reply may each be lost on two hops, so vSON's expiry is what makes another attempt succeed |
| `base_restart` | 2 devices (the first heard on both interfaces, the second behind it on one; routes in one bucket; data of and for the second), 2 rx threads, 2 lives, 1 packet under way per connection | `TypeOK`, `ForwardsOnlyWithRoute`, `PassedWithGateway`, `EventuallyBack` | two rx threads handle beacons, add routes to one chain and forward what they overhear while a third forwards; one restart with an old registration still at vTSD |
| `nso_threads` | 2 receivers, 1 sender, 2 packets, queue up to 3 | `NoLostWakeup`, `GateOpens`, `ImplementsMailbox`, `ConnectedReports` | one receiver asleep while another is woken; a queue longer than the number of receivers |
| `tables_coherent` | each kind of table; 3 ids in 2 buckets, 4 entries, 2 threads | `TypeOK`, `PointersMatch`, `TableCoherent`, `LookupFindsLatest`, `DuplicatesBounded`, `RecFits` | ids that share a bucket, a chain of three, an id with two entries, an aging pass with additions before and after |
| `hash_sliced` | arrays of 0 to 15 bytes, every single bit and some longer patterns; 2^10 and 2^12 buckets | `HashIsCrc32c`, `FlsIsHighestBit` | a CRC is linear (proved, section 5): single bits span all arrays; lengths reach every sequence of pieces |
| `hash_proto` | the protocol numbers of vTSD, vSON and data, 2^10 buckets | `BucketInTable` **violated** | the three numbers of `bs/config/config_example` |
| `data_commands` | 1 device, 2 connections, 2 lives, 1 failure, 1 command per place | `ObeysLatest`, `StoppedHasPoller`, `CutOnlyByFault`, `StartsAgain` | a connection of the former life beside one of the present; devices meet only in `bs` and `faults` |
| `loss_lossy` | counter of 4 values, 6 packets, 1 restart, 1 failed request, repetitions | `EveryNumberCounted`, `LossesAreMissing`, `EndsOnlyOnRepeat` | the counter wraps with two packets to spare, so that old and new packets of one number meet |
| `packet_bounds` | 5 interfaces, headroom for 4 headers and a rest | `BufferBounds`, `RxHasRoom` | as with 14 bytes in 64, the fifth header does not fit |
| `packet_advert` | 2 interfaces | `AdvertisesOnAll` **violated** | the second interface is enough |

Every property of a run that passes has a mutant in `PROJECT.json`: a broken
variant of one definition with which TLC finds it violated in the same run.

Bounds. `MaxFaults`, `MaxQueue`, `MaxSent`, `MaxRestarts`, `MaxLife`, `MaxConn`
and `Window` cap what the code leaves unbounded and are guards named in the
modules; a run checks no deadlock where the system stops at a bound
(`loss_lossy`, `data_commands`), where the call it models returns (`hash_…`), or
where a table is full or freed (`tables_coherent`). `Registration` needs none:
what grows without end in the code (frames, requests) is a set over a finite
domain. `Reporting` limits who sends topology reports, `Foreign` whom foreign
frames reach (each may end d3 at any time; that a node may end is in the error
paths too, and the proofs have all nodes), `Talking` and `Overheard` whose data
the base station hears; the `Start` states of `MCRegistration` in which devices have
joined are those that joining directly leads to once old frames are gone,
because all interleavings of three joins are too many. So the run checks the
steps of the refinement only (`GrowsAsTree`); that `Registration` starts as
`JoinTree` does is part of `RegistrationImplementsJoinTree`. What the small
instances leave open, longer paths, more nodes, several base stations among many relays, more devices, connections and threads, the proofs settle for the
invariants.

### The disagreements

* `packet_advert`: `nso_son.c:129` says "advertising to all interfaces", but the
  packet keeps the link header of the first one, so on the second the
  advertisement follows two headers and no neighbour reads it as one.
* `hash_proto`: the table of VNF connections has "1024 buckets" (`bspc.h:37`).
  The key of vTSD, `NSO_PROTO_CP_VTSD` = 0xF000, is a `uint16_t`, so its product
  with the golden ratio is one of `int`s: it overflows, what the build makes of
  it is negative, and the shift keeps the sign. The entry hangs in bucket -9.
  The look-up goes there too, so vTSD is found as long as nothing else uses that
  memory. Keys that are arrays of bytes (device ids, MAC addresses) never leave
  their table (`ArraysHashIntoTheTable`).

Others show in the models and have no run of their own:

* A report of a link that is in the graph with another quality leaves the old
  quality (`AddTo`; `vSON_graph.py:84`, comment: "if is same but different
  values -> UPDATE!").
* `nso_is_connected` is documented as "0, not registered; otherwise, registered"
  (`api.h:77`), but a node that vSON's monitor has removed, say because its
  reports were late, remains connected and never registers again
  (`Registration`: no action sets `state` back).
* `power_meter.py:36` says "seq means the next expected sequence number". After
  the device's number 65535 it is 65536, and the next packet has number 0: it is
  taken for a late one, is not on the list of losses, and the exception ends the
  handler (`Unlisted`; `EndsOnlyOnRepeat` says for which packets this happens).
* `FWDT_THREAD_SAFE` is defined and `FWD_THREAD_SAFE` tested (`fwding.c:26`).
  With `FwdWriter = {r1, r2}` in `Tables_coherent.cfg`, TLC finds
  `PointersMatch` violated: two additions read the same last entry.
* `nic_ops.h:24` says that receive allocates the addresses, but it does not when
  it fails, and the rx loop does not ask (`ReceiveFails`, `Process`): it
  processes the packet and frees the addresses of the frame before.
* In promiscuous mode a device that overhears a packet for which it has no route
  frees a pointer it has not set (`nso.c:332`), and so does one that receives a
  frame of another protocol, though the address is not its own
  (`FramesAreRouted` is about frames addressed to a node, and cannot be about
  others).
* Two rx threads of a base station that add routes of one bucket at once may cut
  one off (`fwding.c:26` again; `FwdLink`), and the reply for that device finds
  none. With one interface this cannot happen (`OneInterfaceLosesNoRoute`). The
  device's next beacon notes the route again.
* Data of a protocol that no VNF is connected for ends the base station
  (`bs/.../nso.c:199`, `HearUnknown`).
* In promiscuous mode and with several base stations a device's next hop may
  have no route to its gateway. Let d1 have joined with b1 and d2 with b2, both
  in range of d3. The reply of b2, which d2 sends to d3, is overheard by d1,
  which knows d3 from its beacon and forwards it (`nso_tsd.c:208`). If that copy
  arrives first, d3 has gateway b2 and next hop d1, whose gateway is b1. TLC
  finds this on five nodes, and then d3's reports, addressed to d1, find no route
  there. So `GrowsAsTree` and `FramesAreRouted` are proved for one base station
  (`RegistrationImplementsJoinTree`, `FramesFindRoutes`); in `reg_join` there are
  two, but no relay hears the replies of the other one's tree.

## 4. Fairness

* `TopologyGraph!FairSpec`: weak fairness of the monitor only. It is a thread on
  a timer and no other holder of the lock spans steps. Nobody need report, post
  or delete, and faults may end the monitor: `SilentNodeLeaves` exempts that
  case by name.
* `Registration!Fairness`: each node's tx loop, vTSD per requesting node, the
  VNF thread per base station and destination, and the monitor are weakly fair:
  threads that loop with a timeout or block on a socket with data, and a
  connection is read in order, so nothing on it is passed over for ever.
  (Without the last, TLC finds a reply that waits while others are taken.)
  Reception over a link is strongly fair per link and device: a beacon is
  repeated every 10 s and a reply after each accepted registration, and of
  frames that go over a link again and again one is received in the end; any
  single one may be lost (`Lose` is always possible).
* `BaseStation!Fairness`: the tx and the VNF thread, vTSD and the monitor. None
  of the rx threads, of the radio or of starts: what `EventuallyBack` says
  depends on none of them. It allows that the process stops again.
* `NsoLayer!FairSpec`: the tx thread is scheduled and its timed wait ends. There
  is none for the application or the rx threads.
* `DataPlane!Fairness`: the relaying threads and pollers run, a command in the
  air is obeyed or lost. A user who wants a device started gives the command
  again and again, and infinitely often while a request waits (`Starts`,
  strong), and of the start commands that reach the air over and over one is
  obeyed in the end (strong). Requests may time out as often as they like, and
  no other step need ever happen.

`StartsAgain` exempts, by the name `Cut`, a device of which some poller no
longer has a way to it: after the base station has come back, a handler of the
new connection may find the id in `dev_id_map` and start no thread, or two
handlers both start one, and then the old thread asks as well, takes every other
command and forgets it. Since a stopped device sends nothing, nothing makes the
service notice. TLC finds this when the exemption is left out.

## 5. The proofs

All theorems hold for every value of the constants that satisfies the named
assumptions `FaultBound`, `NodeAssumption`, `BaseStationAssumption`,
`ThreadAssumption`, `PointerAssumption`, `TableAssumption`,
`DataPlaneAssumption`, `MeterAssumption`, `BufferAssumption`, `HashAssumption`
(disjoint sets of processes and addresses, a null value outside them, bounds and
sizes in Nat, hashes that name buckets, a header that fits the headroom, an advertisement that
fits the MTU, arrays that have no bits beyond their bytes, tables of 2 to 2^16
buckets, and in `Tables` finitely many entries and threads). Some theorems have
a hypothesis of their own, which the code does not see to. Those about tables
assume `OneWriter`: one thread at most writes the routes. Two about registration
assume `OneBaseStation`: no more than one. One about the base station, `OneRx`,
is about a base station with one interface. Without them these theorems are
false (section 3, the disagreements). None of the others about registration or
the base station needs any.

| Theorem | States |
|---|---|
| `TopologyGraph_proofs`: `TypeCorrect`, `LinksAreSymmetric`, `LinksAreUnique`, `CacheIsCoherent`, `GraphImplementsMembership` | the invariants of `graph_core` and the refinement of `Membership` |
| `Registration_proofs`: `TypeCorrect`, `RoutesAreLoopFree`, `RoutesLeadOn`, `ArpTableIsUnlocked`, `ConnectedWereApproved` | types; no forwarding loops; no dead ends; no leaked mutex; connected only after acceptance |
| `Registration_proofs`: `NodesJoinForGood`, `RepliesFindRoutes` | in every network a node's gateway and routes are never changed once it has them, whatever late or overheard replies still arrive; a reply finds a route wherever it is addressed to on its way |
| `Registration_proofs`, with at most one base station: `FramesFindRoutes`, `RegistrationImplementsJoinTree` | so do beacons and reports, so only what is overheard or foreign gets to the undefined free; the refinement of `JoinTree` |
| `NsoLayer_proofs`: `TypeCorrect`, `NoWakeupIsLost`, `GateIsOpened`, `NsoLayerImplementsMailbox` | the wakeups and the refinement of `Mailbox` |
| `BaseStation_proofs`: `TypeCorrect`, `RouteBack`, `OneInterfaceLosesNoRoute`, `GatewayBack` | a reply finds its address, and its route unless an unlocked addition has cut that off, which takes two interfaces; the ARP mutex is never leaked; beacons carry the gateway |
| `Tables_proofs`: `TypeCorrect`, `PointersHold` | lists and hash chains in one piece at every step |
| `Tables_proofs`: `TablesCoherent`, `LookupsFindLatest` | list, chains and size show all entries at every step, except for the one that is being added; a look-up finds an entry exactly if there is to be one, and a route the latest |
| `Tables_proofs`: `FewDuplicates`, `AgingRecFits` | one id has no more entries than there are threads; the aging pass does not write past its array |
| `DataPlane_proofs`: `TypeCorrect`, `CutsHaveACause`, `StoppedIsPolled`, `LatestIsObeyed` | types and the invariants of `data_commands` |
| `LossAccounting_proofs`: `TypeCorrect`, `NumbersAreCounted`, `LossesAreExact`, `HandlerEndsForAReason` | the invariants of `loss_lossy` |
| `NsoLayer_proofs`: `BufferTypeCorrect`, `PacketsStayInBuffers`, `ReceiveHasRoom` | the invariants of `packet_bounds` |
| `HashCrc_proofs`: `HashIsTheCrc`, `FlsFindsTheHighestBit`, `ArraysHashIntoTheTable` | `hash_crc` is CRC-32C on every array of every length; `fls` and `fls64` find the highest bit; an array hashes into a bucket its table has |

**Graph.** `LinkSymmetry` with `TypeOK` is inductive: a link enters both lists
in one step, and because of the symmetry the way `delete_node` finds its
neighbours finds exactly those that have a link with the node that goes.
Uniqueness follows along with it. For the refinement the sweep needs its own
invariant (`SweepInv`): while the monitor sleeps its list is empty, during a
sweep no flag is set, and a node on the list is in the graph. A step of the
graph is then a step of `Membership` or leaves the mark of every node alone; the
monitor's deletions are steps of `Expire` and no others, since `expired` marks
them.

**Registration.** The properties of routes are not inductive by themselves. The
strengthening `RouteInv` has five parts: what frames in the air say about the
tables of those that sent them (`AirInv`: who passes a beacon on has a route
back to its source, who sends a reply has been connected), `RoutesContinue`,
every next hop has an address (`RoutesHaveAddress`), a gateway's route leads
over joined nodes (`GatewayRoutesJoined`), and `NoForwardingLoop`. Loop freedom
is stated over sets: no non-empty set of nodes whose next hops all stay in the
set. When a route is added at a node that had none, any would-be circle must
contain that node, and with the node taken out what is left was a circle before,
or the new next hop already has a route that leaves it. Since a route once set
stays, no other step matters. That the error path of `nso_layer_fwd` that keeps
the ARP table locked is never taken (`ArpTableIsUnlocked`) then follows from `RoutesHaveAddress`.
`ConnectedWereApproved` adds that replies under way are for accepted nodes.
These proofs assume nothing about the shape of the network.

That a node joins for good needs another invariant, `JoinInv`: gateways are base
stations, no device has a route to a base station before it has joined
(`NoEarlyRoute`: otherwise the route that `AcceptReply` notes would replace one), and requests and replies only go by nodes
that have joined (`TrafficOfJoined`). A step of `Registration` is then one of
`JoinTree`, or changes neither gateways nor parents; what `Join` asks for is
that the node a reply came from has the gateway that the reply names
(`RepliesFromGateway`): with one base station there is no other to name.

That frames find routes is `FrameInv`. A frame addressed to one node goes to the
next hop of its sender's route (`AirFollowsRoutes`; the route may not change
afterwards, by `JoinInv`), and a base station has a route to each device it has
asked vTSD about (`RequestsRouted`). For a reply `RoutesContinue` does the rest,
in every network. A beacon or a report goes towards a gateway: the next hop has
joined (`NextHopsJoined`) and has a route to its own gateway (`GatewayRouted`),
which with one base station is the same. Nothing of this is about the nodes that
overhear a frame.

**Base station.** `Inv` adds to the types: every route, in the table or in what
a thread has read of it, has a next hop with an address (`RoutesAddressed`); an
rx thread that is past a section has done what that section is for (`RxDone`:
its sender's address is there before it looks for a route, the route noted
before it passes the beacon on); whatever vTSD holds of the present connection,
or has answered, was noted, and carries the gateway (`StreamsReturn`); so was a
device connected in this life, and the gateway is set when the state is
(`ConnectedRouted`), and what is being forwarded is for such devices
(`VnfRouted`). Noted means that the route is there or has been cut off
(`Noted`): linking a route moves devices between the two and takes none out. A
crash empties all of it at once; what is left with vTSD belongs to a former
connection. With one rx thread what was read is what is there when it links
(`Alone`), so nothing is cut off.

**Tables.** Four lemmas about `LinkedList` carry the proof: a node put between
two neighbours of a list is in it, one taken out leaves a list, and the same for
chains. A thread half-way through an unlocked addition has an entry that is in
use and not yet linked (`Unlinked`) or hashed (`Unhashed`), and what it has read
is still so (`ThreadOK`); that is where `OneWriter` is needed. The aging pass's
position and the entries it has recorded are in the table as long as it holds
the mutex (`AgingInv`).

What is said of whole tables needs more, `TableInv`. As a loop is the least set
it cannot leave, no induction along a list is needed: to show that it sees all
entries, take any set it cannot leave; with a node put in or taken out, a set
that could not be left before or after is at hand (`LeadsInv`). `AddedInv` keeps
what a thread half-way through an addition has written, `SizeInv` counts the
entries less the ones not counted yet. `RoutesInv` says that a route exists once,
is not there when a thread is about to add it, and is the latest except for the
destination a thread is busy with; `BspcInv` the same of VNF connections.
Neighbour and ARP entries are added outside the section that looked for them:
`RaceInv` bounds an id's entries and the threads about to add it together by the
number of threads, since nobody sets out to add an id that is there. For the
aging pass, `PassInv` names the set V of entries it has walked past, a set that
neither `next` nor `prev` leads out of but at the pass's position and the head.
What it has recorded and what is expired outside V together never outnumber the
array, which was sized for all that had expired (entries expire in a walk
only, so none does between the allocation and the mutex); when the walk is back at the head, V
cannot be left at all and is the whole table.

**Data plane.** `ConnInv`: what the map refers to is a connection of that device
and this life, and while the handler lives the map has all such connections, so
there is one for each device; a thread is started once on a connection; and a
handler with a connection of this life ends only after a failure. Hence a base
station is dropped only after one. `PollInv`: a device that is stopped, or has a
command on a connection or in the air, has a poller, for only a poller brings
commands and none ever ends. `OrderInv`: unless a command for a device has been
lost since, the last one is with a thread, or it is the last on a connection
whose thread has nothing newer, or it is at the device, in the air behind all
others or obeyed, and then the one connection that leads there holds nothing. A
second poller, on a connection that no longer leads there, cannot break the
order: what it is given is lost, and `lost` says so.

**NSO layer.** The invariant that makes `NoLostWakeup` inductive is that a
receiver sleeps only on an empty queue: `Deliver` wakes all when the queue was
empty, and nobody can be asleep when it was not. For the refinement, a non-empty
queue implies the connection (`QueueIsOpen`).

**Loss accounting.** While the handler runs, `Counted` holds: all losses lie
below the expected number, `lost` is how many there are, and with `received`
they make it up. A gap adds an interval disjoint from the losses so far, so the
cardinalities add; a late packet takes one element away. For `LossesAreMissing`
one needs that what arrived lies below the expected number (`ArrivedBelow`), for
`EndsOnlyOnRepeat` that in one round of the counter a number names one packet
(`NumbersAreIds`): then a number below the expected one and not among the losses
is that of a packet that had arrived.

**Packet buffers.** The sum of position and length is kept by a header that is
put in front, which bounds the end; that the position does not go below zero is
the work of the guard in `wifi_send`. The rx thread's
packet is at its initial position in every reachable state: each use of it is
undone by the reset in the same turn of the loop.

**Hashes.** The prover cannot instantiate the library's induction theorems, but
it can use that a set of numbers that is not empty has a least one (`Least`):
the least number for which a statement fails leads to a contradiction. One bit
of division, `Step`, is linear (`StepXor`). The tables have eight rows; that each
entry of a row is the next higher bit's divided once more (`Row0` to `Row7`) is
evaluated from the source's numbers, and because an entry is the exclusive or of
those of its index's bits (`CombineMember`), it is what is left of the index
after eight divisions, in the first row, and each further row is a byte further
along (`ByteStepOfTable`, `ByteStepIs`). Hence the look-ups for one, two, four and
eight bytes are as many byte steps (`OneByteByTable` to `EightBytesByTable`). On
the side of the definition, the recursive function in `Crc` exists and is the
only one of its kind (`CrcLaws`), and bits of data may be added in advance of the
divisions that meet them (`CrcOfByte` to `CrcOfEightBytes`). The invariant
`HashInv` says that the hash is the CRC of the bits consumed. For `fls`, the
search keeps what is left below a bound that halves each round
(`FlsRoundNormal`). A product with the golden ratio is a word of 32 bits, so
what is left after the shift is below the size of the table (`BucketInv`).

Model-checked only: the liveness properties (`SilentNodeLeaves`,
`EventuallyConnected`, `EventuallyBack`, `ConnectedReports`, `StartsAgain`), as
liveness under fairness is beyond the prover. Liveness of two devices that join from nothing over a lossy network
is beyond what TLC finishes in reasonable time; it is checked for one behind a
relay.

## 6. What is not modelled

* Wording and layout of messages, interface and battery data of a node, logging,
  command lines, configuration files.
* The clock. Timeouts are steps that may come at any time. So the runs do not
  show that a 10 s wait after a missed signal (`nso.c:233`) outlasts vSON's 5 s
  period.
* Byte streams. A read takes one message, a send gives one whole. In the code
  reads may be partial (`vSON_southbound.py:69` and `:107`), sends too
  (`bs_util.h:61`), a length may say more than there is (`bs_util.h:53` counts
  the header of 20 bytes twice, `trans.py:77` asks for as much payload as the
  packet is long, header included), and several threads write to one connection
  without a lock (`bs_util.h:61`, `trans.py:101`). No property of these modules
  holds beyond such a point, and none of the code behind it resynchronises.
* A VNF that closes its connection: `recv` returns 0 and the loop in
  `bs_util.h:30` never ends.
* What a report lists, and its size against the packet's (`nso_son.c:69`); the
  queue's lack of a limit (`nso.c:175`, bound `MaxQueue`); the assertion of a
  route update on `byte_len` (`nso_son.c:206`; vSON never sends one; the rules
  it would apply are in `Tables`).
* The tail pointer of packets (nothing reads it).
* A failed `recvfrom` in `Registration` and `BaseStation`: the thread then
  handles the frame before once more, with addresses it has freed
  (`PacketBuffer`).
* A mapping from `BaseStation` to `Registration`, or of `Registration`'s half of
  vSON to `TopologyGraph`: the modules share names and actions so that a reader
  can put them side by side, and their abstractions of the devices differ.
* The AAA client (one HTTP request, no state), `bs_app.c`, `echo.py`, test
  scripts, and vendored or generated code (`www/`, `vson/html/`,
  `node_modules/`, `configure`).

## 7. The order of the work

`TopologyGraph` with `Membership`, `Registration`, `NsoLayer` with `Mailbox`,
`PacketBuffer` and `LossAccounting` came first, with their proofs: they hold the
core of the system. Then what they take as one step or as given: `LinkedList`
and `Tables`, `Crc32c` and `HashCrc` under the tables, `BaseStation` section by
section with restarts, and `DataPlane`, the way of readings and commands beyond
the base station. What would come next, in this order: byte streams between the
base station and the VNFs (length-prefixed packets over partial reads and
writes), a model of the timers of device and vSON, and the mappings named in
section 6.

## 8. How to run it

    tlc -workers 2 -config TopologyGraph_core.cfg MCTopologyGraph
    tlapm Registration_proofs.tla

Each configuration names its module by its prefix: `X_….cfg` belongs to
`MCX.tla`.
