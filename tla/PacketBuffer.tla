---------------------------- MODULE PacketBuffer ----------------------------
(***************************************************************************)
(* Packet buffers (include/packet.h) and the WiFi interface (wifi_ops.c):  *)
(* where the data pointer of a packet is and how many bytes it says are    *)
(* there, as the tx thread sends one advertisement on every interface and  *)
(* an rx thread uses one packet for everything it receives.                *)
(*                                                                         *)
(* A position is a number of bytes from the beginning of `buf', which has  *)
(* room for the headroom, the packet's size (the MTU) and a tailroom.  The *)
(* rx threads are alike and share no packet, so there is one.              *)
(***************************************************************************)
EXTENDS Integers

CONSTANTS
  Headroom,  \* HEADROOM, 64
  Eth,       \* sizeof(struct ethhdr), 14
  Mtu,       \* nso_layer.mtu, the size of the packets
  AdvLen,    \* length of a neighbour advertisement
  Ifaces,    \* nso_layer.ifaces_nb
  Msg,       \* messages
  Zeroes     \* no message, as in bytes set to zero

ASSUME BufferAssumption ==
  /\ Headroom \in Nat /\ Eth \in Nat \ {0} /\ Eth <= Headroom
  /\ Mtu \in Nat /\ AdvLen \in 1..Mtu /\ Ifaces \in Nat \ {0}
  /\ Zeroes \notin Msg

VARIABLES
  txNext,   \* the interface the advertisement is sent on next; 0: idle
  txPkt,    \* the advertisement's packet
  aired,    \* length of the frame each interface has sent of it; 0: none
  rxPlace,  \* what the rx thread does next, or "dead": the process has ended
  rxPkt,    \* its packet
  held,     \* the message that is in the packet's bytes, valid or left over
  addr      \* its src and dst: unset, allocated or freed

tx == <<txNext, txPkt, aired>>
rx == <<rxPlace, rxPkt, held, addr>>
buffers == <<tx, rx>>

\* Positions are pointers: only the code keeps them in the buffer.
PacketType == [data : Int, len : Nat]

\* alloc_packet, packet_reset: an empty packet.
Empty == [data |-> Headroom, len |-> 0]

BufferInit ==
  /\ txNext = 0 /\ txPkt = Empty /\ aired = [i \in 1..Ifaces |-> 0]
  /\ rxPlace = "receive" /\ rxPkt = Empty /\ held = Zeroes /\ addr = "unset"

BufferTypeOK ==
  /\ txNext \in 0..(Ifaces + 1) /\ txPkt \in PacketType
  /\ aired \in [1..Ifaces -> Nat]
  /\ rxPlace \in {"receive", "process", "dead"} /\ rxPkt \in PacketType
  /\ held \in Msg \cup {Zeroes} /\ addr \in {"unset", "live", "freed"}

\* Mutant of HasHeadroom: nothing is refused.
HasHeadroomAlways(p) == TRUE

\* wifi_send and wifi_receive refuse a packet whose headroom is used up.
HasHeadroom(p) == p.data >= Eth

\* The link header goes before the data, and stays there.
Framed(p) == [data |-> p.data - Eth, len |-> p.len + Eth]
-----------------------------------------------------------------------------
(* son_nbr_advertise                                                        *)

StartAdvert ==
  /\ txNext = 0
  /\ txNext' = 1
  /\ txPkt' = [data |-> Headroom, len |-> AdvLen]
  /\ aired' = [i \in 1..Ifaces |-> 0]
  /\ UNCHANGED rx

\* nso_if_broadcast on the next interface: an error is logged, the loop goes on.
Broadcast ==
  /\ txNext \in 1..Ifaces
  /\ txNext' = txNext + 1
  /\ \/ /\ HasHeadroom(txPkt)
        /\ txPkt' = Framed(txPkt)
        /\ \/ aired' = [aired EXCEPT ![txNext] = txPkt'.len]
           \/ UNCHANGED aired                              \* sendto fails
     \/ /\ ~HasHeadroom(txPkt)
        /\ UNCHANGED <<txPkt, aired>>
  /\ UNCHANGED rx

FinishAdvert ==
  /\ txNext = Ifaces + 1
  /\ txNext' = 0
  /\ UNCHANGED <<txPkt, aired, rx>>
-----------------------------------------------------------------------------
(* __rx_thread_main                                                         *)

\* A frame with a message of n bytes; one of none leaves the bytes as they are.
ReceiveFrame(m, n) ==
  /\ rxPlace = "receive" /\ HasHeadroom(rxPkt)
  /\ rxPkt' = [rxPkt EXCEPT !.len = n]
  /\ held' = IF n = 0 THEN held ELSE m
  /\ addr' = "live"
  /\ rxPlace' = "process"
  /\ UNCHANGED tx

\* The receive fails: for want of headroom, in recvfrom, or because the frame
\* is not of this protocol, and then its bytes are set to zero.  The addresses
\* are left alone, the packet is processed all the same.
ReceiveFails ==
  /\ rxPlace = "receive"
  /\ held' \in IF HasHeadroom(rxPkt) THEN {held, Zeroes} ELSE {held}
  /\ rxPlace' = "process"
  /\ UNCHANGED <<tx, rxPkt, addr>>

\* Mutant of Reset: the data pointer stays where it is.
ResetLength(p) == [p EXCEPT !.len = 0]

\* packet_reset
Reset(p) == [data |-> Headroom, len |-> 0]

\* The handler consumes or drops what it finds, or forwards it.  Zero bytes are
\* data for a device that does not exist: without a route, nso_layer_fwd frees
\* an address it never set, and so it does for any packet it has no route for.
\* Then the thread frees the addresses and resets the packet.  To free what is
\* not allocated has no defined outcome: the process may end.
Process ==
  /\ rxPlace = "process"
  /\ \/ /\ rxPkt' = Reset(rxPkt)
        /\ rxPlace' \in {"receive", "dead"}
     \/ /\ held # Zeroes /\ HasHeadroom(rxPkt)
        /\ rxPkt' = Reset(Framed(rxPkt))
        /\ rxPlace' \in IF addr = "live" THEN {"receive"} ELSE {"receive", "dead"}
  /\ addr' = IF addr = "live" THEN "freed" ELSE addr
  /\ UNCHANGED <<tx, held>>

BufferNext ==
  \/ StartAdvert \/ Broadcast \/ FinishAdvert
  \/ \E m \in Msg, n \in 0..Mtu : ReceiveFrame(m, n)
  \/ ReceiveFails
  \/ Process

BufferSpec == BufferInit /\ [][BufferNext]_buffers
-----------------------------------------------------------------------------
(* Properties                                                               *)

\* What a packet says are its bytes lies in its buffer: no header goes before
\* its beginning, however many interfaces put one there, and the message with
\* all its headers is at most one of the MTU's length that begins where
\* messages do.
InBuffer(p) == /\ 0 <= p.data /\ p.data <= Headroom
               /\ p.data + p.len <= Headroom + Mtu
BufferBounds == InBuffer(txPkt) /\ InBuffer(rxPkt)

\* An rx thread that has forwarded a packet still has room for the next frame's
\* header: its receives never fail for want of headroom.
RxHasRoom == rxPlace = "receive" => HasHeadroom(rxPkt)

\* "advertising to all interfaces" (nso_son.c:129): no interface sends anything
\* but the advertisement behind one link header.
AdvertisesOnAll == \A i \in 1..Ifaces : aired[i] \in {0, AdvLen + Eth}
=============================================================================
