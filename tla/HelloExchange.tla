--------------------------- MODULE HelloExchange ----------------------------
(***************************************************************************)
(* The OSPF part of the router program (main.rs, Ni and Nih): it connects  *)
(* a raw socket to an interface, puts what the socket receives into a      *)
(* bounded channel, and answers every packet of another host with a Hello  *)
(* of its own.  Connecting goes through LinuxRustyRouterPlatform::          *)
(* connect_ipv4 (platform lib.rs) and LinuxInetPacketNetworkInterface::new *)
(* (network.rs), sending through its send.                                 *)
(*                                                                         *)
(* How epoll and the receive tasks read the socket is in Poller.  Here it  *)
(* is one flag, whether they will go on until the socket is empty; they    *)
(* may overlap, so the packets that wait are handed over in any order.     *)
(***************************************************************************)
EXTENDS Ipv4Header

CONSTANTS
  Names,        \* names Ni::new may be given
  Listing,      \* what list_network_interfaces gives: [name, device]
  Unlinked,     \* its device where an interface is on a link nobody configured
  Devices,      \* devices of the host
  LocalAddress, \* the address of the program
  Neighbours,   \* source addresses of other hosts' packets
  Capacity,     \* of the channel
  MaxArrivals,  \* bound on the packets of other hosts
  MaxRemovals   \* bound on the removals of devices

ASSUME ExchangeAssumption ==
  /\ Capacity \in Nat \ {0} /\ MaxArrivals \in Nat /\ MaxRemovals \in Nat
  /\ Unlinked \notin Devices /\ \A entry \in Listing : entry.device \in Devices \cup {Unlinked}
  /\ LocalAddress \in [1 .. 4 -> Byte]

AllSpfRouters == <<224, 0, 0, 5>>
OspfProtocolNumber == 89

VARIABLES
  wanted,       \* the name Ni::new was given
  stage,        \* how far connecting has got
  device,       \* the device connect_ipv4 has found
  hears,        \* the devices whose packets the socket receives
  present,      \* devices there are, and how often one may still go
  buffer,       \* packets in the socket
  polling,      \* the poller thread runs
  woken,        \* tasks read the socket, or epoll has an event that will start one
  channel,      \* packets from Nih to Ni
  arrived,      \* packets of other hosts: device, source, how far connecting had got,
                \* and what has become of them
  hellos,       \* Hellos sent
  wire          \* the last of them, as the neighbours receive it

pollerVars == <<polling, woken>>
vars == <<wanted, stage, device, hears, present, buffer, pollerVars, channel, arrived,
          hellos, wire>>

-----------------------------------------------------------------------------
(* Connecting. *)

Stages == {"asked", "listed", "open", "joined", "bound", "connected", "failed"}

Reach(from, to) == stage = from /\ stage' = to

DeviceOfAny(name) == {entry.device : entry \in Listing}

\* Those with the name; of several, one.
DeviceOf(name) == {entry.device : entry \in {e \in Listing : e.name = name}}

FindDevice ==
  /\ Reach("asked", "listed")
  /\ device' \in DeviceOf(wanted)
  /\ UNCHANGED <<wanted, hears, present, buffer, pollerVars, channel, arrived,
                 hellos, wire>>

\* socket and IP_HDRINCL.  From here on the kernel queues whatever the host
\* receives of the protocol, on any device.
OpenSocket ==
  /\ Reach("listed", "open")
  /\ hears' = Devices
  /\ UNCHANGED <<wanted, device, present, buffer, pollerVars, channel, arrived,
                 hellos, wire>>

JoinGroups ==
  /\ Reach("open", "joined")
  /\ UNCHANGED <<wanted, device, hears, present, buffer, pollerVars, channel, arrived,
                 hellos, wire>>

\* SO_BINDTODEVICE: with an empty name the socket stays as it is.
BindToDevice ==
  /\ Reach("joined", "bound")
  /\ device \in present.devices \cup {Unlinked}
  /\ hears' = IF device = Unlinked THEN hears ELSE {device}
  /\ UNCHANGED <<wanted, device, present, buffer, pollerVars, channel, arrived,
                 hellos, wire>>

\* epoll reports what waits already, but the event comes to nothing if it is looked
\* up before the handler is in the map.
AddItem ==
  /\ Reach("bound", "connected")
  /\ woken' \in IF polling /\ buffer # <<>> THEN BOOLEAN ELSE {FALSE}
  /\ UNCHANGED <<wanted, device, hears, present, buffer, polling, channel, arrived,
                 hellos, wire>>

\* No interface has the name, or a system call fails, as bind does without the
\* device.  The socket is closed, and main returns.
ConnectFails ==
  /\ stage \notin {"connected", "failed"}
  /\ stage' = "failed"
  /\ hears' = {} /\ buffer' = <<>>
  /\ UNCHANGED <<wanted, device, present, pollerVars, channel, arrived, hellos, wire>>

Connect ==
  FindDevice \/ OpenSocket \/ JoinGroups \/ BindToDevice \/ AddItem \/ ConnectFails

-----------------------------------------------------------------------------
(* The host and its neighbours (external). *)

\* A packet of a neighbour, with a word of IP options; Ni never reads the rest.
NeighbourPacket(source) ==
  <<70, 192, 0, 24, 0, 1, 0, 0, 1, 89, 0, 0>> \o source \o AllSpfRouters
    \o <<148, 4, 0, 0>>

\* A packet that comes to the socket wakes the poller, once the handler is in place.
Comes(packet) ==
  /\ buffer' = Append(buffer, packet)
  /\ woken' = (woken \/ (polling /\ stage = "connected"))

Arrive(d, source) ==
  /\ Len(arrived) < MaxArrivals
  /\ d \in hears \cap present.devices
  /\ Comes([id |-> Len(arrived) + 1, data |-> NeighbourPacket(source)])
  /\ arrived' = Append(arrived, [via |-> d, source |-> source, during |-> stage,
                                 fate |-> "waiting"])
  /\ UNCHANGED <<wanted, stage, device, hears, present, polling, channel, hellos, wire>>

\* A socket bound to a device that goes is deaf, even if one of the name comes back.
DeviceGoes(d) ==
  /\ d \in present.devices /\ present.removals > 0
  /\ present' = [devices |-> present.devices \ {d}, removals |-> present.removals - 1]
  /\ hears' = IF hears = Devices THEN hears ELSE hears \ {d}
  /\ UNCHANGED <<wanted, stage, device, buffer, pollerVars, channel, arrived, hellos, wire>>

DeviceComes(d) ==
  /\ d \notin present.devices
  /\ present' = [present EXCEPT !.devices = @ \cup {d}]
  /\ UNCHANGED <<wanted, stage, device, hears, buffer, pollerVars, channel, arrived,
                 hellos, wire>>

Host ==
  \/ \E d \in Devices, source \in Neighbours : Arrive(d, source)
  \/ \E d \in Devices : DeviceGoes(d) \/ DeviceComes(d)

-----------------------------------------------------------------------------
(* The poller and its tasks. *)

\* An error of epoll_wait ends the thread, with or without the event it was to
\* report.  The program is not told, and tasks that read already go on.
PollerEnds ==
  /\ polling
  /\ polling' = FALSE
  /\ woken' \in {woken, FALSE}
  /\ UNCHANGED <<wanted, stage, device, hears, present, buffer, channel, arrived,
                 hellos, wire>>

\* EAGAIN: the tasks end.
SocketEmpty ==
  /\ woken /\ buffer = <<>>
  /\ woken' = FALSE
  /\ UNCHANGED <<wanted, stage, device, hears, present, buffer, polling, channel,
                 arrived, hellos, wire>>

-----------------------------------------------------------------------------
(* Nih and Ni. *)

OwnPacket == 0

Settle(id, fate) ==
  arrived' = IF id = OwnPacket THEN arrived ELSE [arrived EXCEPT ![id].fate = fate]

OnRecvUnbounded(p) ==
  /\ woken
  /\ buffer' = RemoveAt(buffer, p)
  /\ channel' = Append(channel, buffer[p])
  /\ UNCHANGED <<wanted, stage, device, hears, present, pollerVars, arrived, hellos, wire>>

OnRecvOnce(p) ==
  /\ woken /\ woken' = FALSE
  /\ buffer' = RemoveAt(buffer, p)
  /\ IF Len(channel) < Capacity
     THEN channel' = Append(channel, buffer[p]) /\ UNCHANGED arrived
     ELSE Settle(buffer[p].id, "dropped") /\ UNCHANGED channel
  /\ UNCHANGED <<wanted, stage, device, hears, present, polling, hellos, wire>>

\* try_send drops a packet the channel has no room for.
OnRecv(p) ==
  /\ woken
  /\ buffer' = RemoveAt(buffer, p)
  /\ IF Len(channel) < Capacity
     THEN channel' = Append(channel, buffer[p]) /\ UNCHANGED arrived
     ELSE Settle(buffer[p].id, "dropped") /\ UNCHANGED channel
  /\ UNCHANGED <<wanted, stage, device, hears, present, pollerVars, hellos, wire>>

Answer ==
  [router_id |-> <<2, 2, 2, 2>>, area_id |-> <<0, 0, 0, 0>>,
   network_mask |-> Ipv4Netmask(<<255, 255, 255, 252>>), hello_interval |-> 10,
   options |-> 2, router_priority |-> 5, router_dead_interval |-> <<0, 0, 0, 40>>,
   designated_router |-> <<172, 16, 10, 1>>,
   backup_designated_router |-> <<0, 0, 0, 0>>, neighbors |-> <<<<1, 1, 1, 1>>>>]

\* Length, identification and checksum are the kernel's (external).
KernelCompletes(data) ==
  LET numbered == [data EXCEPT ![6] = 1]
      sum      == Bytes16(InternetChecksum(Slice(numbered, 0, 20)))
  IN  [numbered EXCEPT ![11] = sum[1], ![12] = sum[2]]

\* LinuxInetPacketNetworkInterface::send, up to sendto.
Packet(to, data) ==
  LET header == CHOOSE h \in BuildIp(LocalAddress, to, OspfProtocolNumber, Len(data),
                                     Unforced, 0, 0) : TRUE
  IN  IpBytes(header) \o data

\* The Hello Ni::process builds, as it goes out.
OwnHello == KernelCompletes(Packet(AllSpfRouters, HelloBytes(BuildHello(Answer))))

\* The kernel may hand the multicast packet back to the socket that sent it.
SendHello ==
  /\ wire' = OwnHello
  /\ hellos' = hellos + 1
  /\ \/ UNCHANGED <<buffer, woken>>
     \/ hears # {} /\ Comes([id |-> OwnPacket, data |-> OwnHello])

IsReadable(ip) == Ok(ip)

IsForeign(ip) == Ok(ip) /\ ip.source_address # LocalAddress

Take ==
  /\ stage = "connected" /\ channel # <<>>
  /\ channel' = Tail(channel)

\* Ni::process: what cannot be parsed and what the program has sent itself is
\* passed over, everything else answered; an error of send is swallowed.
Process ==
  /\ Take
  /\ LET packet == Head(channel)
         ip     == ParseIp(packet.data)
     IN  \/ /\ ~IsForeign(ip) /\ Settle(packet.id, "ignored")
            /\ UNCHANGED <<buffer, woken, hellos, wire>>
         \/ /\ IsForeign(ip) /\ Settle(packet.id, "answered")
            /\ SendHello
         \/ /\ IsForeign(ip) /\ Settle(packet.id, "unsent")
            /\ UNCHANGED <<buffer, woken, hellos, wire>>
  /\ UNCHANGED <<wanted, stage, device, hears, present, polling>>

Receive == \E p \in DOMAIN buffer : OnRecv(p)

-----------------------------------------------------------------------------
Init ==
  /\ wanted \in Names /\ stage = "asked" /\ device = Unlinked
  /\ hears = {} /\ present = [devices |-> Devices, removals |-> MaxRemovals]
  /\ buffer = <<>> /\ polling = TRUE /\ woken = FALSE
  /\ channel = <<>> /\ arrived = <<>>
  /\ hellos = 0 /\ wire = <<>>

Next == Connect \/ Host \/ PollerEnds \/ SocketEmpty \/ Receive \/ Process

\* main calls process in a loop; that tasks read on once the poller is woken, until
\* the socket is empty, is EventuallyHandedOver of Poller.
Spec ==
  Init /\ [][Next]_vars /\ WF_vars(Receive) /\ WF_vars(Process)

-----------------------------------------------------------------------------
(* What must hold. *)

Fates == {"waiting", "dropped", "ignored", "answered", "unsent"}

TypeOK ==
  /\ wanted \in Names /\ stage \in Stages
  /\ device \in Devices \cup {Unlinked}
  /\ hears \subseteq Devices /\ present.devices \subseteq Devices
  /\ polling \in BOOLEAN /\ woken \in BOOLEAN /\ (woken => stage = "connected")
  /\ Len(channel) <= Capacity
  /\ \A i \in DOMAIN arrived : arrived[i].via \in Devices /\ arrived[i].fate \in Fates
  /\ \A i \in DOMAIN buffer : buffer[i].id \in 0 .. Len(arrived)
  /\ \A i \in DOMAIN channel : channel[i].id \in 0 .. Len(arrived)

With(fate) == {i \in DOMAIN arrived : arrived[i].fate = fate}

\* The program's multicasts come back to its own socket.  It never answers one:
\* there is a Hello for each packet of another host it answered, and no other,
\* so what it sends is limited by what the others send.
NoStorm == hellos = Cardinality(With("answered"))

\* A socket for an interface on a configured link gets packets of no other device,
\* with one exception: the socket is open before it is bound, and what arrives in
\* between is read, and answered on the interface, later.
OwnDeviceOnly ==
  \A i \in DOMAIN arrived :
    \/ arrived[i].during \in {"open", "joined"}
    \/ \E entry \in Listing :
         /\ entry.name = wanted
         /\ entry.device \in {arrived[i].via, Unlinked}

\* Another instance of the library takes the bytes that go out for the Hello the
\* program means, from this address, to all OSPF routers.
AnswerUnderstood ==
  wire # <<>> =>
    LET ip    == ParseIp(wire)
        hello == ParseHello(Slice(wire, 4 * ip.internet_header_length, Len(wire)))
    IN  /\ Ok(ip) /\ ip.total_length = Len(wire)
        /\ ip.source_address = LocalAddress /\ ip.destination_address = AllSpfRouters
        /\ ip.protocol = OspfProtocolNumber
        /\ Ok(hello) /\ \A n \in DOMAIN hello \ {"header"} : hello[n] = Answer[n]
        /\ hello.header.router_id = Answer.router_id

Waits(i, queue) == \E p \in DOMAIN queue : queue[p].id = i

\* The packet, or one after it, has come with the handler in place.
Noticed(i) == \E k \in i .. Len(arrived) : arrived[k].during = "connected"

\* Whatever else it has received, its own Hellos included, and whatever send has
\* failed with before, the program gets to every packet that found room in the
\* channel; and a packet in the socket gets there or is dropped, unless it came
\* before the handler was in place and none has come since, or the poller thread
\* has ended.
EventuallySettled ==
  \A i \in 1 .. MaxArrivals :
    Waits(i, channel) \/ (Waits(i, buffer) /\ Noticed(i)) ~>
      \/ i \in DOMAIN arrived \ With("waiting")
      \/ Waits(i, buffer) /\ ~polling
=============================================================================
