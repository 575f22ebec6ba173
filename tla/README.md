# TLA+ development of rusty-router

rusty-router is an experimental router: on Linux it keeps a picture of the
kernel's links, addresses and interfaces, connects raw IPv4 sockets for a routing
protocol, and has codecs for IPv4 and OSPFv2 packets. Paths below are relative to
`src/`; `platform/` is short for `rusty-router-platform-linux/src/`.

Modules are in this directory; `PROJECT.json` maps their definitions to lines of
the source and lists runs, hazards and theorems. To repeat a result:

    tlc -workers 2 -config InterfaceManagerSafety.cfg MCInterfaceManager
    tlapm StatusTable_proofs.tla

At this commit `rusty-router-proto-ospfv2` holds unresolved merge markers
(`packet/hello.rs`, lines 85, 131 and 140), so the workspace does not build as it
is. They divide the declaration of a struct. The modules follow the side named
"Updated upstream": its field types are those the rest of the file, the router
program and the accessors use.

## Inventory

| Component | State | Operations | What makes it correct |
|---|---|---|---|
| Interface database (`platform/interface/database.rs`, `model.rs`) | two tables: a running number, three maps from a key to it, a primary map | set, remove (recursive), take, list, lookup by device index | the maps agree, no two items share a key, each call is a simple set operation |
| Multicast listener (`platform/interface/mod.rs` 490-714, `netlink/processor.rs`) | none of its own; writes the database under its lock | `message_received` for NewLink, DelLink, NewAddress, DelAddress | applies messages in order, never loses a configured name, announces what it stores |
| Anti-entropy poller (`mod.rs` 100-488) | two dumps and a snapshot on its stack | `poll` every 10 s | repairs whatever the listener got wrong, never undoes what is newer than the snapshot |
| Subscribers (`mod.rs` 90, 458, 565) | a list of bounded channels | subscribe, send, drop on failure | a subscriber that is still there knows the current state |
| Netlink socket (`platform/netlink/socket.rs`) | a request socket, a multicast socket, a running flag | `send_message`, the receive loop, Drop | answers belong to the request; messages are handed over in order |
| Poller and packet sockets (`platform/network.rs`) | epoll instance, map of handlers, descriptors with reference counts | connect, drop, the epoll thread, recv tasks | no lost wakeup, no use after close, no leak |
| Platform (`platform/lib.rs`) | the two above | list, subscribe, `connect_ipv4` | finds the device of a configured interface |
| Router program (`rusty-router/src/main.rs`) | a channel of packets | `Ni::process`, `Nih::on_recv` | answers what it receives |
| Registration manager (`rusty-router-model/src/utils.rs`) | a map from random identifiers | register, Drop, list | an item is listed exactly while its registration lives |
| Codecs (`rusty-router-proto-*`) | none | parse, build, serialise, checksum | round trips, the checksum of RFC 1071, bounds on lengths |

Interaction. The manager shares the database between two tasks through an
`RwLock`. The listener runs on the task of the multicast socket and holds the lock
from the first change to the last notification. The poller dumps links, then
addresses, through the request socket without the lock, takes the lock to apply,
releases it, and only then notifies. Subscribers are behind a second lock, always
taken while the first is held (listener) or after it is free (poller), so the
two locks cannot deadlock. The epoll thread runs apart from tokio; it hands each
batch of events to a task, which spawns one more task per socket.

What is hard: a snapshot that is older than the messages it races with; lost,
late and repeated messages; dumps cut short by a timeout and taken as complete;
identities that match several stored items at once; edge-triggered events
that are reported once; descriptors shared by tasks, a map and an owner. The
list with lines is in `PROJECT.json` under `hazards`.

## Modules

| Module | Models | Remarks |
|---|---|---|
| `StatusItems` | identities and conflicts between them | operators only |
| `ItemStore` | what one table of the database promises | abstract: a set of items and the last reply |
| `StatusTable` | one table as it is implemented | both tables have the same code, so one module stands for both |
| `StatusTableRecursion` | the recursive removal, word for word | for TLC only: the other modules have no RECURSIVE operator |
| `StatusTable_proofs` | the proofs about `StatusTable` | |
| `SequenceFacts` | lemmas about sequences, sets and counting that several proofs need | no model |
| `InterfaceManager` | kernel, listener, poller, hold period | the database is two sets of items, used through the operators that define `ItemStore` |
| `InterfaceManager_proofs` | the proofs about it | |
| `MCInterfaceManager` | constants for TLC | |
| `Poller` | connect, epoll, recv tasks, drop | |
| `Poller_proofs` | the proofs about it | |
| `Dumps` | what `send_message` promises | abstract: a whole dump, an excuse, or a message nobody can read |
| `NetlinkSocket` | the netlink sockets, the worker's loop, the multicast task, shutdown | implements `Dumps` |
| `NetlinkSocket_proofs` | the proofs about it, the refinement among them | |
| `StatusFeed` | subscribers, their channels, and clients that list and subscribe | the database is reduced to a status per entry |
| `StatusFeed_proofs` | the proofs about it | |
| `Checksum` | `InternetChecksum` and the folding of the OSPF parser | operators only |
| `OspfPacket` | netmasks, OSPF header, Hello | operators only |
| `Ipv4Header` | IPv4 header | operators only |
| `HelloCodec`, `MCHelloCodec` | a packet from its sender to the parsers | over `OspfPacket` |
| `HelloExchange`, `MCHelloExchange` | `connect_ipv4`, `Nih`, `Ni`, `send` | over `Ipv4Header` and `OspfPacket` |
| `Hello_proofs` | the proofs about `HelloCodec`, `HelloExchange` and the operators they are built from | |
| `RegistrationManager` | `ArcRegistrationManager` | |
| `RegistrationManager_proofs` | the proofs about it | |

How they fit together: `StatusTable` implements the table `InterfaceManager` uses, and
`NetlinkSocket` implements `Dumps`; both are proved for all values of the constants. `Dumps`
is what the poller of `InterfaceManager` assumes of a dump: a subset, smaller than the whole
only where a fault happens. `StatusFeed` takes the order in which the listener and the
poller of `InterfaceManager` store and tell, and adds the channels. `Poller` hands packets
to a handler in any order; `HelloExchange` starts there.

### StatusTable

`next` is `network_link_index` (`network_interface_index`), `index` the three maps
keyed by kind, `items` the primary map, `reply` what the last call returned. One
action per public function. The code's removal takes an item out of the primary
map and calls itself with that item's own identity; `Evict` is the effect of that
inner call: the other keys of the item go. That is only right while the
maps agree, so it is not taken for granted: `StatusTableRecursion` keeps the
recursion and `RecursionIsEviction` compares the two on every reachable table and for
every identity, with an assertion that the recursion is one call deep.
Identities are those InterfaceManager constructs: a device index only beside a
device, at least one key. Results are sets; `list_*` sorts by name, which no
property depends on.

### InterfaceManager

| Action | Code |
|---|---|
| `NewLink`, `TellLink`, `TellInterface` | `message_received`, 514-582: store the link, tell the subscribers, store the interface, tell the subscribers; the lock is held throughout |
| `DelLink` | 583-659 |
| `NewAddress`, `DelAddress` | 660-713 |
| `DumpLinks`, `DumpAddresses`, `PollFails` | 147-161 |
| `ApplyPoll` | 163-456: the snapshot depends on the dumps only, so it is computed in the step that applies it |
| `NotifyPoll` | 458-484 |
| `HoldExpires` | the passing of ENTROPY_HOLD_PERIOD_SECONDS for one item |
| `CreateDevice` ... `RemoveAddress` | the kernel (external) |

What is abstracted:

- Time is the flag `held` of an item. The code compares the item's time stamp with
  that of the snapshot, so no hold period ends while a snapshot waits to be applied.
- A kernel device has an index, Up or Down, and a set of addresses. Indexes are
  never given out twice, a renamed device keeps its index, and addresses are removed
  one by one before their device. The state Unknown, messages of other address families
  and messages without a device name, which `process_link_message` drops, are left out.
- A dump is all of what the kernel has, or, as a fault, any part of it: that is
  what `send_message` returns after a timeout. The first dump failing is the same
  as no poll.
- A message is put in the queue or lost, in order. The queue has no bound of its
  own: the bound on kernel changes bounds it.
- Configurations that use a device or a link twice are excluded by
  `ConfigurationAssumption`: the code calls them unvalidated in a TODO
  (`mod.rs` line 40). An interface on a link nobody configured is included.
- What the subscribers are sent is the `news` of the listener and of the poller, gone
  once it is sent; the channels it goes to are not part of the module.
- The two locks: `LockFree` is the database lock; the lock on the subscribers is
  never held while the other is awaited, so it does not appear.
- The order in which a hash map is drained is immaterial because no two items of a
  snapshot share a key; `SetToSeq` picks one order for the notifications.

### Poller

`stage` is how far `LinuxInetPacketNetworkInterface::new` has got, `handlers` the
map (a handle is identified with its socket: identifiers are random 64-bit
numbers), `removing` the tasks that dropped tickets spawn, `events` the tasks of
`poller_process_messages` that have not looked their handler up, `reading` and
`delivering` the recv tasks. `listenerRefs` counts the references to the listener,
whose last one closes the socket, together with the interface's own. The kernel side is
epoll with EPOLLET: a packet that arrives puts the socket on the ready list unless
it is there, `epoll_wait` takes up to MaxEvents entries and reports those that are
still readable.

A poller cannot be dropped while an interface is being made, because `add_item`
borrows it. An error of recv other than EAGAIN changes nothing and is left out; so
is reuse of a descriptor number after close. A batch of events is looked up by one
task in the code and entry by entry here, which allows more orders.

### NetlinkSocket

| Action | Code |
|---|---|
| `PollBegins`, `AskForAddresses`, `SendFails` | `start`, `poll`, `try_poll` (`mod.rs` 109-161) up to the second answer, `send_message` up to its send |
| `ReceiveReply`, `ReplyTimeout` | `recv_loop` with a sequence number (`socket.rs` 171-222), one datagram or 100 ms at a time, and what `send_message` makes of its end |
| `TaskLoops`, `CollectEvent`, `EventTimeout`, `DeliverEvent` | `recv_multicast_messages` (144-168) with `recv_loop` without one |
| `DropManager`, `WorkerEnds` | Drop for `InterfaceManager`, the worker's loop condition, Drop for the socket |
| `KernelAnswers`, `KernelRefuses`, `KernelAnnounces` | the kernel (external) |

A datagram is a sequence of messages, as many of a dump as the kernel puts into it;
`Collected` and `Outcome` are the inner loop of `recv_loop`, which reads a message before it
looks at its number: one that cannot be read ends the loop whichever request it answered.
Faults lose a datagram (the receive that fails is repeated, so nothing else is seen of it),
put an error in the place of a dump, or garble a message, which ends the loop with an error.
`spoiled` and `lost` are history: the requests something has gone wrong with, timeouts
included, and the multicasts that did not get through. Every request has a number of its
own; the code draws it from 32 random bits, and the multicasts of the kernel carry other
numbers on another socket. The socket's mutexes are each used by one task only. The
InterfaceManager exists only after its first poll, which `new` waits for, so `DropManager`
comes in a poll only from the second one on.

`Dumps` keeps the messages nobody can read that wait at the socket (`unreadable`, mapped to
`Unreadable`). `LeaveBehind` adds to them from an earlier answer, `Suffer` from this one;
`Fail` takes at least one of them away, so that each makes one request fail at most.
Everything else an earlier request has left behind is without effect: `Return` gives the
whole dump unless something went wrong with this very request.

### StatusFeed

An entry is a link or an interface as a client tells it apart, by its name and its device.
The index it is filed under is left open, and with it whether another entry takes it over.
What is `Configured` is listed as NotFound when the kernel does not have it (`Missing`), by
DelLink and by every poll (an interface on a link nobody configured is Misconfigured
instead, which counts as NotFound here). An entry whose index another one takes over is
displaced: `remove_*_status_item` takes it out together with the item that comes, and nobody
is told (`mod.rs` 361-369, 404-411 and 528).

`Store` is NewLink in the listener, with at most one link it displaces; `ChangeSilently` is
DelLink, NewAddress and DelAddress, which say `TODO Notify`; `ApplyPoll` and `NotifyPoll`
are the two halves of a poll. `ApplyPoll` chooses what the poll tells (`told`) within
`MayTell`: all that has changed; things that have not, if only their index has; and of what
is gone the entries left over when the removals are done (387-392, 430-452), so that one may
be missing only if an entry of its kind that the poll brings may have displaced it.
`StartTelling` takes the lock of the subscriber list, `TrySend` is one call of `try_send` in
`retain`, `AllTold` its end. `ListNetworkLinks`, `ListNetworkInterfaces`, `Subscribe` follow
`main`, in its order. `Receive` and `Leave` are what a client may do with its receiver;
`main` does neither.

`log`, `since` and `heard` are history for `NoGaps`. `stale` marks, for each client, what it
may be wrong about, and names the cases: a change nobody is told of; a change between the
list and the subscription; a change the listener told of while older news of the poll was
still to be sent, or the list read while such news was; a link the poll found gone, which is
announced with the status it last had; and an entry that was displaced. A device without a
configured name that is renamed is such an entry: the subscribers hear of its interface
under the new name and never that the one under the old name is gone. A mark goes away with
the next ordinary update, so `BelievesOrStale` also says that these are the only cases and
that none lasts longer than that.

### Checksum, OspfPacket, Ipv4Header

Each parser and builder is an operator on sequences of bytes, with the error
returns in the order of the code. 32-bit numbers are tuples of four bytes; 16-bit
arithmetic is modulo 65536 where the code's is. The checksum is a sum of
16-bit words: the code adds groups of eight bytes in the machine's byte order, swaps
the sum and folds it from 128 bits. A word has the same weight modulo 65535 wherever
it stands in a group and the swap multiplies the sum by 256 modulo 65535, so
both sums fold to the same word. That the u128 cannot overflow, for packets of
up to 64 kB, is not modelled.

### HelloCodec

A builder of this library (`SendBuilt`), or another implementation with any type
and authentication (`SendForeign`, external), makes a packet; the way changes a byte,
cuts or pads it; `Parse` gives it to `OspfHeader::try_from` and
`OspfHelloPacket::try_from`. The module's specification is `CodecSpec`: its names have a
prefix where the proofs use it beside `HelloExchange`.

`AcceptedAsMeant` says that damage is noticed, as far as a sum can notice it. Two kinds of
damage the sum cannot see are part of the statement. A smaller length hides neighbours, and
the sum is right again if the hidden addresses weigh as much as the length has lost:
255.251.0.0 weighs -4, one neighbour is four bytes. So the neighbours read are a beginning
of those sent, and all of them when the length is right. And cryptographic authentication
goes with the checksum 0; a change of the authentication type makes the parser compare the
sum with it, and a packet whose sum is that of no words passes. A packet whose sum carries
twice is compared with the wrong checksum (see Findings) and left out.

### HelloExchange

| Action | Code |
|---|---|
| `FindDevice` | `connect_ipv4` (`platform/lib.rs` 84-99): list, filter by name, pop |
| `OpenSocket`, `JoinGroups`, `BindToDevice`, `AddItem`, `ConnectFails` | `LinuxInetPacketNetworkInterface::new` (`network.rs` 89-135) |
| `OnRecv` | `Nih::on_recv` |
| `Process` | `Ni::process` with `Ipv4Header` and `OspfPacket`: take, parse, compare the source, build, send |
| `PollerEnds`, `SocketEmpty` | `poller_task` after an error of `epoll_wait`, `recv` at EAGAIN |
| `Arrive`, `DeviceGoes`, `DeviceComes` | the host (external) |

The packets are bytes, so what is answered, and what goes out, is what the codecs make of
them. `OwnHello` is a constant: `Ni::process` answers everything with the same Hello. The
kernel may hand a multicast packet back to the socket that sent it, and fills in length,
identification and checksum (`KernelCompletes`). `arrived` records what has become of each
packet and how far connecting had got when it came. How a packet is read from the socket is
in `Poller`. Here `woken` says that tasks read the socket or are about to, and then they go
on until it is empty. A packet sets it only when the handler is in place and the poller
thread runs (`polling`). For packets that wait already when the handler is put there
(`AddItem`) it is left open: the event `epoll_ctl` raises for them is lost if it is looked
up before. The configuration is that of `main`, reduced: `Inside` on a device, `Unused` on a
link that is not configured, whose device name is empty, and a device that is nobody's.

### RegistrationManager

One action per critical section of the map's lock, so that an owner can drop a
Registration between the collision in `perform_registration` (`Refuse`) and the drop
of the one just made (`DropUnregistered`). `shared` is history: items whose
identifier was drawn for another item while they were registered.

## Runs

| Run | Module, cfg | Shows | States |
|---|---|---|---|
| `status_table` | `StatusTableRecursion` | agreement of the maps, distinct keys, recursion, `ItemStore` | 15 thousand |
| `interface_manager` | `MCInterfaceManager`, `InterfaceManagerSafety.cfg` | safety of the manager | 1.7 million |
| `anti_entropy` | `MCInterfaceManager`, `InterfaceManagerLiveness.cfg` | the database becomes right and stays right | 174 thousand |
| `poller` | `Poller`, `Poller.cfg` | no use after close, no lost wakeup | 440 thousand |
| `poller_liveness` | `Poller`, `PollerLiveness.cfg` | packets are handed over, sockets closed | 28 thousand |
| `poller_readers` | `Poller`, `PollerReaders.cfg` | expected violation, see Findings | |
| `netlink` | `NetlinkSocket`, `NetlinkSocket.cfg` | answers are their own and complete or excused, events in order and delivered, both tasks end | 403 thousand |
| `status_feed` | `StatusFeed`, `StatusFeed.cfg` | no gaps, what a subscriber believes, nobody held up | 440 thousand |
| `hello_codec` | `MCHelloCodec`, `HelloCodec.cfg` | what is accepted was meant, and the other way round | 193 thousand |
| `ospf_checksum` | `MCHelloCodec`, `HelloChecksum.cfg` | expected violation, see Findings | |
| `hello_exchange` | `MCHelloExchange`, `HelloExchange.cfg` | no storm, own device only, understood, packets processed or dropped | 41 thousand |
| `registrations` | `RegistrationManager`, `RegistrationManager.cfg` | listed and held agree | 20 thousand |

Bounds. The safety properties of `status_table`, `interface_manager`, `poller`, `netlink`,
`status_feed`, `hello_codec`, `hello_exchange` and `registrations` are theorems as well, which need
none of them (see Proofs); there the runs show that the properties can be violated at all, by the
mutants of the code, and that the models reach what is interesting.

- `status_table`: two names, two devices, two indexes. A new identity has three keys, so it
  conflicts with at most three items; a table of these keys holds up to four. MaxIndex = 5
  lets a full table be written to once more; Take starts over. One status: nothing reads it.
- `interface_manager`: one configured device (present at first) and one that is not, one
  interface on it and one on a link that is not configured; three kernel changes (delete and
  create again with a change between, or rename there and back) and one fault.
- `anti_entropy`: both devices present at first, two changes (a device goes and the other
  takes its name, for one), one fault. The scan and the hold period go on for ever.
- `poller`: two sockets and a buffer for one event, so that entries are left on the ready
  list. `poller_liveness`: one socket; the second reader of a socket needs two packets, four
  make room for a third.
- `netlink`: a poll makes two requests, so the rest of the first dump can arrive during the
  second; two polls, so that the manager can be dropped at any point of the second; a dump
  of one message and its end, in one datagram or two, so that a timeout can come between;
  one fault of any kind besides the timeouts, which are not bounded: enough for a message
  that cannot be read to be left to the next request; two multicast messages, so that order
  can be lost.
- `status_feed`: two links and two interfaces, one of each configured, one state besides
  NotFound and absence, a channel for one update (the code's has a hundred), two changes:
  enough for news of the poll to be overtaken, for a channel to overflow (a poll tells of
  four entries), and for an entry that is there to be displaced. Clients do not interact
  except through the list, so one is enough.
- `hello_codec`: seventeen Hellos (a mask with a gap, a sum that carries twice, none to two
  neighbours, a neighbour that makes up for its loss, a sum that is that of no words), five
  types, three authentications, one fault at any byte; six changes of a byte
  (`SomeChanges`), of a bit or most of them, and those the two exceptions of
  `AcceptedAsMeant` need.
- `hello_exchange`: a channel for one packet, two arrivals, one removal of a device: the
  program's own Hellos and the second packet can find the channel full, and one packet can
  come before the handler is in place and one after.
- `registrations`: four items and three identifiers.

Fairness. The listener's task and the poller's steps are tokio tasks and timers that go on
(weak fairness). Hold periods have strong fairness: the next poll is ten seconds after the
last, and five seconds end a hold, so there is always time between two polls, but a snapshot
waiting to be applied disables the step. Nothing is assumed of the kernel, or of faults;
that they stop is the bound on them. In `Poller` the epoll thread and each socket's tasks
have weak fairness; the tasks of one socket share it, since they are interchangeable. Nobody
has to connect, drop or send anything. Packets that arrived between `epoll_ctl` and the
insertion of the handler may stay unread until another arrives, which is why `Covered` asks
for one later packet. In `NetlinkSocket` the worker and the multicast task have weak
fairness: a tick comes every ten seconds, and each receive ends with a datagram or after 100
ms. That the kernel falls silent in the end is the bound on its multicasts; without such a
pause nothing collected would be delivered. In `StatusFeed` the listener and the poll go on;
clients need do nothing. In `HelloExchange` processing goes on, since `main` loops over
`process`, and so does receiving once the socket is `woken`, which is what
`EventuallyHandedOver` of `Poller` says. Nobody has to connect. A packet whose edge was
lost, or that came after the poller thread had ended, is read only if another wakes the
tasks, or never.

Deadlock is checked for the table, the manager and the registrations. The others
stop by themselves when everything has arrived, ended or been parsed.

### Findings

`poller_readers` checks what a comment in `network.rs` (306) says: "Edge triggering
will prevent a socket from being read across multiple threads." It does not: the
thread goes back to `epoll_wait` while the first task reads, a new packet is a new
edge, and a second task reads the same socket, so that packets can be handed over
in another order than they came. EPOLLONESHOT would give what the comment says. The
next line of the comment lets a handler synchronise by itself, and the one handler
there is does (`Nih` has a mutex), so no harm follows beyond the order.

`ospf_checksum` checks that what `OspfHelloPacketBuilder` builds is accepted by
`OspfHelloPacket::try_from`. `calculate_final_result` folds the sum of the words
"in halves twice to account for carry"; the parser (`header.rs` 307) folds it once and
cuts it to 16 bits. When the fold itself carries, the parser expects a checksum that
is one too high, and rejects a valid packet: the program's own Hello with a hello interval of
16270 seconds, for one. `OneFoldDecides` proves that this is exactly when it happens. The
Hello the program really sends is not such a packet (`AnswerUnderstood`).

### Properties

- `IndexesAgree`, `UniqueKeys`, `RecursionIsEviction`, `ImplementsItemStore`: the table as
  above.
- `NoConflicts`: no listener message or snapshot leaves two items with a common key; it also
  justifies ignoring the order of the hash maps.
- `ConfiguredAlwaysListed` (with `LinksStayListed` for the links): from the first applied
  poll on, each configured interface is listed on its own device at every moment, which is
  what `connect_ipv4` relies on, and so is each configured link, with one exception. When
  its device is renamed, the item stored for the new name has the index of the old one,
  which `set_link_status_item` removes (line 528); nothing puts a NotFound item in its
  place, as DelLink would, until the next poll.
- `HoldRespected`: of the items in their hold period a poll leaves alone exactly those whose
  whole identity its dumps confirm: the device is in the dump with that index, or is missing
  from it where the item has a name and no index (`Confirmed`); an interface without a name
  needs an address in the dump as well. So a late snapshot does undo what the listener has
  heard since the dump of a device that is gone, was created again or renamed, until the
  next poll or message. The comment above `try_poll` (`mod.rs` 145-146) says as much of
  interfaces that "are deleted and re-created outside this router"; of renaming nothing
  does.
- `NewsPending`: a link that comes or changes, and the link of an interface, is on its way
  to the subscribers from the step that stores it. It says nothing of DelLink and of
  addresses, which are stored silently (three `TODO Notify` in the code).
- `EventuallyInSync`: the purpose of the anti-entropy scan.
- `NoUseAfterClose`, `EventuallyClosed`: the reference counting of a socket, both ways.
- `NoLostWakeup`, `EventuallyHandedOver`: edge triggering and reading until EAGAIN, for
  packets the handler was in place for, or that another has followed since (`Covered`).
- `AnswerIsOwn`, `ImplementsDumps`: what a request that timed out leaves behind never gets
  into or shortens the answer to the next one, as long as it can be read. A leftover that
  cannot be read ends the next request with an error, because it is met before its number is
  looked at (`socket.rs` 198-206); each of them does so to one request at most.
- `EventsInOrder`, `EventuallyDelivered`: a multicast message reaches the listener once and
  in order, although messages are collected in batches and a batch can end in an error.
- `EventuallyEnded`: shutdown, by the chain of Drops, whatever the tasks are at; a poll in
  progress ends first.
- `NoGaps`, `EventuallyTold`: a slow subscriber is cut off; it neither misses something in
  the middle nor holds up the listener, which has the database lock.
- `BelievesOrStale`: see `StatusFeed` above.
- `AcceptedAsMeant`, `AcceptedUnlessCarries`, `Reserialises`: the codecs, on damaged packets
  too (see `HelloCodec` above). A packet that has the form of a Hello and another type is
  accepted by `OspfHelloPacket::try_from`: the caller must look at the type, as `Means`
  does.
- `NoStorm`: the program's multicasts come back to it and are not answered.
- `OwnDeviceOnly`: a socket reads no other device's packets, except those that came between
  `socket` and `SO_BINDTODEVICE`, and except on an interface whose link is not configured:
  its device name is empty, and the socket stays unbound.
- `AnswerUnderstood`: the bytes that go out, the kernel's part included, are what this
  library's parsers take for the Hello that was meant.
- `EventuallySettled`: every packet that found room in the channel is processed, and every
  packet in the socket gets there or is dropped, except one that came before the handler was
  in place and was followed by none, and except when the poller thread has ended.
- `ListedAreHeld`, `HeldAreListed`: when identifiers collide, an item can disappear from the
  list, but none is listed longer than its Registration lives.

## Proofs

`StatusTable_proofs` proves, for all sets of names, devices, indexes and statuses
and any MaxIndex:

- `TypeCorrect`: Spec => []TypeOK
- `IndexesAlwaysAgree`: Spec => []IndexesAgree
- `KeysAlwaysUnique`: Spec => []UniqueKeys
- `TableImplementsItemStore`: Spec => ImplementsItemStore

The assumption is `ConstantsAssumption`: None is not a key, MaxIndex a natural number.
The argument: the inductive invariant is `TypeOK /\ IndexesAgree`. A removal looks
items up through the three maps and never through the primary map, so that it takes out
exactly the items in conflict with an identity only if the maps agree; in turn the
maps agree afterwards because every key of an item goes with it. `RemoveByShrinks`
says what one lookup does, `RemoveShrinks` puts three together, `RemovalFromTable`
states the result for the current table, `InsertAgrees` adds the new item. The same
lemmas give the refinement: `reply` is the set of items in conflict, and the set of
stored items changes as `ItemStore` says. `UniqueKeys` follows because a key
leads to one number.

`InterfaceManager_proofs` proves, for any devices, addresses, configuration and number
of kernel changes and faults:

- `TypeCorrect`: Spec => []TypeOK
- `NeverInConflict`: Spec => []NoConflicts
- `ConfiguredStayListed`: Spec => ConfiguredAlwaysListed
- `HeldItemsStay`: Spec => HoldRespected
- `ChangesAreAnnounced`: Spec => NewsPending

`ConfigurationAssumption` says that the sets are finite, that no device and no link is
configured twice, and that None is not a name. The inductive invariant has a part for the
kernel (an index is in use once), for the multicasts that wait, for the database and for
what the two tasks have at hand. The part that carries the argument is the database's: each
item is filed under the configured names of its device (`NamedLink`, `NamedInterface`), so
that a name and a device are two ways to say the same. An applied poll leaves the identities
of the snapshot behind and no others (`AppliedFacts`), and a snapshot has no conflicts and
every configured name once, however the dumps were cut short (`LinkDump`: the kernel's
answer names a device once). A link the listener stores evicts whatever it is in conflict
with. An interface it stores has the identity of one that is there, with or without its
index (`Replaces`), so that it displaces that one only; this is why from the first applied
poll on every configured interface keeps an item (`AllFiled`). The lock is what makes it
true: an item waits between `TellLink` and `TellInterface` to replace one nobody else may
remove. The action properties follow step by step. For `HoldRespected`, an item stays
exactly if the snapshot has its identity, and which identities a snapshot has follows from
the dumps: the names of a device are the same in the snapshot and in the item, so that the
same index and device make the same identity, and a name without an index is in the snapshot
only for a configured device the dump lacks.

`Poller_proofs` proves, for any number of sockets, packets and entries of a batch:

- `TypeCorrect`: Spec => []TypeOK
- `NeverUsedAfterClose`: Spec => []NoUseAfterClose
- `WakeupNeverLost`: Spec => []NoLostWakeup

The strong count of a listener is not explained by the count alone. `CountIsRight` says
what it counts: one reference that is in the map or on its way there, one per task that
reads, one per task that delivers. `Stages` orders connecting, the map, dropping and
closing, so that a descriptor is closed only after its interface is dropped and its last
reference gone. `NoLostWakeup` is inductive with these: a packet arrives at a readable socket,
which has a mark, a task or an event already, or makes it readable, which is an edge.

`StatusFeed_proofs` proves, for any links, interfaces, clients and capacity:

- `TypeCorrect`: Spec => []TypeOK
- `NothingLeftOut`: Spec => []NoGaps
- `BeliefsAreRight`: Spec => []BelievesOrStale

`NoGaps` says what a subscriber has heard, has in its channel and has still to be told is
what was told since it subscribed; `Holding` (only those on the list are told anything)
makes it inductive. `BelievesOrStale` looks at a client with nothing left to receive. Its
strengthening `Current` looks ahead, at any moment: all that is on the way to a client about
an entry that is not stale agrees with the database, in the poll's hands, in the listener's
and at the end of the channel; and where nothing is on the way, the client believes the
right thing (`WillAgree`). An entry that is displaced is stale from the same step on. The
rules by which `stale` is set are thereby shown to be complete.

`NetlinkSocket_proofs` proves, for dumps of any length and any number of polls,
multicasts and faults:

- `TypeCorrect`: Spec => []TypeOK
- `AnswersAreOwn`: Spec => []AnswerIsOwn
- `EventsStayInOrder`: Spec => []EventsInOrder
- `ImplementsService`: Spec => ImplementsDumps

A datagram of an old request may come first, and within the answer nothing is out of order;
`Ordered` says that datagrams of one request arrive in the order of its dump and after what
has been collected, so that taking one whole keeps the answer sorted. `Whole` is what the
refinement needs: as long as nothing has gone wrong with the open request, each message of
its dump so far sent is collected or still in the socket, readable. When `recv_loop` then
sees the end of the dump, the answer is complete. A failure needs a message that cannot be
read, which is then gone from the socket and was in no other datagram. Each action of the
socket is shown to be a step of `Dumps` or a stutter under the mapping.

`RegistrationManager_proofs` proves, for all sets of items and identifiers:

- `ListedAlwaysHeld`: Spec => []ListedAreHeld
- `HeldAlwaysListed`: Spec => []HeldAreListed

The first is inductive with the types. The second is not: an identifier that two
Registrations hold is removed by the first of them that is dropped. `Alone` says that an
item outside `shared` has its identifier to itself and is in the map under it, and
`RefusedIsExcused` that a refused call will remove no such item.

`Hello_proofs` goes from the checksum to the whole exchange. About the folding,
for every sum two words can hold:

- `ChecksumIsOnesComplement`: the result is one word, the sum's complement modulo 65535,
  and all ones only for a sum of zero, which is what RFC 1071 asks for.
- `OneFoldDecides`: the parser's checksum is the builder's exactly if one fold leaves one word.

The argument is the same for a word of any size: a fold replaces `m*q + r` by `q + r`, which
differ by a multiple of `m - 1` (`FoldKeeps`); two words fold to at most twice the
largest word (`FoldOfTwoWords`), and the next fold carries at most one (`SecondFold`).

About the codec, for every Hello, with any fields and up to `MaxNeighbors` neighbours:

- `HelloReadAsBuilt`: `ParseHello` returns what `BuildHello` built, whatever bytes
  follow it in the buffer, unless the parser's one fold leaves a carry. Then it
  returns `InvalidChecksum`. The finding of `ospf_checksum` is that this happens; the
  theorem says that nothing else goes wrong.

`HeaderAsBytes`, `BodyAsBytes` and `FlattenFacts` say where each field lies. `SameSum` says why
the parser sums what the builder summed, although the checksum was not there yet for the builder and
the parser leaves out the authentication as well: that is zero. `WordSumFacts`
bounds the sum of a packet, so that the two theorems about the folding apply. `WordSum` and
`FlattenSeq` are recursive functions; where such a function gets to is shown with `FiniteInduction`.

About packets that are not as they were built, for any set of Hellos the builder's types allow
and any bound on the faults:

- `CodecTypeCorrect`: CodecSpec => []CodecTypeOK
- `AcceptedIsMeant`: CodecSpec => []AcceptedAsMeant
- `SentIsAccepted`: CodecSpec => []AcceptedUnlessCarries
- `ReadIsReserialised`: CodecSpec => []Reserialises

`CodecAssumption` says what the builder's types and `build` allow: addresses of four bytes,
16-bit and 8-bit numbers, masks made by `Ipv4Netmask::new`, up to `MaxNeighbors` neighbours;
and that a changed byte is off by 1 to 255 (`Changes`). The inductive invariant
`CodecInvariant` says of a packet on its way what is left of the one that was sent: it
starts with it, is a part of it, or differs in one byte (`Arrived`); and of the packet that
was sent, where its fields lie and that its checksum is the sum of its words, or 0 (`Core`,
`Laid`). `HeaderParsed` and `HelloParsed` turn the parsers' nested early returns into one
condition on the bytes, `Acceptable`, whoever made them. From there:

- A padded packet still has every field where it was (`UntouchedHeader`). It is accepted,
  unless its sum carries twice (`UntouchedAccepted`), and read as it was meant
  (`UntouchedMeant`).
- A part of a packet is shorter than the length it carries, or than a header (`CutRefused`).
- A change of one byte that is summed, to any other value, changes the sum by less than
  65535, so its complement is another one (`OneByteShows`, `FinalResultsDiffer`), whatever
  the byte means to the parser. What is left are changes of the checksum itself, of the
  length, which decides what is summed, and of the authentication (`ChangedMeant`), and
  there the fields and the neighbours are as they were (`FieldsKept`).
- A header is written to the bytes it was read from but for the authentication
  (`HeaderBack`), which is read again as it was (`AuthenticationBack`, `HeaderReread`); the
  neighbours of a Hello fill what is left of it in fours (`NeighboursBack`, `HelloBack`).
  The latter holds of any bytes the parser accepts, and needs no sender.

About the exchange, for any listing of interfaces, devices, addresses, capacity and number
of packets:

- `TypeCorrect`: Spec => []TypeOK
- `AnswersNeverStorm`: Spec => []NoStorm
- `OnlyOwnDevice`: Spec => []OwnDeviceOnly
- `AnswerIsUnderstood`: Spec => []AnswerUnderstood

`ExchangeAssumption` says that an address is four bytes, that the devices listed are devices
of the host or none, and that the channel has room for at least one packet. A Hello of the
program is answered by nobody in it because `ParseIp` finds `LocalAddress` in its source,
for every address (`OwnHelloFacts`, `OwnIsNotForeign`). It is understood because its sum,
evaluated word by word with the address left open, never leaves a carry when folded once
(`AnswerWords`, `AnswerDoesNotCarry`). `NoStorm` compares two counters, and says nothing of
the packets under way. Its strengthening `Queues` does: each packet of another host waits
once, in the socket or in the channel, and only while its fate is open (`Holds`, `Apart`).
So every answer settles a packet not counted before, and a packet that waits under the
program's own number is the program's own Hello, which is not answered. `OwnDeviceOnly`
needs `Connected`: what the socket hears follows from how far connecting has got, and after
bind it hears the one device found under the name. `Polled` adds that tasks read only once
the socket is connected. `wire` holds nothing or that Hello.

`SequenceFacts` holds what these proofs need and the library does not state in a usable
form: what Append, Tail, concatenation, RemoveAt and cutting in two do to the elements and their
order, what SetToSeq gives for a finite set, and `FiniteInduction`, induction up to a
number written with a set in place of an operator.

Every inductive invariant was checked by TLC on the instance of the corresponding run before it was
proved. The type invariants restate more than types (a bound on a channel, who
holds which lock), and each is proved from the inductive invariant.

Model-checked only:

- The recursive removal itself: no recursive operator can be reasoned about with the provers
  at hand. That `Evict` is its effect is what `RecursionIsEviction` checks.
- That a packet is summed in groups of eight bytes as they lie in memory: `WordSum` abstracts
  from it (see Checksum above).
- All liveness: the provers have no fairness and no ENABLED.

## Not modelled

`PROJECT.json` gives the reason for each component. Besides:

- Printing and sorting in `main.rs`, the check of capabilities, error types, accessors and
  trait declarations. The sort of the links for printing is listed as a hazard.
- Routes and virtual instances in `config.rs`: nothing reads them.
- The accumulator of `InternetChecksum` (`add`, `subtract`, `calculate`): only its tests use
  it.
- `Ipv4Flags::is_set`, which compares with all bits set and so is never true, and
  `IpVersion::custom`: nothing calls them.
- Time: hold periods, ticks and timeouts are steps that may happen, not durations.
- Reuse of descriptor numbers and of device indexes.
- An error that `recv` returns for ever: a hazard without a property, since the code makes
  no promise about it. That an error of `epoll_wait`, an interrupted call too, ends the
  poller thread is modelled, and is an exception of the liveness properties.
- Renaming of a device while a socket is opened for it.

## Plan

The models, in the order they were written: `StatusTable`, `InterfaceManager`, `Poller`,
`NetlinkSocket`, `StatusFeed`, `RegistrationManager`, the codecs, `HelloExchange`. Every
safety property of theirs is proved except `RecursionIsEviction`. To come: index reuse in
the kernel part of `InterfaceManager`.
