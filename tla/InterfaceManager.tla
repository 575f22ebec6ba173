-------------------------- MODULE InterfaceManager --------------------------
(***************************************************************************)
(* The InterfaceManager (interface/mod.rs): the router's picture of the    *)
(* kernel's links and addresses.  Two writers share the database:          *)
(*                                                                         *)
(*   - the listener applies every multicast message of the kernel, in      *)
(*     order, each under the database lock;                                *)
(*   - the poller dumps the links, then the addresses, builds a snapshot   *)
(*     from the two answers and only then takes the lock and applies it.   *)
(*                                                                         *)
(* Messages can be lost, dumps fail or come back short, and the snapshot   *)
(* is old by the time it is applied; an item set within the hold period is *)
(* not overwritten by a snapshot that has the same identity, index         *)
(* included, but is by one that has another.                               *)
(*                                                                         *)
(* The database is two sets of items here: StatusTable implements them.    *)
(* What the listener and the poller have still to tell the subscribers is  *)
(* in their news, in order.                                                *)
(***************************************************************************)
EXTENDS StatusItems, Naturals, FiniteSets, SequencesExt

CONSTANTS
  Devices,        \* Linux device names
  Addresses,      \* addresses a device can have
  Boot,           \* the devices present at first, in the order of their index
  Links,          \* names of the configured links
  DeviceOf,       \* configured link -> its device
  Interfaces,     \* names of the configured interfaces
  LinkOf,         \* configured interface -> the link it names
  MaxChanges,     \* bound on the changes the kernel makes
  MaxFaults       \* bound on lost messages, failed polls and short dumps

\* Configurations in which a device or a link is used twice are out of scope,
\* as the TODO in the comment of InterfaceManager leaves them unvalidated.  An
\* interface may name a link that is not configured.
ASSUME ConfigurationAssumption ==
  /\ \A S \in {Devices, Addresses, Links, Interfaces} : IsFiniteSet(S)
  /\ MaxChanges \in Nat /\ MaxFaults \in Nat
  /\ DeviceOf \in [Links -> Devices]
  /\ \A m, n \in Links : DeviceOf[m] = DeviceOf[n] => m = n
  /\ DOMAIN LinkOf = Interfaces
  /\ \A i, j \in Interfaces : LinkOf[i] = LinkOf[j] => i = j
  /\ None \notin Devices \cup Links \cup Interfaces \cup {LinkOf[i] : i \in Interfaces}
  /\ None \notin Nat
  /\ Boot \in Seq(Devices)
  /\ \A p, q \in DOMAIN Boot : Boot[p] = Boot[q] => p = q

VARIABLES
  kernel,         \* device that is present -> [index, state, addrs]
  fresh,          \* the next device index the kernel gives out
  queue,          \* multicast messages on their way to the listener
  changes,        \* changes the kernel may still make
  faults,         \* faults that may still happen
  links,          \* the link items of the database
  interfaces,     \* the interface items of the database
  listener,       \* what message_received has still to do under the lock
  poll,           \* where try_poll is, and the dumps it works from
  polled          \* some poll has been applied

environment == <<kernel, fresh, queue, changes, faults>>
vars == <<kernel, fresh, queue, changes, faults,
          links, interfaces, listener, poll, polled>>

-----------------------------------------------------------------------------
(* Status items. *)

Id(index, name, device) == [id |-> index, name |-> name, device |-> device]

LinkStatus(name, device, state) ==
  [name |-> name, device |-> device, state |-> state]

InterfaceStatus(name, addrs, link) ==
  [name |-> name, addrs |-> addrs, link |-> link]

\* NetworkStatusItem::new; held until its hold period is over.
NewItem(id, status) == [id |-> id, status |-> status, held |-> TRUE]

\* Vec<IpAddress>, kept sorted: how often each address occurs.
NoAddresses == [a \in Addresses |-> 0]

\* NetlinkMessageProcessor: the configured name of a device.
LinkName(d) ==
  IF \E n \in Links : DeviceOf[n] = d THEN CHOOSE n \in Links : DeviceOf[n] = d ELSE None

\* The configured interface on a device.
InterfaceName(d) ==
  IF \E i \in Interfaces : LinkOf[i] \in Links /\ DeviceOf[LinkOf[i]] = d
  THEN CHOOSE i \in Interfaces : LinkOf[i] \in Links /\ DeviceOf[LinkOf[i]] = d
  ELSE None

\* The item of a link the kernel reports, in a dump or a NewLink message.
SeenLink(m) ==
  NewItem(Id(m.index, LinkName(m.device), m.device),
          LinkStatus(LinkName(m.device), m.device, m.state))

\* The item of a configured link the kernel does not have.
MissingLink(n) ==
  NewItem(Id(None, n, DeviceOf[n]), LinkStatus(n, DeviceOf[n], "NotFound"))

-----------------------------------------------------------------------------
(* The kernel (external). *)

Present == DOMAIN kernel

\* A multicast message reaches the listener's queue, or is lost.
Announce(m) ==
  \/ queue' = Append(queue, m) /\ UNCHANGED faults
  \/ faults > 0 /\ faults' = faults - 1 /\ UNCHANGED queue

KernelChange ==
  /\ changes > 0
  /\ changes' = changes - 1
  /\ UNCHANGED <<links, interfaces, listener, poll, polled>>

LinkMessage(type, d, k) ==
  [type |-> type, index |-> k.index, device |-> d, state |-> k.state]

AddressMessage(type, k, a) == [type |-> type, index |-> k.index, addr |-> a]

CreateDevice(d) ==
  /\ KernelChange
  /\ d \notin Present
  /\ LET k == [index |-> fresh, state |-> "Down", addrs |-> {}]
     IN  /\ kernel' = [e \in Present \cup {d} |-> IF e = d THEN k ELSE kernel[e]]
         /\ Announce(LinkMessage("NewLink", d, k))
  /\ fresh' = fresh + 1

ChangeState(d) ==
  /\ KernelChange
  /\ d \in Present
  /\ LET k == [kernel[d] EXCEPT !.state = IF @ = "Up" THEN "Down" ELSE "Up"]
     IN  kernel' = [kernel EXCEPT ![d] = k] /\ Announce(LinkMessage("NewLink", d, k))
  /\ UNCHANGED fresh

\* The kernel takes a device's addresses away, one by one, before the device.
DeleteDevice(d) ==
  /\ KernelChange
  /\ d \in Present
  /\ kernel[d].addrs = {}
  /\ kernel' = Restrict(kernel, Present \ {d})
  /\ Announce(LinkMessage("DelLink", d, kernel[d]))
  /\ UNCHANGED fresh

\* A device keeps its index, its state and its addresses under a new name.
RenameDevice(d, e) ==
  /\ KernelChange
  /\ d \in Present /\ e \notin Present
  /\ kernel' = [c \in (Present \ {d}) \cup {e} |-> IF c = e THEN kernel[d] ELSE kernel[c]]
  /\ Announce(LinkMessage("NewLink", e, kernel[d]))
  /\ UNCHANGED fresh

AddAddress(d, a) ==
  /\ KernelChange
  /\ d \in Present
  /\ a \notin kernel[d].addrs
  /\ kernel' = [kernel EXCEPT ![d].addrs = @ \cup {a}]
  /\ Announce(AddressMessage("NewAddress", kernel[d], a))
  /\ UNCHANGED fresh

RemoveAddress(d, a) ==
  /\ KernelChange
  /\ d \in Present
  /\ a \in kernel[d].addrs
  /\ kernel' = [kernel EXCEPT ![d].addrs = @ \ {a}]
  /\ Announce(AddressMessage("DelAddress", kernel[d], a))
  /\ UNCHANGED fresh

Kernel ==
  \E d \in Devices :
    \/ CreateDevice(d) \/ ChangeState(d) \/ DeleteDevice(d)
    \/ \E e \in Devices : RenameDevice(d, e)
    \/ \E a \in Addresses : AddAddress(d, a) \/ RemoveAddress(d, a)

-----------------------------------------------------------------------------
(* The listener: InterfaceManagerNetlinkSocketListener::message_received.  *)

Idle == [pc |-> "idle"]

\* Nobody holds the database lock.  The poller takes and releases it in one step.
LockFree == listener = Idle

LinkNews(status)      == [about |-> "link", status |-> status]
InterfaceNews(status) == [about |-> "interface", status |-> status]

Receive(type) ==
  /\ LockFree
  /\ queue # <<>> /\ Head(queue).type = type
  /\ queue' = Tail(queue)
  /\ UNCHANGED <<kernel, fresh, changes, faults, poll, polled>>

\* get_interface_status_item_by_device_index: at most one.
InterfaceAt(index) == {y \in interfaces : y.id.id = index}

\* The interface with the message's index, if it is on the message's device,
\* under a new identity and with a new link status.
Relinked(m, index, link) ==
  {NewItem(Id(index, y.status.name, m.device),
           InterfaceStatus(y.status.name, y.status.addrs, link)) :
     y \in {y \in InterfaceAt(m.index) : y.status.link.device = m.device}}

\* The link is stored; the lock is kept over the notifications that follow.
NewLink ==
  LET m == Head(queue)
      x == SeenLink(m)
  IN  /\ Receive("NewLink")
      /\ links' = PutItem(links, x)
      /\ listener' = [pc |-> "tellLink", news |-> <<LinkNews(x.status)>>,
                      updated |-> Relinked(m, m.index, x.status)]
      /\ UNCHANGED interfaces

\* The subscribers are told of the link, and the interface is stored.
TellLink ==
  /\ listener.pc = "tellLink"
  /\ \/ /\ listener.updated = {}
        /\ listener' = Idle
        /\ UNCHANGED interfaces
     \/ \E y \in listener.updated :
          /\ interfaces' = PutItem(interfaces, y)
          /\ listener' = [pc |-> "tellInterface", news |-> <<InterfaceNews(y.status)>>]
  /\ UNCHANGED <<environment, links, poll, polled>>

TellInterface ==
  /\ listener.pc = "tellInterface"
  /\ listener' = Idle
  /\ UNCHANGED <<environment, links, interfaces, poll, polled>>

\* The interface of a deleted link stays if it is configured, with its
\* addresses and without its index.
DelLinkInterface(m, x) ==
  LET updated == Relinked(m, None, x.status) IN
  interfaces' = IF updated = {} THEN interfaces
                ELSE LET y == CHOOSE y \in updated : TRUE
                     IN  IF y.id.name # None THEN PutItem(interfaces, y)
                                             ELSE DropItems(interfaces, y.id)

\* A configured link stays, as not found.  Nobody is notified.
DelLink ==
  LET m == Head(queue)
      n == LinkName(m.device)
      x == IF n # None THEN MissingLink(n)
           ELSE NewItem(Id(None, None, m.device), LinkStatus(None, m.device, m.state))
  IN  /\ Receive("DelLink")
      /\ links' = IF n # None THEN PutItem(links, x) ELSE DropItems(links, x.id)
      /\ DelLinkInterface(m, x)
      /\ UNCHANGED listener

\* How often the interface with the message's index has its address changes; an
\* interface the database does not know is left to the next poll.  Nobody is
\* notified.
Readdress(m, change) ==
  /\ interfaces' =
       IF InterfaceAt(m.index) = {} THEN interfaces
       ELSE LET y == CHOOSE y \in InterfaceAt(m.index) : TRUE
            IN  PutItem(interfaces,
                        NewItem(y.id, [y.status EXCEPT !.addrs[m.addr] = change[@]]))
  /\ UNCHANGED <<links, listener>>

\* The address is added even if the interface has it already.
NewAddress ==
  /\ Receive("NewAddress")
  /\ Readdress(Head(queue), [n \in Nat |-> n + 1])

DelAddressUnchecked ==
  /\ Receive("DelAddress")
  /\ Readdress(Head(queue), [n \in Nat |-> n - 1])

\* One occurrence of the address is removed, if there is one.
DelAddress ==
  /\ Receive("DelAddress")
  /\ Readdress(Head(queue), [n \in Nat |-> IF n > 0 THEN n - 1 ELSE 0])

Listener == NewLink \/ TellLink \/ TellInterface \/ DelLink \/ NewAddress \/ DelAddress

-----------------------------------------------------------------------------
(* The poller: InterfaceManagerWorker::try_poll. *)

PollIdle == [pc |-> "idle"]

\* All of a dump, or what arrived before its 100 ms timeout.
Answer(full, dump) ==
  \/ dump = full /\ UNCHANGED faults
  \/ faults > 0 /\ dump # full /\ faults' = faults - 1

DumpLinks ==
  LET full == {[index |-> kernel[d].index, device |-> d, state |-> kernel[d].state] :
                 d \in Present}
  IN  /\ poll = PollIdle
      /\ \E dump \in SUBSET full :
           /\ Answer(full, dump)
           /\ poll' = [pc |-> "addresses", links |-> dump]
      /\ UNCHANGED <<kernel, fresh, queue, changes, links, interfaces, listener, polled>>

\* From here on the snapshot has its time stamp.
DumpAddresses ==
  LET full == UNION {{[index |-> kernel[d].index, addr |-> a] : a \in kernel[d].addrs} :
                       d \in Present}
  IN  /\ poll.pc = "addresses"
      /\ \E dump \in SUBSET full :
           /\ Answer(full, dump)
           /\ poll' = [pc |-> "apply", links |-> poll.links, addrs |-> dump]
      /\ UNCHANGED <<kernel, fresh, queue, changes, links, interfaces, listener, polled>>

\* The second dump fails: the poll is given up.
PollFails ==
  /\ poll.pc = "addresses"
  /\ faults > 0 /\ faults' = faults - 1
  /\ poll' = PollIdle
  /\ UNCHANGED <<kernel, fresh, queue, changes, links, interfaces, listener, polled>>

SnapshotShownOnly(dump)   == {SeenLink(m) : m \in dump}
SnapshotAllMissing(dump)  == {SeenLink(m) : m \in dump} \cup {MissingLink(n) : n \in Links}

\* The links the dump shows, and the configured links it does not show.
SnapshotLinks(dump) ==
  {SeenLink(m) : m \in dump} \cup
  {MissingLink(n) : n \in {n \in Links : \A m \in dump : m.device # DeviceOf[n]}}

AddressesAt(addrs, index) ==
  [a \in Addresses |-> IF [index |-> index, addr |-> a] \in addrs THEN 1 ELSE 0]

\* The configured interfaces, whether their link is in the dump or not, and
\* the links without an interface that have addresses.
SnapshotInterfaces(dump, addrs) ==
  {NewItem(Id(m.index, InterfaceName(m.device), m.device),
           InterfaceStatus(InterfaceName(m.device), AddressesAt(addrs, m.index),
                           SeenLink(m).status)) :
     m \in {m \in dump : \/ InterfaceName(m.device) # None
                         \/ AddressesAt(addrs, m.index) # NoAddresses}}
  \cup
  {NewItem(Id(None, i, DeviceOf[LinkOf[i]]),
           InterfaceStatus(i, NoAddresses, MissingLink(LinkOf[i]).status)) :
     i \in {i \in Interfaces : /\ LinkOf[i] \in Links
                               /\ \A m \in dump : m.device # DeviceOf[LinkOf[i]]}}
  \cup
  {NewItem(Id(None, i, None),
           InterfaceStatus(i, NoAddresses, LinkStatus(LinkOf[i], None, "Misconfigured"))) :
     i \in {i \in Interfaces : LinkOf[i] \notin Links}}

KeptAlways(old, x)       == {y \in old : y.id = x.id}
KeptIgnoringHold(old, x) == {y \in old : y.id = x.id /\ y.status = x.status}

\* The item of the database that x does not replace: it has the same identity,
\* and its hold period is not over or it says the same.
Kept(old, x) == {y \in old : y.id = x.id /\ (y.held \/ y.status = x.status)}

Applied(old, snapshot) ==
  UNION {IF Kept(old, x) = {} THEN {x} ELSE Kept(old, x) : x \in snapshot}

BroughtNewOnly(old, snapshot) == {x \in snapshot : \A y \in old : y.id # x.id}

\* What a snapshot changes: the items it brings, and those it knows nothing of.
Brought(old, snapshot) == {x \in snapshot : Kept(old, x) = {}}
Gone(old, snapshot)    == {y \in old : \A x \in snapshot : ~SharesKey(x.id, y.id)}

NewsOf(oldLinks, newLinks, oldInterfaces, newInterfaces) ==
  SetToSeq({LinkNews(y.status) : y \in Gone(oldLinks, newLinks)}) \o
  SetToSeq({LinkNews(x.status) : x \in Brought(oldLinks, newLinks)}) \o
  SetToSeq({InterfaceNews([y.status EXCEPT !.link.state = "NotFound"]) :
              y \in Gone(oldInterfaces, newInterfaces)}) \o
  SetToSeq({InterfaceNews(x.status) : x \in Brought(oldInterfaces, newInterfaces)})

\* Identities of one snapshot are never in conflict, so the order in which the
\* code goes through its hash map makes no difference to the result.
ApplyPoll ==
  LET newLinks      == SnapshotLinks(poll.links)
      newInterfaces == SnapshotInterfaces(poll.links, poll.addrs)
  IN  /\ poll.pc = "apply"
      /\ LockFree
      /\ links' = Applied(links, newLinks)
      /\ interfaces' = Applied(interfaces, newInterfaces)
      /\ poll' = [pc |-> "notify",
                  news |-> NewsOf(links, newLinks, interfaces, newInterfaces)]
      /\ polled' = TRUE
      /\ UNCHANGED <<environment, listener>>

\* The database lock is free again while the subscribers are told.
NotifyPoll ==
  /\ poll.pc = "notify"
  /\ poll' = PollIdle
  /\ UNCHANGED <<environment, links, interfaces, listener, polled>>

Poller == DumpLinks \/ DumpAddresses \/ PollFails \/ ApplyPoll \/ NotifyPoll

-----------------------------------------------------------------------------
\* ENTROPY_HOLD_PERIOD_SECONDS pass since x was set.  They are compared with
\* the time stamp of the snapshot, which does not move while it waits to be
\* applied.
Expire(items) ==
  UNION {{(items \ {x}) \cup {[x EXCEPT !.held = FALSE]}} : x \in {x \in items : x.held}}

HoldExpires ==
  /\ poll.pc # "apply"
  /\ \/ links' \in Expire(links) /\ UNCHANGED interfaces
     \/ interfaces' \in Expire(interfaces) /\ UNCHANGED links
  /\ UNCHANGED <<environment, listener, poll, polled>>

Init ==
  /\ kernel = [d \in Range(Boot) |->
                 [index |-> CHOOSE p \in DOMAIN Boot : Boot[p] = d,
                  state |-> "Down", addrs |-> {}]]
  /\ fresh = Len(Boot) + 1
  /\ queue = <<>>
  /\ changes = MaxChanges
  /\ faults = MaxFaults
  /\ links = {} /\ interfaces = {}
  /\ listener = Idle
  /\ poll = PollIdle
  /\ polled = FALSE

Next == Kernel \/ Listener \/ Poller \/ HoldExpires

\* The listener's and the poller's tasks run; the poller comes round every ten
\* seconds, and a hold period is five, so that again and again there is time
\* for a hold period to end between two polls.  Nothing is assumed of the kernel.
Fairness ==
  /\ WF_vars(Listener)
  /\ WF_vars(DumpLinks \/ DumpAddresses \/ ApplyPoll \/ NotifyPoll)
  /\ SF_vars(HoldExpires)

Spec == Init /\ [][Next]_vars /\ Fairness

-----------------------------------------------------------------------------
(* What must hold. *)

States == {"Up", "Down", "NotFound", "Misconfigured"}

LinkItem ==
  [id : [id : Nat \cup {None}, name : Links \cup {None}, device : Devices],
   status : [name : Links \cup {None}, device : Devices, state : States],
   held : BOOLEAN]

InterfaceItem ==
  [id : [id : Nat \cup {None}, name : Interfaces \cup {None},
         device : Devices \cup {None}],
   status : [name : Interfaces \cup {None}, addrs : [Addresses -> Nat],
             link : [name : Links \cup {LinkOf[i] : i \in Interfaces} \cup {None},
                     device : Devices \cup {None}, state : States]],
   held : BOOLEAN]

TypeOK ==
  /\ Present \subseteq Devices
  /\ \A d \in Present :
       kernel[d] \in [index : 1 .. fresh - 1, state : {"Up", "Down"},
                      addrs : SUBSET Addresses]
  /\ changes \in 0 .. MaxChanges /\ faults \in 0 .. MaxFaults
  /\ Len(queue) \in 0 .. MaxChanges
  /\ links \subseteq LinkItem
  /\ interfaces \subseteq InterfaceItem
  /\ listener.pc \in {"idle", "tellLink", "tellInterface"}
  /\ poll.pc \in {"idle", "addresses", "apply", "notify"}
  /\ polled \in BOOLEAN

\* Whatever a snapshot and the messages it raced with leave in the database,
\* no two links and no two interfaces share a name, a device or an index: the
\* order in which a poll's hash map is gone through cannot matter.
NoConflicts == PairwiseDistinct(links) /\ PairwiseDistinct(interfaces)

LinkListed(n) ==
  \E x \in links : x.id.name = n /\ x.status.name = n /\ x.status.device = DeviceOf[n]

InterfaceListed(i) ==
  \E y \in interfaces :
    /\ y.id.name = i /\ y.status.name = i
    /\ LinkOf[i] \in Links => y.status.link.device = DeviceOf[LinkOf[i]]

\* The listener takes a NewLink in which the device of the link n, by its index,
\* has another name.
HeardRenamed(n) ==
  /\ listener = Idle /\ listener'.pc = "tellLink"
  /\ \E x \in links : /\ x.id.name = n /\ x.id.id = Head(queue).index
                       /\ Head(queue).device # DeviceOf[n]

\* A configured link is listed after every poll; until the next one only the news
\* that its device has been renamed takes it away: the item of the new name takes
\* over its index.
LinksStayListed ==
  \A n \in Links :
    /\ poll.pc = "apply" /\ poll'.pc = "notify" => LinkListed(n)'
    /\ LinkListed(n) => LinkListed(n)' \/ HeardRenamed(n)

\* Once a poll has been applied, every configured interface is listed, on its own
\* device, at every moment: a message or a snapshot replaces its item but never
\* takes the configured name away.  A configured link is listed too, until its
\* device is renamed.
ConfiguredAlwaysListed ==
  /\ [](polled => \A i \in Interfaces : InterfaceListed(i))
  /\ [][LinksStayListed]_vars

\* A dump of the links has the identity of an item: its device under its index, or,
\* for a configured item without an index, no such device.
Confirmed(dump, id) ==
  IF id.id = None THEN id.name # None /\ \A m \in dump : m.device # id.device
                  ELSE \E m \in dump : m.index = id.id /\ m.device = id.device

\* What a poll that is applied leaves alone of the items set within the hold period:
\* those whose identity the dump confirms, and nothing else.  For an interface
\* without a configured name this needs an address in the dump as well.
HeldKept ==
  poll.pc = "apply" /\ poll'.pc = "notify" =>
    /\ \A x \in links : x.held => (x \in links' <=> Confirmed(poll.links, x.id))
    /\ \A y \in interfaces : y.held =>
         (y \in interfaces' <=>
            /\ Confirmed(poll.links, y.id)
            /\ y.id.name # None \/ \E r \in poll.addrs : r.index = y.id.id)

\* How far debouncing reaches.  An item that is held keeps what the listener has
\* stored of its state and its addresses, however old the snapshot, as long as the
\* snapshot has the same identity: index, name and device.  It is undone by a
\* snapshot that has another: the item DelLink has just stored, without an index, by
\* a dump in which the device was still there; the item of a device made anew or
\* renamed, by one from before; an item with an index by a dump without its device.
HoldRespected == [][HeldKept]_vars

\* What a task has still to tell the subscribers.
Pending(task) == IF "news" \in DOMAIN task THEN Range(task.news) ELSE {}

\* A link with an index comes or changes in the database, or the link of an
\* interface does, only with the new status on its way to the subscribers.
ChangesAnnounced ==
  LET news == Pending(listener') \cup Pending(poll') IN
  /\ \A x \in links' :
       x.id.id # None /\ (\A y \in links : y.status # x.status) =>
         LinkNews(x.status) \in news
  /\ \A x \in interfaces' :
       /\ x.id.id # None
       /\ \A y \in interfaces : y.status.name # x.status.name
                               \/ y.status.link # x.status.link
       => InterfaceNews(x.status) \in news

\* A link the kernel has never comes or changes in the database unnoticed, nor
\* does the link of an interface: from the same step on the new status is among
\* the news.  (What goes away does so silently when the listener hears of it, and
\* so do changes of addresses.)
NewsPending == [][ChangesAnnounced]_vars

\* The database says of every device, configured link and configured interface
\* exactly what the kernel has.
LinksInSync ==
  /\ \A d \in Present : \E x \in links :
       /\ x.id.id = kernel[d].index /\ x.status.device = d
       /\ x.status.state = kernel[d].state
  /\ \A x \in links :
       IF x.status.device \in Present
       THEN x.id.id = kernel[x.status.device].index
       ELSE x.status.name # None /\ x.status.state = "NotFound"

InterfacesInSync ==
  /\ \A d \in Present : kernel[d].addrs # {} => \E y \in interfaces : y.id.device = d
  /\ \A y \in interfaces :
       LET d == y.id.device IN
       IF d \in Present
       THEN /\ y.id.id = kernel[d].index
            /\ y.status.link.state = kernel[d].state
            /\ \A a \in Addresses :
                 y.status.addrs[a] = IF a \in kernel[d].addrs THEN 1 ELSE 0
            /\ y.status.name # None \/ kernel[d].addrs # {}
       ELSE /\ y.status.name # None
            /\ y.status.addrs = NoAddresses
            /\ y.status.link.state
                 = IF d = None THEN "Misconfigured" ELSE "NotFound"

InSync == LinksInSync /\ InterfacesInSync

\* The listener can lose messages, apply them late and add an address twice,
\* and a poll can install an old snapshot; but once the kernel stops changing,
\* the anti-entropy scan makes the database right, and it stays right.
EventuallyInSync == <>[]InSync
=============================================================================
