----------------------- MODULE InterfaceManager_proofs -----------------------
(***************************************************************************)
(* Proofs about the InterfaceManager (InterfaceManager): whatever the      *)
(* listener and the poller do to the database in turn, no two of its items *)
(* are in conflict, no configured name gets lost, a snapshot undoes        *)
(* nothing that is held, and nothing changes unnoticed.  All of it for any *)
(* devices, addresses, configuration and number of changes and faults.     *)
(***************************************************************************)
EXTENDS InterfaceManager, SequenceFacts

-----------------------------------------------------------------------------
(* The inductive invariant. *)

DeviceState == [index : Nat, state : {"Up", "Down"}, addrs : SUBSET Addresses]

\* No index is in use twice, and none that has yet to be given out.
KernelOK ==
  /\ DOMAIN kernel \subseteq Devices /\ kernel \in [DOMAIN kernel -> DeviceState]
  /\ fresh \in Nat \ {0}
  /\ \A d \in DOMAIN kernel : 1 <= kernel[d].index /\ kernel[d].index < fresh
  /\ \A d, e \in DOMAIN kernel : kernel[d].index = kernel[e].index => d = e
  /\ changes \in Nat /\ faults \in Nat /\ faults <= MaxFaults

LinkMulticast ==
  [type : {"NewLink", "DelLink"}, index : Nat, device : Devices, state : {"Up", "Down"}]

AddressMulticast == [type : {"NewAddress", "DelAddress"}, index : Nat, addr : Addresses]

QueueOK ==
  /\ queue \in Seq(LinkMulticast \cup AddressMulticast)
  /\ Len(queue) + changes <= MaxChanges

\* A link item is filed as what it says, and under the configured name of its device.
NamedLink(x) ==
  x.id.name = LinkName(x.id.device) /\ x.status.name = x.id.name /\ x.status.device = x.id.device

\* So is an interface item; one without a device is of a configured interface
\* whose link is not configured.
NamedInterface(y) ==
  /\ y.status.name = y.id.name /\ y.status.link.device = y.id.device
  /\ IF y.id.device = None THEN y.id.name \in Interfaces /\ LinkOf[y.id.name] \notin Links
                           ELSE y.id.name = InterfaceName(y.id.device)

\* The items of the database, of one kind: each under its own names, no two in
\* conflict.
LinksFiled(S) ==
  S \subseteq LinkItem /\ IsFiniteSet(S) /\ PairwiseDistinct(S) /\ \A x \in S : NamedLink(x)

InterfacesFiled(S) ==
  S \subseteq InterfaceItem /\ IsFiniteSet(S) /\ PairwiseDistinct(S) /\ \A y \in S : NamedInterface(y)

\* Every configured interface is filed.
AllFiled(S) == \A i \in Interfaces : \E y \in S : y.id.name = i

DatabaseOK ==
  /\ LinksFiled(links) /\ InterfacesFiled(interfaces)
  /\ polled \in BOOLEAN /\ (polled => AllFiled(interfaces))

\* What the kernel answers to one request: a device once, under one index.
LinkDump(dump) ==
  /\ dump \subseteq [index : Nat, device : Devices, state : {"Up", "Down"}]
  /\ IsFiniteSet(dump)
  /\ \A m, n \in dump : m.index = n.index \/ m.device = n.device => m = n

AddressDump(dump) == dump \subseteq [index : Nat, addr : Addresses]

\* Between storing a link and its interface the listener holds the lock: the item
\* it is about to store is in place of one that is still there.
TasksOK ==
  /\ listener.pc \in {"idle", "tellLink", "tellInterface"}
  /\ listener.pc = "tellLink" =>
       \A y \in listener.updated :
         y \in InterfaceItem /\ NamedInterface(y) /\ \E z \in interfaces : z.id = y.id
  /\ poll.pc \in {"idle", "addresses", "apply", "notify"}
  /\ poll.pc \in {"addresses", "apply"} => LinkDump(poll.links)
  /\ poll.pc = "apply" => AddressDump(poll.addrs)

IInv == KernelOK /\ QueueOK /\ DatabaseOK /\ TasksOK

-----------------------------------------------------------------------------
(* Names and identities. *)

\* The parts of the assumption on the configuration.
LEMMA Configured ==
  /\ IsFiniteSet(Devices) /\ IsFiniteSet(Addresses) /\ IsFiniteSet(Links) /\ IsFiniteSet(Interfaces)
  /\ \A n \in Links : DeviceOf[n] \in Devices /\ n # None
  /\ \A m, n \in Links : DeviceOf[m] = DeviceOf[n] => m = n
  /\ \A i, j \in Interfaces : LinkOf[i] = LinkOf[j] => i = j
  /\ \A d \in Devices : d # None
  /\ \A i \in Interfaces : i # None /\ LinkOf[i] # None
  /\ \A n \in Nat : n # None
BY ConfigurationAssumption

\* Two identities share a key: a name, a device or an index.
LEMMA SharedKeys ==
  ASSUME NEW a, NEW b
  PROVE  SharesKey(a, b) <=> \/ a.name # None /\ a.name = b.name
                             \/ a.device # None /\ a.device = b.device
                             \/ a.id # None /\ a.id = b.id
BY DEF SharesKey, Kind

\* A device has the name of the configured link on it, if there is one.
LEMMA LinkNames ==
  /\ \A d \in Devices : LinkName(d) \in Links \cup {None}
  /\ \A d \in Devices : LinkName(d) # None => LinkName(d) \in Links /\ DeviceOf[LinkName(d)] = d
  /\ \A n \in Links : LinkName(DeviceOf[n]) = n
<1>1. ASSUME NEW d \in Devices, \E n \in Links : DeviceOf[n] = d
      PROVE  LinkName(d) \in Links /\ DeviceOf[LinkName(d)] = d
  BY <1>1 DEF LinkName
<1>2. ASSUME NEW d \in Devices, ~ \E n \in Links : DeviceOf[n] = d
      PROVE  LinkName(d) = None
  BY <1>2 DEF LinkName
<1>3. QED
  BY <1>1, <1>2, Configured

\* And its configured interface is that of the link.
LEMMA InterfaceNames ==
  /\ \A d \in Devices : InterfaceName(d) \in Interfaces \cup {None}
  /\ \A d \in Devices : InterfaceName(d) # None =>
       /\ InterfaceName(d) \in Interfaces /\ LinkOf[InterfaceName(d)] \in Links
       /\ DeviceOf[LinkOf[InterfaceName(d)]] = d
  /\ \A i \in Interfaces : LinkOf[i] \in Links => InterfaceName(DeviceOf[LinkOf[i]]) = i
<1>1. ASSUME NEW d \in Devices, \E i \in Interfaces : LinkOf[i] \in Links /\ DeviceOf[LinkOf[i]] = d
      PROVE  /\ InterfaceName(d) \in Interfaces /\ LinkOf[InterfaceName(d)] \in Links
             /\ DeviceOf[LinkOf[InterfaceName(d)]] = d
  BY <1>1 DEF InterfaceName
<1>2. ASSUME NEW d \in Devices,
             ~ \E i \in Interfaces : LinkOf[i] \in Links /\ DeviceOf[LinkOf[i]] = d
      PROVE  InterfaceName(d) = None
  BY <1>2 DEF InterfaceName
<1>3. QED
  BY <1>1, <1>2, Configured

\* The device a configured interface is on, or None.
LEMMA NamedFacts ==
  ASSUME NEW y \in InterfaceItem, NamedInterface(y)
  PROVE  /\ \A i \in Interfaces : y.id.name = i /\ LinkOf[i] \in Links =>
                                    y.id.device = DeviceOf[LinkOf[i]]
         /\ y.id.device # None => y.id.device \in Devices
         /\ y.id.name # None => y.id.name \in Interfaces
<1>1. y.id.device \in Devices \cup {None} /\ y.id.name \in Interfaces \cup {None}
  BY DEF InterfaceItem
<1>2. ASSUME NEW i \in Interfaces, y.id.name = i, LinkOf[i] \in Links
      PROVE  y.id.device = DeviceOf[LinkOf[i]]
  <2>1. y.id.device # None
    BY <1>2 DEF NamedInterface
  <2>2. y.id.device \in Devices /\ InterfaceName(y.id.device) = i
    BY <1>1, <1>2, <2>1 DEF NamedInterface
  <2>3. i # None
    BY Configured
  <2>4. QED
    BY <2>2, <2>3, InterfaceNames
<1>3. QED
  BY <1>1, <1>2

-----------------------------------------------------------------------------
(* Sets of items. *)

\* Putting an item keeps those it is not in conflict with, and the set distinct.
LEMMA PutFacts ==
  ASSUME NEW S, NEW x
  PROVE  /\ x \in PutItem(S, x) /\ PutItem(S, x) \subseteq S \cup {x}
         /\ \A y \in S : SharesKey(x.id, y.id) \/ y \in PutItem(S, x)
         /\ DropItems(S, x.id) \subseteq S
         /\ \A y \in S : SharesKey(x.id, y.id) \/ y \in DropItems(S, x.id)
         /\ PairwiseDistinct(S) => PairwiseDistinct(PutItem(S, x)) /\ PairwiseDistinct(DropItems(S, x.id))
         /\ IsFiniteSet(S) => IsFiniteSet(PutItem(S, x)) /\ IsFiniteSet(DropItems(S, x.id))
<1>1. DropItems(S, x.id) = {y \in S : ~SharesKey(x.id, y.id)}
  BY DEF DropItems, Overlapping
<1>2. PutItem(S, x) = DropItems(S, x.id) \cup {x}
  BY DEF PutItem
<1>3. \A a, b : SharesKey(a, b) => SharesKey(b, a)
  BY DEF SharesKey
<1>4. PairwiseDistinct(S) => PairwiseDistinct(PutItem(S, x)) /\ PairwiseDistinct(DropItems(S, x.id))
  BY <1>1, <1>2, <1>3 DEF PairwiseDistinct
<1>5. ASSUME IsFiniteSet(S)
      PROVE  IsFiniteSet(PutItem(S, x)) /\ IsFiniteSet(DropItems(S, x.id))
  <2>1. DropItems(S, x.id) \subseteq S
    BY <1>1
  <2>2. IsFiniteSet(DropItems(S, x.id))
    BY <1>5, <2>1, FS_Subset
  <2>3. IsFiniteSet(DropItems(S, x.id) \cup {x})
    BY <2>2, FS_AddElement
  <2>4. QED
    BY <1>2, <2>2, <2>3
<1>6. QED
  BY <1>1, <1>2, <1>4, <1>5

\* When a hold period ends, the items stay what they are.
LEMMA ExpireFacts ==
  ASSUME NEW S, \A x \in S : x = [id |-> x.id, status |-> x.status, held |-> x.held],
         NEW T \in Expire(S)
  PROVE  /\ \A y \in T : \E x \in S : y.id = x.id /\ y.status = x.status
         /\ \A y \in T : y \in S \/ \E x \in S : y = [x EXCEPT !.held = FALSE]
         /\ \A x \in S : \E y \in T : y.id = x.id /\ y.status = x.status
         /\ PairwiseDistinct(S) => PairwiseDistinct(T)
         /\ IsFiniteSet(S) => IsFiniteSet(T)
<1>1. PICK x \in S : x.held /\ T = (S \ {x}) \cup {[x EXCEPT !.held = FALSE]}
  BY DEF Expire
<1> DEFINE e == [x EXCEPT !.held = FALSE]
<1>2. e.id = x.id /\ e.status = x.status
  OBVIOUS
<1> HIDE DEF e
<1>3. T = (S \ {x}) \cup {e}
  BY <1>1 DEF e
<1>4. PairwiseDistinct(S) => PairwiseDistinct(T)
  BY <1>2, <1>3 DEF PairwiseDistinct, SharesKey
<1>5. ASSUME IsFiniteSet(S) PROVE IsFiniteSet(T)
  <2>1. IsFiniteSet(S \ {x})
    BY <1>5, FS_Subset
  <2>2. QED
    BY <1>3, <2>1, FS_AddElement
<1>6. \A y \in T : y \in S \/ \E z \in S : y = [z EXCEPT !.held = FALSE]
  BY <1>3 DEF e
<1>7. QED
  BY <1>2, <1>3, <1>4, <1>5, <1>6

\* A snapshot, applied: the items it does not replace and those it brings.
LEMMA AppliedFacts ==
  ASSUME NEW old, NEW snapshot, PairwiseDistinct(old), PairwiseDistinct(snapshot),
         \A x \in snapshot : SharesKey(x.id, x.id), IsFiniteSet(old), IsFiniteSet(snapshot)
  PROVE  /\ \A z \in Applied(old, snapshot) :
              z \in old \/ (z \in snapshot /\ z \in Brought(old, snapshot))
         /\ \A z \in Applied(old, snapshot) : \E x \in snapshot : z.id = x.id
         /\ \A x \in snapshot : \E z \in Applied(old, snapshot) : z.id = x.id
         /\ PairwiseDistinct(Applied(old, snapshot))
         /\ IsFiniteSet(Applied(old, snapshot))
<1> DEFINE A == Applied(old, snapshot)
<1>1. ASSUME NEW z
      PROVE  z \in A <=> \E x \in snapshot : \/ z \in Kept(old, x)
                                             \/ z = x /\ Kept(old, x) = {}
  BY DEF Applied
<1> HIDE DEF A
<1>2. \A x, z : z \in Kept(old, x) <=> z \in old /\ z.id = x.id /\ (z.held \/ z.status = x.status)
  BY DEF Kept
<1>3. \A x : x \in Brought(old, snapshot) <=> x \in snapshot /\ Kept(old, x) = {}
  BY DEF Brought
<1>4. \A z \in A : z \in old \/ (z \in snapshot /\ z \in Brought(old, snapshot))
  BY <1>1, <1>2, <1>3
<1>5. \A z \in A : \E x \in snapshot : z.id = x.id
  BY <1>1, <1>2
<1>6. \A x \in snapshot : \E z \in A : z.id = x.id
  BY <1>1, <1>2
<1>7. ASSUME NEW y \in A, NEW z \in A, SharesKey(y.id, z.id) PROVE y = z
  <2>1. PICK v \in snapshot : y \in Kept(old, v) \/ (y = v /\ Kept(old, v) = {})
    BY <1>1
  <2>2. PICK w \in snapshot : z \in Kept(old, w) \/ (z = w /\ Kept(old, w) = {})
    BY <1>1
  <2>3. y.id = v.id /\ z.id = w.id
    BY <1>2, <2>1, <2>2
  <2>4. v = w
    BY <1>7, <2>3 DEF PairwiseDistinct
  <2>5. CASE y \in Kept(old, v) /\ z \in Kept(old, v)
    BY <1>2, <1>7, <2>5 DEF PairwiseDistinct
  <2>6. QED
    BY <2>1, <2>2, <2>4, <2>5
<1>8. PairwiseDistinct(A)
  BY <1>7 DEF PairwiseDistinct
<1>9. IsFiniteSet(A)
  <2>1. IsFiniteSet(old \cup snapshot)
    BY FS_Union
  <2>2. A \subseteq old \cup snapshot
    BY <1>4
  <2>3. QED
    BY <2>1, <2>2, FS_Subset
<1>10. QED
  BY <1>4, <1>5, <1>6, <1>8, <1>9 DEF A

-----------------------------------------------------------------------------
(* What a poll and a message make of a device. *)

\* The values of a function on a finite set.
LEMMA FiniteImage ==
  ASSUME NEW S, IsFiniteSet(S), NEW f
  PROVE  IsFiniteSet({f[x] : x \in S})
<1> DEFINE T == {f[x] : x \in S}
<1> DEFINE g == [x \in S |-> f[x]]
<1>1. g \in Surjection(S, T)
  BY DEF Surjection
<1> HIDE DEF g, T
<1>2. IsFiniteSet(T)
  BY <1>1, FS_Surjection
<1>3. QED
  BY <1>2 DEF T

\* A device that is seen is filed under its index and its names.
LEMMA SeenFacts ==
  ASSUME NEW m, m.index \in Nat, m.device \in Devices, m.state \in States
  PROVE  /\ SeenLink(m) \in LinkItem /\ NamedLink(SeenLink(m))
         /\ SeenLink(m).id.id = m.index /\ SeenLink(m).id.device = m.device
         /\ SeenLink(m).id.name = LinkName(m.device)
         /\ SeenLink(m).status = LinkStatus(LinkName(m.device), m.device, m.state)
         /\ SeenLink(m).status.device = m.device /\ SeenLink(m).status.name = LinkName(m.device)
<1>1. LinkName(m.device) \in Links \cup {None}
  BY LinkNames
<1> DEFINE i == Id(m.index, LinkName(m.device), m.device)
           s == LinkStatus(LinkName(m.device), m.device, m.state)
<1>2. SeenLink(m) = [id |-> i, status |-> s, held |-> TRUE]
  BY DEF SeenLink, NewItem
<1>3. /\ i.id = m.index /\ i.device = m.device /\ i.name = LinkName(m.device)
      /\ i \in [id : Nat \cup {None}, name : Links \cup {None}, device : Devices]
  BY <1>1 DEF Id
<1>4. /\ s.name = LinkName(m.device) /\ s.device = m.device
      /\ s \in [name : Links \cup {None}, device : Devices, state : States]
  BY <1>1 DEF LinkStatus
<1>5. s = LinkStatus(LinkName(m.device), m.device, m.state)
  OBVIOUS
<1> HIDE DEF i, s
<1>6. /\ SeenLink(m).id = i /\ SeenLink(m).status = s /\ SeenLink(m) \in LinkItem
  BY <1>2, <1>3, <1>4 DEF LinkItem
<1>7. QED
  BY <1>3, <1>4, <1>5, <1>6 DEF NamedLink

\* A configured link that is missing is filed without an index.
LEMMA MissingFacts ==
  ASSUME NEW n \in Links
  PROVE  /\ MissingLink(n) \in LinkItem /\ NamedLink(MissingLink(n))
         /\ MissingLink(n).id.id = None /\ MissingLink(n).id.device = DeviceOf[n]
         /\ MissingLink(n).id.name = n
         /\ MissingLink(n).status = LinkStatus(n, DeviceOf[n], "NotFound")
         /\ MissingLink(n).status.device = DeviceOf[n] /\ MissingLink(n).status.name = n
<1>1. DeviceOf[n] \in Devices /\ LinkName(DeviceOf[n]) = n
  BY LinkNames, Configured
<1> DEFINE i == Id(None, n, DeviceOf[n])
           s == LinkStatus(n, DeviceOf[n], "NotFound")
<1>2. MissingLink(n) = [id |-> i, status |-> s, held |-> TRUE]
  BY DEF MissingLink, NewItem
<1>3. /\ i.id = None /\ i.device = DeviceOf[n] /\ i.name = n
      /\ i \in [id : Nat \cup {None}, name : Links \cup {None}, device : Devices]
  BY <1>1 DEF Id
<1>4. /\ s.name = n /\ s.device = DeviceOf[n]
      /\ s \in [name : Links \cup {None}, device : Devices, state : States]
  BY <1>1 DEF LinkStatus, States
<1>5. s = LinkStatus(n, DeviceOf[n], "NotFound")
  OBVIOUS
<1> HIDE DEF i, s
<1>6. /\ MissingLink(n).id = i /\ MissingLink(n).status = s /\ MissingLink(n) \in LinkItem
  BY <1>2, <1>3, <1>4 DEF LinkItem
<1>7. QED
  BY <1>1, <1>3, <1>4, <1>5, <1>6 DEF NamedLink

\* The members of a dump.
LEMMA DumpFacts ==
  ASSUME NEW dump, LinkDump(dump), NEW m \in dump
  PROVE  /\ m.index \in Nat /\ m.device \in Devices /\ m.state \in States
         /\ \A n \in dump : m.index = n.index \/ m.device = n.device => m = n
BY DEF LinkDump, States

\* The links of a snapshot are those of the dump and the configured ones, each once.
LEMMA SnapshotLinksFacts ==
  ASSUME NEW dump, LinkDump(dump)
  PROVE  LET snapshot == SnapshotLinks(dump)
         IN  /\ snapshot \subseteq LinkItem /\ IsFiniteSet(snapshot)
             /\ \A x \in snapshot : NamedLink(x) /\ SharesKey(x.id, x.id)
             /\ PairwiseDistinct(snapshot)
             /\ \A n \in Links : \E x \in snapshot : x.id.name = n
<1> DEFINE seen == {SeenLink(m) : m \in dump}
           absent == {n \in Links : \A m \in dump : m.device # DeviceOf[n]}
           missing == {MissingLink(n) : n \in absent}
<1>1. SnapshotLinks(dump) = seen \cup missing
  BY DEF SnapshotLinks
<1>2. ASSUME NEW x \in seen
      PROVE  \E m \in dump :
               /\ x = SeenLink(m) /\ x.id.id = m.index /\ x.id.device = m.device
               /\ x.id.name = LinkName(m.device) /\ x \in LinkItem /\ NamedLink(x)
  BY DumpFacts, SeenFacts
<1>3. ASSUME NEW x \in missing
      PROVE  \E n \in absent :
               /\ x = MissingLink(n) /\ x.id.id = None /\ x.id.device = DeviceOf[n]
               /\ x.id.name = n /\ x \in LinkItem /\ NamedLink(x)
  BY MissingFacts
<1>4. IsFiniteSet(seen) /\ IsFiniteSet(missing)
  <2>1. IsFiniteSet(dump) /\ IsFiniteSet(absent)
    BY Configured, FS_Subset DEF LinkDump
  <2> DEFINE f == [m \in dump |-> SeenLink(m)]
             g == [n \in absent |-> MissingLink(n)]
  <2>2. /\ DOMAIN f = dump /\ seen = {f[m] : m \in dump}
        /\ DOMAIN g = absent /\ missing = {g[n] : n \in absent}
    OBVIOUS
  <2> HIDE DEF f, g, absent, seen, missing
  <2>3. QED
    BY <2>1, <2>2, FiniteImage
<1>5. \A m \in dump : SeenLink(m) \in seen
  OBVIOUS
<1>6. \A n \in absent : MissingLink(n) \in missing
  OBVIOUS
<1>7. \A n \in absent : n \in Links /\ \A m \in dump : m.device # DeviceOf[n]
  OBVIOUS
<1>8. \A n \in Links : n \in absent \/ \E m \in dump : m.device = DeviceOf[n]
  OBVIOUS
<1> HIDE DEF absent, seen, missing
<1>9. \A x \in seen \cup missing : x \in LinkItem /\ NamedLink(x) /\ x.id.device \in Devices
  BY <1>2, <1>3 DEF LinkItem
<1>10. \A x \in seen \cup missing : SharesKey(x.id, x.id)
  BY <1>9, Configured, SharedKeys
<1>11. ASSUME NEW n \in Links PROVE \E x \in seen \cup missing : x.id.name = n
  <2>1. CASE n \in absent
    BY <1>6, <2>1, MissingFacts
  <2>2. CASE \E m \in dump : m.device = DeviceOf[n]
    <3>1. PICK m \in dump : m.device = DeviceOf[n]
      BY <2>2
    <3>2. SeenLink(m).id.name = n
      BY <3>1, DumpFacts, SeenFacts, LinkNames
    <3>3. QED
      BY <1>5, <3>2
  <2>3. QED
    BY <1>8, <2>1, <2>2
<1>12. ASSUME NEW x \in seen \cup missing, NEW y \in seen \cup missing, SharesKey(x.id, y.id)
       PROVE  x = y
  <2>1. \/ x.id.name # None /\ x.id.name = y.id.name
        \/ x.id.device # None /\ x.id.device = y.id.device
        \/ x.id.id # None /\ x.id.id = y.id.id
    BY <1>12, SharedKeys
  <2>2. ASSUME NEW v \in seen, NEW w \in missing PROVE ~SharesKey(v.id, w.id) /\ ~SharesKey(w.id, v.id)
    <3>1. PICK m \in dump : v.id.id = m.index /\ v.id.device = m.device
                            /\ v.id.name = LinkName(m.device)
      BY <1>2
    <3>2. PICK n \in absent : w.id.id = None /\ w.id.device = DeviceOf[n] /\ w.id.name = n
      BY <1>3
    <3>3. m.device \in Devices /\ n \in Links /\ m.device # DeviceOf[n]
      BY <1>7, DumpFacts
    <3>4. LinkName(m.device) # n
      BY <3>3, LinkNames, Configured
    <3>5. QED
      BY <3>1, <3>2, <3>3, <3>4, SharedKeys
  <2>3. CASE x \in seen /\ y \in seen
    <3>1. PICK m \in dump : x = SeenLink(m) /\ x.id.id = m.index /\ x.id.device = m.device
                            /\ x.id.name = LinkName(m.device)
      BY <1>2, <2>3
    <3>2. PICK n \in dump : y = SeenLink(n) /\ y.id.id = n.index /\ y.id.device = n.device
                            /\ y.id.name = LinkName(n.device)
      BY <1>2, <2>3
    <3>3. m.device \in Devices /\ n.device \in Devices
      BY DumpFacts
    <3>4. m.device = n.device \/ m.index = n.index
      BY <2>1, <3>1, <3>2, <3>3, LinkNames
    <3>5. m = n
      BY <3>4, DumpFacts
    <3>6. QED
      BY <3>1, <3>2, <3>5
  <2>4. CASE x \in missing /\ y \in missing
    <3>1. PICK m \in absent : x = MissingLink(m) /\ x.id.id = None /\ x.id.device = DeviceOf[m]
                              /\ x.id.name = m
      BY <1>3, <2>4
    <3>2. PICK n \in absent : y = MissingLink(n) /\ y.id.id = None /\ y.id.device = DeviceOf[n]
                              /\ y.id.name = n
      BY <1>3, <2>4
    <3>3. m = n
      BY <1>7, <2>1, <3>1, <3>2, Configured
    <3>4. QED
      BY <3>1, <3>2, <3>3
  <2>5. QED
    BY <1>12, <2>2, <2>3, <2>4
<1>13. IsFiniteSet(seen \cup missing)
  BY <1>4, FS_Union
<1>14. PairwiseDistinct(seen \cup missing)
  BY <1>12 DEF PairwiseDistinct
<1>15. QED
  BY <1>1, <1>9, <1>10, <1>11, <1>13, <1>14

\* What an interface item says of its link.
LinkOfInterface ==
  [name : Links \cup {LinkOf[i] : i \in Interfaces} \cup {None},
   device : Devices \cup {None}, state : States]

\* An interface item with these parts is filed under what it says.
ItemParts(index, name, device, addrs, link) ==
  /\ index \in Nat \cup {None} /\ name \in Interfaces \cup {None}
  /\ device \in Devices \cup {None} /\ addrs \in [Addresses -> Nat]
  /\ link \in LinkOfInterface /\ link.device = device
  /\ device = None => name \in Interfaces /\ LinkOf[name] \notin Links
  /\ device # None => name = InterfaceName(device)

Filing(y, index, name, device, addrs, link) ==
  /\ y \in InterfaceItem /\ NamedInterface(y)
  /\ y.id.id = index /\ y.id.name = name /\ y.id.device = device
  /\ y.status.name = name /\ y.status.addrs = addrs /\ y.status.link = link
  /\ y.id = Id(index, name, device)

\* An interface item is filed under what it says.
LEMMA ItemFacts ==
  ASSUME NEW index, NEW name, NEW device, NEW addrs, NEW link,
         ItemParts(index, name, device, addrs, link)
  PROVE  Filing(NewItem(Id(index, name, device), InterfaceStatus(name, addrs, link)),
                index, name, device, addrs, link)
<1> DEFINE i == Id(index, name, device)
           s == InterfaceStatus(name, addrs, link)
           y == NewItem(i, s)
<1>1. y.id = i /\ y.status = s /\ y = [id |-> i, status |-> s, held |-> TRUE]
  BY DEF NewItem
<1>2. /\ i.id = index /\ i.device = device /\ i.name = name
      /\ i \in [id : Nat \cup {None}, name : Interfaces \cup {None}, device : Devices \cup {None}]
  BY DEF Id, ItemParts
<1>3. /\ s.name = name /\ s.addrs = addrs /\ s.link = link
      /\ s \in [name : Interfaces \cup {None}, addrs : [Addresses -> Nat], link : LinkOfInterface]
  BY DEF InterfaceStatus, ItemParts
<1>4. i = Id(index, name, device)
  OBVIOUS
<1> HIDE DEF i, s, y
<1>5. y \in InterfaceItem
  BY <1>1, <1>2, <1>3 DEF InterfaceItem, LinkOfInterface
<1>6. NamedInterface(y)
  BY <1>1, <1>2, <1>3 DEF NamedInterface, ItemParts
<1>7. Filing(y, index, name, device, addrs, link)
  BY <1>1, <1>2, <1>3, <1>4, <1>5, <1>6 DEF Filing
<1>8. QED
  BY <1>7 DEF y, i, s

\* The status of a link is one an interface item can carry.
LEMMA LinkStatuses ==
  /\ \A x \in LinkItem : x.status \in LinkOfInterface
  /\ \A i \in Interfaces : LinkStatus(LinkOf[i], None, "Misconfigured") \in LinkOfInterface
  /\ \A y \in InterfaceItem : y.status.link \in LinkOfInterface
<1>1. \A x \in LinkItem : x.status \in LinkOfInterface
  BY DEF LinkItem, LinkOfInterface
<1>2. \A i \in Interfaces : LinkStatus(LinkOf[i], None, "Misconfigured") \in LinkOfInterface
  BY DEF LinkStatus, LinkOfInterface, States
<1>3. \A y \in InterfaceItem : y.status.link \in LinkOfInterface
  BY DEF InterfaceItem, LinkOfInterface
<1>4. QED
  BY <1>1, <1>2, <1>3

\* The interfaces of a snapshot, as items.
InterfaceSeen(m, addrs) ==
  NewItem(Id(m.index, InterfaceName(m.device), m.device),
          InterfaceStatus(InterfaceName(m.device), AddressesAt(addrs, m.index), SeenLink(m).status))

InterfaceMissing(i) ==
  NewItem(Id(None, i, DeviceOf[LinkOf[i]]),
          InterfaceStatus(i, NoAddresses, MissingLink(LinkOf[i]).status))

InterfaceAstray(i) ==
  NewItem(Id(None, i, None),
          InterfaceStatus(i, NoAddresses, LinkStatus(LinkOf[i], None, "Misconfigured")))

\* They are filed as they should be.
LEMMA InterfaceItems ==
  /\ \A m, addrs : m.index \in Nat /\ m.device \in Devices /\ m.state \in States =>
       LET y == InterfaceSeen(m, addrs)
       IN  /\ y \in InterfaceItem /\ NamedInterface(y) /\ y.id.id = m.index
           /\ y.id.device = m.device /\ y.id.name = InterfaceName(m.device)
           /\ y.id = Id(m.index, InterfaceName(m.device), m.device)
  /\ \A i \in Interfaces : LinkOf[i] \in Links =>
       LET y == InterfaceMissing(i)
       IN  /\ y \in InterfaceItem /\ NamedInterface(y) /\ y.id.id = None
           /\ y.id.device = DeviceOf[LinkOf[i]] /\ y.id.name = i
  /\ \A i \in Interfaces : LinkOf[i] \notin Links =>
       LET y == InterfaceAstray(i)
       IN  /\ y \in InterfaceItem /\ NamedInterface(y) /\ y.id.id = None
           /\ y.id.device = None /\ y.id.name = i
<1>1. NoAddresses \in [Addresses -> Nat] /\ \A s, k : AddressesAt(s, k) \in [Addresses -> Nat]
  BY DEF NoAddresses, AddressesAt
<1>2. ASSUME NEW m, NEW addrs, m.index \in Nat, m.device \in Devices, m.state \in States
      PROVE  LET y == InterfaceSeen(m, addrs)
             IN  /\ y \in InterfaceItem /\ NamedInterface(y) /\ y.id.id = m.index
                 /\ y.id.device = m.device /\ y.id.name = InterfaceName(m.device)
                 /\ y.id = Id(m.index, InterfaceName(m.device), m.device)
  <2> DEFINE link == SeenLink(m).status
             at == AddressesAt(addrs, m.index)
             name == InterfaceName(m.device)
  <2>1. link \in LinkOfInterface /\ link.device = m.device
    BY <1>2, SeenFacts, LinkStatuses
  <2>2. name \in Interfaces \cup {None} /\ m.device # None
    BY <1>2, InterfaceNames, Configured
  <2>3. at \in [Addresses -> Nat]
    BY <1>1
  <2>4. InterfaceSeen(m, addrs) = NewItem(Id(m.index, name, m.device), InterfaceStatus(name, at, link))
    BY DEF InterfaceSeen
  <2>5. name = InterfaceName(m.device)
    OBVIOUS
  <2> HIDE DEF link, at, name
  <2>6. ItemParts(m.index, name, m.device, at, link)
    BY <1>2, <2>1, <2>2, <2>3, <2>5 DEF ItemParts
  <2>7. Filing(InterfaceSeen(m, addrs), m.index, name, m.device, at, link)
    BY <2>4, <2>6, ItemFacts
  <2>8. QED
    BY <2>5, <2>7 DEF Filing
<1>3. ASSUME NEW i \in Interfaces, LinkOf[i] \in Links
      PROVE  LET y == InterfaceMissing(i)
             IN  /\ y \in InterfaceItem /\ NamedInterface(y) /\ y.id.id = None
                 /\ y.id.device = DeviceOf[LinkOf[i]] /\ y.id.name = i
  <2> DEFINE link == MissingLink(LinkOf[i]).status
             d == DeviceOf[LinkOf[i]]
  <2>1. link \in LinkOfInterface /\ link.device = d
    BY <1>3, MissingFacts, LinkStatuses
  <2>2. InterfaceName(d) = i /\ d # None /\ d \in Devices
    BY <1>3, InterfaceNames, Configured
  <2>3. InterfaceMissing(i) = NewItem(Id(None, i, d), InterfaceStatus(i, NoAddresses, link))
    BY DEF InterfaceMissing
  <2> HIDE DEF link, d
  <2>4. ItemParts(None, i, d, NoAddresses, link)
    BY <1>1, <1>3, <2>1, <2>2 DEF ItemParts
  <2>5. Filing(InterfaceMissing(i), None, i, d, NoAddresses, link)
    BY <2>3, <2>4, ItemFacts
  <2>6. QED
    BY <2>5 DEF Filing, d
<1>4. ASSUME NEW i \in Interfaces, LinkOf[i] \notin Links
      PROVE  LET y == InterfaceAstray(i)
             IN  /\ y \in InterfaceItem /\ NamedInterface(y) /\ y.id.id = None
                 /\ y.id.device = None /\ y.id.name = i
  <2> DEFINE link == LinkStatus(LinkOf[i], None, "Misconfigured")
  <2>1. link \in LinkOfInterface
    BY LinkStatuses
  <2>2. link.device = None
    BY DEF LinkStatus
  <2>3. InterfaceAstray(i) = NewItem(Id(None, i, None), InterfaceStatus(i, NoAddresses, link))
    BY DEF InterfaceAstray
  <2> HIDE DEF link
  <2>4. ItemParts(None, i, None, NoAddresses, link)
    BY <1>1, <1>4, <2>1, <2>2 DEF ItemParts
  <2>5. Filing(InterfaceAstray(i), None, i, None, NoAddresses, link)
    BY <2>3, <2>4, ItemFacts
  <2>6. QED
    BY <2>5 DEF Filing
<1>5. QED
  BY <1>2, <1>3, <1>4

\* The interfaces of a snapshot are those of the dump and the configured ones, each
\* once.
LEMMA SnapshotInterfacesFacts ==
  ASSUME NEW dump, NEW addrs, LinkDump(dump)
  PROVE  LET snapshot == SnapshotInterfaces(dump, addrs)
         IN  /\ snapshot \subseteq InterfaceItem /\ IsFiniteSet(snapshot)
             /\ \A x \in snapshot : NamedInterface(x) /\ SharesKey(x.id, x.id)
             /\ PairwiseDistinct(snapshot)
             /\ \A i \in Interfaces : \E x \in snapshot : x.id.name = i
<1> DEFINE shown == {m \in dump : \/ InterfaceName(m.device) # None
                                  \/ AddressesAt(addrs, m.index) # NoAddresses}
           absent == {i \in Interfaces : /\ LinkOf[i] \in Links
                                         /\ \A m \in dump : m.device # DeviceOf[LinkOf[i]]}
           stray == {i \in Interfaces : LinkOf[i] \notin Links}
           A == {InterfaceSeen(m, addrs) : m \in shown}
           B == {InterfaceMissing(i) : i \in absent}
           C == {InterfaceAstray(i) : i \in stray}
           all == A \cup B \cup C
<1>1. SnapshotInterfaces(dump, addrs) = all
  BY DEF SnapshotInterfaces, InterfaceSeen, InterfaceMissing, InterfaceAstray
<1>2. /\ \A x \in A : \E m \in shown : x = InterfaceSeen(m, addrs)
      /\ \A x \in B : \E i \in absent : x = InterfaceMissing(i)
      /\ \A x \in C : \E i \in stray : x = InterfaceAstray(i)
      /\ \A m \in shown : InterfaceSeen(m, addrs) \in A
      /\ \A i \in absent : InterfaceMissing(i) \in B
      /\ \A i \in stray : InterfaceAstray(i) \in C
  OBVIOUS
<1>3. /\ \A m \in shown : m \in dump
      /\ \A m \in dump : InterfaceName(m.device) # None => m \in shown
      /\ \A m \in dump : AddressesAt(addrs, m.index) # NoAddresses => m \in shown
      /\ \A i \in absent : i \in Interfaces /\ LinkOf[i] \in Links
                           /\ \A m \in dump : m.device # DeviceOf[LinkOf[i]]
      /\ \A i \in stray : i \in Interfaces /\ LinkOf[i] \notin Links
      /\ \A i \in Interfaces : \/ i \in stray \/ i \in absent
                               \/ /\ LinkOf[i] \in Links
                                  /\ \E m \in dump : m.device = DeviceOf[LinkOf[i]]
  OBVIOUS
<1>4. IsFiniteSet(A) /\ IsFiniteSet(B) /\ IsFiniteSet(C)
  <2>1. IsFiniteSet(shown) /\ IsFiniteSet(absent) /\ IsFiniteSet(stray)
    BY Configured, FS_Subset DEF LinkDump
  <2> DEFINE f == [m \in shown |-> InterfaceSeen(m, addrs)]
             g == [i \in absent |-> InterfaceMissing(i)]
             h == [i \in stray |-> InterfaceAstray(i)]
  <2>2. A = {f[m] : m \in shown} /\ B = {g[i] : i \in absent} /\ C = {h[i] : i \in stray}
    OBVIOUS
  <2> HIDE DEF f, g, h, shown, absent, stray, A, B, C
  <2>3. QED
    BY <2>1, <2>2, FiniteImage
<1> HIDE DEF A, B, C, shown, absent, stray
<1>5. IsFiniteSet(all)
  BY <1>4, FS_Union
<1>6. \A x : x \in all <=> x \in A \/ x \in B \/ x \in C
  OBVIOUS
<1> HIDE DEF all
<1>7. ASSUME NEW x \in A
      PROVE  \E m \in dump :
               /\ x = InterfaceSeen(m, addrs) /\ x \in InterfaceItem /\ NamedInterface(x)
               /\ x.id.id = m.index /\ x.id.device = m.device
               /\ x.id.name = InterfaceName(m.device)
  BY <1>2, <1>3, InterfaceItems, DumpFacts
<1>8. ASSUME NEW x \in B
      PROVE  \E i \in absent :
               /\ x = InterfaceMissing(i) /\ x \in InterfaceItem /\ NamedInterface(x)
               /\ x.id.id = None /\ x.id.device = DeviceOf[LinkOf[i]] /\ x.id.name = i
  BY <1>2, <1>3, InterfaceItems
<1>9. ASSUME NEW x \in C
      PROVE  \E i \in stray :
               /\ x = InterfaceAstray(i) /\ x \in InterfaceItem /\ NamedInterface(x)
               /\ x.id.id = None /\ x.id.device = None /\ x.id.name = i
  BY <1>2, <1>3, InterfaceItems
<1>10. \A x \in all : x \in InterfaceItem /\ NamedInterface(x)
  BY <1>6, <1>7, <1>8, <1>9
<1>11. ASSUME NEW x \in all PROVE SharesKey(x.id, x.id)
  <2>1. CASE x \in A
    <3>1. PICK m \in dump : x.id.device = m.device
      BY <1>7, <2>1
    <3>2. QED
      BY <3>1, DumpFacts, Configured, SharedKeys
  <2>2. CASE x \in B
    BY <1>3, <1>8, <2>2, Configured, SharedKeys
  <2>3. CASE x \in C
    BY <1>3, <1>9, <2>3, Configured, SharedKeys
  <2>4. QED
    BY <1>6, <2>1, <2>2, <2>3
<1>12. ASSUME NEW i \in Interfaces PROVE \E x \in all : x.id.name = i
  <2>1. CASE i \in stray
    BY <1>2, <1>3, <1>6, <2>1, InterfaceItems
  <2>2. CASE i \in absent
    BY <1>2, <1>3, <1>6, <2>2, InterfaceItems
  <2>3. CASE LinkOf[i] \in Links /\ \E m \in dump : m.device = DeviceOf[LinkOf[i]]
    <3>1. PICK m \in dump : m.device = DeviceOf[LinkOf[i]]
      BY <2>3
    <3>2. InterfaceName(m.device) = i /\ i # None
      BY <2>3, <3>1, InterfaceNames, Configured
    <3>3. InterfaceSeen(m, addrs) \in all
      BY <1>2, <1>3, <1>6, <3>2
    <3>4. InterfaceSeen(m, addrs).id.name = i
      BY <3>2, InterfaceItems, DumpFacts
    <3>5. QED
      BY <3>3, <3>4
  <2>4. QED
    BY <1>3, <2>1, <2>2, <2>3
<1>13. ASSUME NEW x \in all, NEW y \in all, SharesKey(x.id, y.id) PROVE x = y
  <2>1. \/ x.id.name # None /\ x.id.name = y.id.name
        \/ x.id.device # None /\ x.id.device = y.id.device
        \/ x.id.id # None /\ x.id.id = y.id.id
    BY <1>13, SharedKeys
  <2>2. CASE x \in A /\ y \in A
    <3>1. PICK m \in dump : x = InterfaceSeen(m, addrs) /\ x.id.id = m.index
                            /\ x.id.device = m.device /\ x.id.name = InterfaceName(m.device)
      BY <1>7, <2>2
    <3>2. PICK n \in dump : y = InterfaceSeen(n, addrs) /\ y.id.id = n.index
                            /\ y.id.device = n.device /\ y.id.name = InterfaceName(n.device)
      BY <1>7, <2>2
    <3>3. m.device \in Devices /\ n.device \in Devices
      BY DumpFacts
    <3>4. m.device = n.device \/ m.index = n.index
      BY <2>1, <3>1, <3>2, <3>3, InterfaceNames
    <3>5. m = n
      BY <3>4, DumpFacts
    <3>6. QED
      BY <3>1, <3>2, <3>5
  <2>3. CASE x \in B /\ y \in B
    <3>1. PICK i \in absent : x = InterfaceMissing(i) /\ x.id.id = None
                              /\ x.id.device = DeviceOf[LinkOf[i]] /\ x.id.name = i
      BY <1>8, <2>3
    <3>2. PICK j \in absent : y = InterfaceMissing(j) /\ y.id.id = None
                              /\ y.id.device = DeviceOf[LinkOf[j]] /\ y.id.name = j
      BY <1>8, <2>3
    <3>3. i = j
      BY <1>3, <2>1, <3>1, <3>2, Configured
    <3>4. QED
      BY <3>1, <3>2, <3>3
  <2>4. CASE x \in C /\ y \in C
    BY <1>9, <2>1, <2>4
  <2>5. ASSUME NEW v \in A, NEW w \in B PROVE ~SharesKey(v.id, w.id) /\ ~SharesKey(w.id, v.id)
    <3>1. PICK m \in dump : v.id.id = m.index
                            /\ v.id.device = m.device /\ v.id.name = InterfaceName(m.device)
      BY <1>7
    <3>2. PICK i \in absent : w.id.id = None
                              /\ w.id.device = DeviceOf[LinkOf[i]] /\ w.id.name = i
      BY <1>8
    <3>3. m.device \in Devices /\ m.device # DeviceOf[LinkOf[i]] /\ i \in Interfaces
      BY <1>3, DumpFacts
    <3>4. InterfaceName(m.device) # i
      BY <3>3, InterfaceNames, Configured
    <3>5. QED
      BY <3>1, <3>2, <3>3, <3>4, SharedKeys
  <2>6. ASSUME NEW v \in A, NEW w \in C PROVE ~SharesKey(v.id, w.id) /\ ~SharesKey(w.id, v.id)
    <3>1. PICK m \in dump : v.id.id = m.index
                            /\ v.id.device = m.device /\ v.id.name = InterfaceName(m.device)
      BY <1>7
    <3>2. PICK i \in stray : w.id.id = None /\ w.id.device = None /\ w.id.name = i
      BY <1>9
    <3>3. m.device \in Devices /\ i \in Interfaces /\ LinkOf[i] \notin Links
      BY <1>3, DumpFacts
    <3>4. InterfaceName(m.device) # i
      BY <3>3, InterfaceNames, Configured
    <3>5. QED
      BY <3>1, <3>2, <3>3, <3>4, SharedKeys
  <2>7. ASSUME NEW v \in B, NEW w \in C PROVE ~SharesKey(v.id, w.id) /\ ~SharesKey(w.id, v.id)
    <3>1. PICK i \in absent : v.id.id = None
                              /\ v.id.device = DeviceOf[LinkOf[i]] /\ v.id.name = i
      BY <1>8
    <3>2. PICK j \in stray : w.id.id = None /\ w.id.device = None /\ w.id.name = j
      BY <1>9
    <3>3. i # j
      BY <1>3
    <3>4. QED
      BY <3>1, <3>2, <3>3, SharedKeys
  <2>8. QED
    BY <1>6, <1>13, <2>2, <2>3, <2>4, <2>5, <2>6, <2>7
<1>14. PairwiseDistinct(all)
  BY <1>13 DEF PairwiseDistinct
<1>15. QED
  BY <1>1, <1>5, <1>10, <1>11, <1>12, <1>14

-----------------------------------------------------------------------------
(* The kernel. *)

\* What a change of the kernel is told with.
LEMMA Announced ==
  ASSUME KernelOK, QueueOK, KernelChange, NEW m \in LinkMulticast \cup AddressMulticast, Announce(m)
  PROVE  /\ QueueOK' /\ changes' \in Nat /\ faults' \in Nat /\ faults' <= MaxFaults
         /\ UNCHANGED <<links, interfaces, listener, poll, polled>>
<1>1. MaxFaults \in Nat /\ MaxChanges \in Nat
  BY ConfigurationAssumption
<1>2. changes' \in Nat /\ changes' = changes - 1 /\ UNCHANGED <<links, interfaces, listener, poll, polled>>
  BY DEF KernelChange, KernelOK
<1>3. faults' \in Nat /\ faults' <= MaxFaults
  BY <1>1 DEF Announce, KernelOK
<1>4. queue \in Seq(LinkMulticast \cup AddressMulticast) /\ Len(queue) + changes <= MaxChanges
  BY DEF QueueOK
<1> DEFINE M == LinkMulticast \cup AddressMulticast
<1>5. queue \in Seq(M) /\ m \in M
  BY <1>4
<1> HIDE DEF M
<1>6. queue' = Append(queue, m) \/ queue' = queue
  BY DEF Announce
<1>7. Append(queue, m) \in Seq(M) /\ Len(Append(queue, m)) = Len(queue) + 1
  BY <1>5
<1>8. queue' \in Seq(M) /\ Len(queue') <= Len(queue) + 1 /\ Len(queue) \in Nat /\ Len(queue') \in Nat
  BY <1>5, <1>6, <1>7
<1>9. Len(queue') + changes' <= MaxChanges
  BY <1>1, <1>2, <1>4, <1>8 DEF KernelOK
<1>10. QueueOK'
  BY <1>8, <1>9 DEF QueueOK, M
<1>11. QED
  BY <1>2, <1>3, <1>10

\* A change of the kernel leaves every device with an index of its own.
LEMMA KernelStep ==
  ASSUME KernelOK, QueueOK, Kernel
  PROVE  /\ KernelOK' /\ QueueOK'
         /\ UNCHANGED <<links, interfaces, listener, poll, polled>>
<1> USE DEF Present
<1>1. /\ DOMAIN kernel \subseteq Devices /\ kernel \in [DOMAIN kernel -> DeviceState] /\ fresh \in Nat \ {0}
      /\ \A d \in DOMAIN kernel : 1 <= kernel[d].index /\ kernel[d].index < fresh
      /\ \A d, e \in DOMAIN kernel : kernel[d].index = kernel[e].index => d = e
  BY DEF KernelOK
<1>2. \A k \in DeviceState, d \in Devices, type \in {"NewLink", "DelLink"} :
        LinkMessage(type, d, k) \in LinkMulticast \cup AddressMulticast
  BY DEF DeviceState, LinkMessage, LinkMulticast
<1>3. \A k \in DeviceState, a \in Addresses, type \in {"NewAddress", "DelAddress"} :
        AddressMessage(type, k, a) \in LinkMulticast \cup AddressMulticast
  BY DEF DeviceState, AddressMessage, AddressMulticast
<1>4. ASSUME NEW d \in Devices, CreateDevice(d)
      PROVE  /\ KernelOK' /\ QueueOK'
             /\ UNCHANGED <<links, interfaces, listener, poll, polled>>
  <2> DEFINE k == [index |-> fresh, state |-> "Down", addrs |-> {}]
  <2>1. k \in DeviceState /\ k.index = fresh
    BY <1>1 DEF DeviceState
  <2>2. /\ KernelChange /\ Announce(LinkMessage("NewLink", d, k)) /\ fresh' = fresh + 1
        /\ kernel' = [e \in DOMAIN kernel \cup {d} |-> IF e = d THEN k ELSE kernel[e]]
        /\ d \notin DOMAIN kernel
    BY <1>4 DEF CreateDevice
  <2> HIDE DEF k
  <2>3. /\ DOMAIN kernel' = DOMAIN kernel \cup {d} /\ kernel'[d] = k
        /\ \A e \in DOMAIN kernel : kernel'[e] = kernel[e]
    BY <2>2
  <2>4. /\ DOMAIN kernel' \subseteq Devices /\ kernel' \in [DOMAIN kernel' -> DeviceState]
        /\ fresh' \in Nat \ {0}
    BY <1>1, <2>1, <2>2
  <2>5. \A e \in DOMAIN kernel' : 1 <= kernel'[e].index /\ kernel'[e].index < fresh'
    <3>1. ASSUME NEW e \in DOMAIN kernel PROVE 1 <= kernel'[e].index /\ kernel'[e].index < fresh'
      <4>1. kernel[e].index \in Nat
        BY <1>1 DEF DeviceState
      <4>2. QED
        BY <1>1, <2>2, <2>3, <4>1
    <3>2. QED
      BY <1>1, <2>1, <2>2, <2>3, <3>1
  <2>6. \A c, e \in DOMAIN kernel' : kernel'[c].index = kernel'[e].index => c = e
    BY <1>1, <2>1, <2>3
  <2>7. QED
    BY <1>2, <2>1, <2>2, <2>4, <2>5, <2>6, Announced DEF KernelOK
<1>5. ASSUME NEW d \in Devices, ChangeState(d)
      PROVE  /\ KernelOK' /\ QueueOK'
             /\ UNCHANGED <<links, interfaces, listener, poll, polled>>
  <2> DEFINE k == [kernel[d] EXCEPT !.state = IF @ = "Up" THEN "Down" ELSE "Up"]
  <2>1. d \in DOMAIN kernel /\ kernel[d] \in DeviceState
    BY <1>1, <1>5 DEF ChangeState
  <2>2. k \in DeviceState /\ k.index = kernel[d].index
    BY <2>1 DEF DeviceState
  <2>3. /\ KernelChange /\ Announce(LinkMessage("NewLink", d, k)) /\ fresh' = fresh
        /\ kernel' = [kernel EXCEPT ![d] = k]
    BY <1>5 DEF ChangeState
  <2> HIDE DEF k
  <2>4. /\ kernel' \in [DOMAIN kernel -> DeviceState] /\ DOMAIN kernel' = DOMAIN kernel
        /\ \A e \in DOMAIN kernel : kernel'[e].index = kernel[e].index
    BY <1>1, <2>1, <2>2, <2>3
  <2>5. QED
    BY <1>1, <1>2, <2>2, <2>3, <2>4, Announced DEF KernelOK
<1>6. ASSUME NEW d \in Devices, DeleteDevice(d)
      PROVE  /\ KernelOK' /\ QueueOK'
             /\ UNCHANGED <<links, interfaces, listener, poll, polled>>
  <2>1. d \in DOMAIN kernel /\ kernel[d] \in DeviceState
    BY <1>1, <1>6 DEF DeleteDevice
  <2>2. /\ KernelChange /\ Announce(LinkMessage("DelLink", d, kernel[d])) /\ fresh' = fresh
        /\ kernel' = [e \in DOMAIN kernel \ {d} |-> kernel[e]]
    BY <1>6 DEF DeleteDevice, Restrict
  <2>3. /\ DOMAIN kernel' = DOMAIN kernel \ {d} /\ kernel' \in [DOMAIN kernel' -> DeviceState]
        /\ \A e \in DOMAIN kernel' : kernel'[e] = kernel[e]
    BY <1>1, <2>2
  <2>4. QED
    BY <1>1, <1>2, <2>1, <2>2, <2>3, Announced DEF KernelOK
<1>7. ASSUME NEW d \in Devices, NEW e \in Devices, RenameDevice(d, e)
      PROVE  /\ KernelOK' /\ QueueOK'
             /\ UNCHANGED <<links, interfaces, listener, poll, polled>>
  <2>1. d \in DOMAIN kernel /\ kernel[d] \in DeviceState /\ e \notin DOMAIN kernel
    BY <1>1, <1>7 DEF RenameDevice
  <2>2. /\ KernelChange /\ Announce(LinkMessage("NewLink", e, kernel[d])) /\ fresh' = fresh
        /\ kernel' = [c \in (DOMAIN kernel \ {d}) \cup {e} |-> IF c = e THEN kernel[d] ELSE kernel[c]]
    BY <1>7 DEF RenameDevice
  <2>3. /\ DOMAIN kernel' = (DOMAIN kernel \ {d}) \cup {e} /\ kernel'[e] = kernel[d]
        /\ \A c \in DOMAIN kernel \ {d} : kernel'[c] = kernel[c]
    BY <2>1, <2>2
  <2>4. /\ DOMAIN kernel' \subseteq Devices /\ kernel' \in [DOMAIN kernel' -> DeviceState]
    BY <1>1, <2>1, <2>2
  <2>5. \A c \in DOMAIN kernel' : 1 <= kernel'[c].index /\ kernel'[c].index < fresh'
    BY <1>1, <2>1, <2>2, <2>3
  <2>6. \A b, c \in DOMAIN kernel' : kernel'[b].index = kernel'[c].index => b = c
    BY <1>1, <2>1, <2>3
  <2>7. QED
    BY <1>1, <1>2, <2>1, <2>2, <2>4, <2>5, <2>6, Announced DEF KernelOK
<1>8. ASSUME NEW d \in Devices, NEW a \in Addresses, AddAddress(d, a) \/ RemoveAddress(d, a)
      PROVE  /\ KernelOK' /\ QueueOK'
             /\ UNCHANGED <<links, interfaces, listener, poll, polled>>
  <2>1. d \in DOMAIN kernel /\ kernel[d] \in DeviceState
    BY <1>1, <1>8 DEF AddAddress, RemoveAddress
  <2>2. PICK s \in SUBSET Addresses, type \in {"NewAddress", "DelAddress"} :
          /\ KernelChange /\ fresh' = fresh
          /\ Announce(AddressMessage(type, kernel[d], a))
          /\ kernel' = [kernel EXCEPT ![d] = [kernel[d] EXCEPT !.addrs = s]]
    <3>1. CASE AddAddress(d, a)
      <4>1. kernel[d].addrs \cup {a} \in SUBSET Addresses
        BY <2>1 DEF DeviceState
      <4>2. /\ KernelChange /\ fresh' = fresh /\ Announce(AddressMessage("NewAddress", kernel[d], a))
            /\ kernel' = [kernel EXCEPT ![d] = [kernel[d] EXCEPT !.addrs = kernel[d].addrs \cup {a}]]
        BY <3>1 DEF AddAddress
      <4>3. QED
        BY <4>1, <4>2
    <3>2. CASE RemoveAddress(d, a)
      <4>1. kernel[d].addrs \ {a} \in SUBSET Addresses
        BY <2>1 DEF DeviceState
      <4>2. /\ KernelChange /\ fresh' = fresh /\ Announce(AddressMessage("DelAddress", kernel[d], a))
            /\ kernel' = [kernel EXCEPT ![d] = [kernel[d] EXCEPT !.addrs = kernel[d].addrs \ {a}]]
        BY <3>2 DEF RemoveAddress
      <4>3. QED
        BY <4>1, <4>2
    <3>3. QED
      BY <1>8, <3>1, <3>2
  <2> DEFINE k == [kernel[d] EXCEPT !.addrs = s]
  <2>3. k \in DeviceState /\ k.index = kernel[d].index
    BY <2>1, <2>2 DEF DeviceState
  <2>4. kernel' = [kernel EXCEPT ![d] = k]
    BY <2>2
  <2> HIDE DEF k
  <2>5. /\ kernel' \in [DOMAIN kernel -> DeviceState] /\ DOMAIN kernel' = DOMAIN kernel
        /\ \A e \in DOMAIN kernel : kernel'[e].index = kernel[e].index
    BY <1>1, <2>1, <2>3, <2>4
  <2>6. QED
    BY <1>1, <1>3, <2>1, <2>2, <2>5, Announced DEF KernelOK
<1>9. QED
  BY <1>4, <1>5, <1>6, <1>7, <1>8 DEF Kernel

-----------------------------------------------------------------------------
(* The listener. *)

\* The message taken is one the kernel sent.
LEMMA Received ==
  ASSUME KernelOK, QueueOK, NEW type, Receive(type)
  PROVE  /\ KernelOK' /\ QueueOK' /\ listener = Idle /\ listener.pc = "idle"
         /\ UNCHANGED <<poll, polled>> /\ Head(queue).type = type
         /\ type \in {"NewLink", "DelLink"} => Head(queue) \in LinkMulticast
         /\ type \in {"NewAddress", "DelAddress"} => Head(queue) \in AddressMulticast
<1>1. /\ listener = Idle /\ queue # <<>> /\ Head(queue).type = type /\ queue' = Tail(queue)
      /\ UNCHANGED <<kernel, fresh, changes, faults, poll, polled>>
  BY DEF Receive, LockFree
<1> DEFINE M == LinkMulticast \cup AddressMulticast
<1>2. queue \in Seq(M) /\ Len(queue) + changes <= MaxChanges
  BY DEF QueueOK
<1>3. \A m \in M : m \in LinkMulticast \/ m \in AddressMulticast
  OBVIOUS
<1> HIDE DEF M
<1>4. Head(queue) \in M /\ Tail(queue) \in Seq(M) /\ Len(Tail(queue)) = Len(queue) - 1
  BY <1>1, <1>2
<1>5. changes \in Nat /\ Len(queue) \in Nat /\ Len(Tail(queue)) \in Nat /\ MaxChanges \in Nat
  <2>1. changes \in Nat
    BY DEF KernelOK
  <2>2. MaxChanges \in Nat
    BY ConfigurationAssumption
  <2>3. Len(queue) \in Nat /\ Len(Tail(queue)) \in Nat
    BY <1>2, <1>4
  <2>4. QED
    BY <2>1, <2>2, <2>3
<1>6. QueueOK'
  BY <1>1, <1>2, <1>4, <1>5 DEF QueueOK, M
<1>7. KernelOK'
  BY <1>1 DEF KernelOK
<1>8. Head(queue) \in LinkMulticast \/ Head(queue) \in AddressMulticast
  BY <1>3, <1>4
<1>9. /\ \A m \in LinkMulticast : m.type \in {"NewLink", "DelLink"}
      /\ \A m \in AddressMulticast : m.type \in {"NewAddress", "DelAddress"}
  BY DEF LinkMulticast, AddressMulticast
<1>10. listener.pc = "idle"
  BY <1>1 DEF Idle
<1>11. QED
  BY <1>1, <1>6, <1>7, <1>8, <1>9, <1>10

\* The link items stay filed when one is put or dropped.
LEMMA LinkPut ==
  ASSUME NEW S, LinksFiled(S), NEW x \in LinkItem, NamedLink(x)
  PROVE  LinksFiled(PutItem(S, x)) /\ LinksFiled(DropItems(S, x.id))
<1>1. S \subseteq LinkItem /\ IsFiniteSet(S) /\ PairwiseDistinct(S) /\ \A y \in S : NamedLink(y)
  BY DEF LinksFiled
<1>2. /\ PutItem(S, x) \subseteq S \cup {x} /\ DropItems(S, x.id) \subseteq S
      /\ PairwiseDistinct(PutItem(S, x)) /\ PairwiseDistinct(DropItems(S, x.id))
      /\ IsFiniteSet(PutItem(S, x)) /\ IsFiniteSet(DropItems(S, x.id))
  BY <1>1, PutFacts, Zenon
<1>3. LinksFiled(PutItem(S, x))
  BY <1>1, <1>2 DEF LinksFiled
<1>4. LinksFiled(DropItems(S, x.id))
  BY <1>1, <1>2 DEF LinksFiled
<1>5. QED
  BY <1>3, <1>4

\* y is what becomes of an interface of S: its names, and its index if it has one.
Replaces(y, S) ==
  \E z \in S : /\ y.id.name = z.id.name /\ y.id.device = z.id.device
               /\ y.id.id = z.id.id \/ y.id.id = None

\* An interface that replaces another displaces only that one, and no configured
\* name goes with it.
LEMMA Replaced ==
  ASSUME NEW S, InterfacesFiled(S), NEW y \in InterfaceItem, NamedInterface(y), Replaces(y, S),
         NEW T, T = PutItem(S, y) \/ (y.id.name = None /\ T = DropItems(S, y.id))
  PROVE  /\ InterfacesFiled(T) /\ (AllFiled(S) => AllFiled(T))
         /\ T \subseteq S \cup {y}
         /\ \A i \in Interfaces : (\E w \in S : w.id.name = i) => \E w \in T : w.id.name = i
<1>1. PICK z \in S : /\ y.id.name = z.id.name /\ y.id.device = z.id.device
                     /\ y.id.id = z.id.id \/ y.id.id = None
  BY DEF Replaces
<1>2. \A w \in S : SharesKey(y.id, w.id) => SharesKey(z.id, w.id)
  BY <1>1, SharedKeys
<1>3. \A w \in S : SharesKey(y.id, w.id) => w = z
  BY <1>1, <1>2 DEF InterfacesFiled, PairwiseDistinct
<1>4. /\ T \subseteq S \cup {y} /\ \A w \in S : w = z \/ w \in T
      /\ T = PutItem(S, y) => y \in T
  BY <1>3, PutFacts
<1>5. InterfacesFiled(T)
  <2>1. S \subseteq InterfaceItem /\ IsFiniteSet(S) /\ PairwiseDistinct(S) /\ \A w \in S : NamedInterface(w)
    BY DEF InterfacesFiled
  <2>2. PairwiseDistinct(T) /\ IsFiniteSet(T)
    <3>1. /\ PairwiseDistinct(PutItem(S, y)) /\ PairwiseDistinct(DropItems(S, y.id))
          /\ IsFiniteSet(PutItem(S, y)) /\ IsFiniteSet(DropItems(S, y.id))
      BY <2>1, PutFacts, Zenon
    <3>2. QED
      BY <3>1
  <2>3. QED
    BY <1>4, <2>1, <2>2 DEF InterfacesFiled
<1>6. \A i \in Interfaces : (\E w \in S : w.id.name = i) => \E w \in T : w.id.name = i
  BY <1>1, <1>4, Configured
<1>7. QED
  BY <1>4, <1>5, <1>6 DEF AllFiled

\* An interface with a new link status, and with or without its index.
LEMMA RelinkedFacts ==
  ASSUME InterfacesFiled(interfaces), NEW m, m.index \in Nat, m.device \in Devices,
         NEW index, index = m.index \/ index = None,
         NEW link \in LinkOfInterface, link.device = m.device, NEW y \in Relinked(m, index, link)
  PROVE  /\ y \in InterfaceItem /\ NamedInterface(y) /\ Replaces(y, interfaces)
         /\ y.id.id = index /\ y.status.link = link
         /\ index = m.index => \E z \in interfaces : z.id = y.id
<1>1. PICK z \in interfaces :
        /\ z.id.id = m.index /\ z.status.link.device = m.device
        /\ y = NewItem(Id(index, z.status.name, m.device),
                       InterfaceStatus(z.status.name, z.status.addrs, link))
  BY DEF Relinked, InterfaceAt
<1>2. z \in InterfaceItem /\ NamedInterface(z)
  BY DEF InterfacesFiled
<1>3. /\ z.id.device = m.device /\ z.status.name = z.id.name /\ m.device # None
      /\ z.id.name = InterfaceName(m.device)
  BY <1>1, <1>2, Configured DEF NamedInterface
<1>4. /\ z.status.name \in Interfaces \cup {None} /\ z.status.addrs \in [Addresses -> Nat]
      /\ z.id \in [id : Nat \cup {None}, name : Interfaces \cup {None}, device : Devices \cup {None}]
  BY <1>2 DEF InterfaceItem
<1>5. ItemParts(index, z.status.name, m.device, z.status.addrs, link)
  BY <1>3, <1>4 DEF ItemParts
<1>6. Filing(y, index, z.status.name, m.device, z.status.addrs, link)
  BY <1>1, <1>5, ItemFacts
<1>7. y.id = Id(index, z.status.name, m.device) /\ y.id.name = z.id.name
      /\ y.id.device = z.id.device /\ y.id.id = index
  BY <1>3, <1>6 DEF Filing
<1>8. index = m.index => z.id = y.id
  BY <1>1, <1>3, <1>4, <1>7 DEF Id
<1>9. QED
  BY <1>1, <1>6, <1>7, <1>8 DEF Filing, Replaces

\* What is put for a link that is deleted, or dropped: it has no index.
DeletedLink(m) ==
  IF LinkName(m.device) # None THEN MissingLink(LinkName(m.device))
  ELSE NewItem(Id(None, None, m.device), LinkStatus(None, m.device, m.state))

\* It is filed under the names of its device.
LEMMA DeletedFacts ==
  ASSUME NEW m, m.device \in Devices, m.state \in States
  PROVE  /\ DeletedLink(m) \in LinkItem /\ NamedLink(DeletedLink(m))
         /\ DeletedLink(m).id.id = None /\ DeletedLink(m).id.device = m.device
         /\ DeletedLink(m).id.name = LinkName(m.device)
         /\ DeletedLink(m).status \in LinkOfInterface /\ DeletedLink(m).status.device = m.device
<1>1. CASE LinkName(m.device) # None
  <2>1. LinkName(m.device) \in Links /\ DeviceOf[LinkName(m.device)] = m.device
    BY <1>1, LinkNames
  <2>2. DeletedLink(m) = MissingLink(LinkName(m.device))
    BY <1>1 DEF DeletedLink
  <2>3. QED
    BY <2>1, <2>2, MissingFacts, LinkStatuses
<1>2. CASE LinkName(m.device) = None
  <2> DEFINE i == Id(None, None, m.device)
             s == LinkStatus(None, m.device, m.state)
  <2>1. DeletedLink(m) = [id |-> i, status |-> s, held |-> TRUE]
    BY <1>2 DEF DeletedLink, NewItem
  <2>2. /\ i.id = None /\ i.device = m.device /\ i.name = None
        /\ i \in [id : Nat \cup {None}, name : Links \cup {None}, device : Devices]
    BY DEF Id
  <2>3. /\ s.name = None /\ s.device = m.device
        /\ s \in [name : Links \cup {None}, device : Devices, state : States]
    BY DEF LinkStatus
  <2> HIDE DEF i, s
  <2>4. /\ DeletedLink(m).id = i /\ DeletedLink(m).status = s /\ DeletedLink(m) \in LinkItem
    BY <2>1, <2>2, <2>3 DEF LinkItem
  <2>5. NamedLink(DeletedLink(m))
    BY <1>2, <2>2, <2>3, <2>4 DEF NamedLink
  <2>6. QED
    BY <1>2, <2>2, <2>3, <2>4, <2>5, LinkStatuses
<1>3. QED
  BY <1>1, <1>2

\* A change of an address leaves an interface its names and its link.
LEMMA Readdressed ==
  ASSUME InterfacesFiled(interfaces), NEW m, m.addr \in Addresses, NEW change \in [Nat -> Nat],
         Readdress(m, change)
  PROVE  /\ InterfacesFiled(interfaces') /\ (AllFiled(interfaces) => AllFiled(interfaces'))
         /\ \A y \in interfaces' : \E z \in interfaces : /\ y.status.name = z.status.name
                                                         /\ y.status.link = z.status.link
         /\ \A i \in Interfaces :
              (\E w \in interfaces : w.id.name = i) => \E w \in interfaces' : w.id.name = i
<1>1. CASE interfaces' = interfaces
  BY <1>1
<1>2. CASE interfaces' # interfaces
  <2>1. PICK y \in interfaces :
          interfaces' = PutItem(interfaces, NewItem(y.id, [y.status EXCEPT !.addrs[m.addr] = change[@]]))
    BY <1>2 DEF Readdress, InterfaceAt
  <2> DEFINE s == [y.status EXCEPT !.addrs[m.addr] = change[@]]
             z == NewItem(y.id, s)
  <2>2. y \in InterfaceItem /\ NamedInterface(y)
    BY DEF InterfacesFiled
  <2>3. /\ y.id \in [id : Nat \cup {None}, name : Interfaces \cup {None}, device : Devices \cup {None}]
        /\ y.status \in [name : Interfaces \cup {None}, addrs : [Addresses -> Nat], link : LinkOfInterface]
    BY <2>2 DEF InterfaceItem, LinkOfInterface
  <2>4. /\ s.name = y.status.name /\ s.link = y.status.link
        /\ s \in [name : Interfaces \cup {None}, addrs : [Addresses -> Nat], link : LinkOfInterface]
    BY <2>3
  <2>5. z = [id |-> y.id, status |-> s, held |-> TRUE]
    BY DEF NewItem
  <2>6. interfaces' = PutItem(interfaces, z)
    BY <2>1
  <2> HIDE DEF s, z
  <2>7. z \in InterfaceItem /\ z.id = y.id /\ z.status = s
    BY <2>3, <2>4, <2>5 DEF InterfaceItem, LinkOfInterface
  <2>8. NamedInterface(z)
    BY <2>2, <2>4, <2>7 DEF NamedInterface
  <2>9. Replaces(z, interfaces)
    BY <2>7 DEF Replaces
  <2>10. /\ InterfacesFiled(PutItem(interfaces, z))
         /\ AllFiled(interfaces) => AllFiled(PutItem(interfaces, z))
         /\ PutItem(interfaces, z) \subseteq interfaces \cup {z}
         /\ \A i \in Interfaces : (\E w \in interfaces : w.id.name = i) =>
                                     \E w \in PutItem(interfaces, z) : w.id.name = i
    BY <2>7, <2>8, <2>9, Replaced
  <2>11. QED
    BY <2>4, <2>6, <2>7, <2>10
<1>3. QED
  BY <1>1, <1>2

\* A message about an address changes how often an interface has it.
LEMMA AddressMessages ==
  ASSUME NewAddress \/ DelAddress
  PROVE  \E type \in {"NewAddress", "DelAddress"}, change \in [Nat -> Nat] :
           Receive(type) /\ Readdress(Head(queue), change)
<1>1. CASE NewAddress
  <2>1. [n \in Nat |-> n + 1] \in [Nat -> Nat]
    OBVIOUS
  <2>2. QED
    BY <1>1, <2>1 DEF NewAddress
<1>2. CASE DelAddress
  <2>1. [n \in Nat |-> IF n > 0 THEN n - 1 ELSE 0] \in [Nat -> Nat]
    OBVIOUS
  <2>2. QED
    BY <1>2, <2>1 DEF DelAddress
<1>3. QED
  BY <1>1, <1>2

\* The listener leaves the database in order, and so are the items it has yet to store.
LEMMA ListenerStep ==
  ASSUME IInv, Listener
  PROVE  IInv'
<1>1. KernelOK /\ QueueOK /\ DatabaseOK /\ TasksOK
  BY DEF IInv
<1>2. /\ LinksFiled(links) /\ InterfacesFiled(interfaces)
      /\ polled \in BOOLEAN /\ (polled => AllFiled(interfaces))
  BY <1>1 DEF DatabaseOK
<1>3. \A S, T : /\ LinksFiled(S) /\ InterfacesFiled(T) /\ (AllFiled(interfaces) => AllFiled(T))
                /\ links' = S /\ interfaces' = T /\ polled' = polled
                => DatabaseOK'
  BY <1>2 DEF DatabaseOK
<1>4. ASSUME NewLink PROVE IInv'
  <2> DEFINE m == Head(queue)
             x == SeenLink(m)
  <2>1. /\ Receive("NewLink") /\ links' = PutItem(links, x) /\ interfaces' = interfaces
        /\ listener' = [pc |-> "tellLink", news |-> <<LinkNews(x.status)>>,
                        updated |-> Relinked(m, m.index, x.status)]
    BY <1>4 DEF NewLink
  <2>2. KernelOK' /\ QueueOK' /\ UNCHANGED <<poll, polled>> /\ m \in LinkMulticast
    BY <1>1, <2>1, Received
  <2> HIDE DEF m
  <2>3. m.index \in Nat /\ m.device \in Devices /\ m.state \in States
    BY <2>2 DEF LinkMulticast, States
  <2>4. /\ x \in LinkItem /\ NamedLink(x) /\ x.status \in LinkOfInterface
        /\ x.status.device = m.device
    BY <2>3, SeenFacts, LinkStatuses
  <2> HIDE DEF x
  <2>5. DatabaseOK'
    BY <1>2, <1>3, <2>1, <2>2, <2>4, LinkPut
  <2>6. \A y \in Relinked(m, m.index, x.status) :
          y \in InterfaceItem /\ NamedInterface(y) /\ \E z \in interfaces : z.id = y.id
    BY <1>2, <2>3, <2>4, RelinkedFacts
  <2>7. /\ listener'.pc = "tellLink" /\ listener'.updated = Relinked(m, m.index, x.status)
    BY <2>1
  <2>8. TasksOK'
    BY <1>1, <2>1, <2>2, <2>6, <2>7 DEF TasksOK
  <2>9. QED
    BY <2>2, <2>5, <2>8 DEF IInv
<1>5. ASSUME TellLink PROVE IInv'
  <2>1. /\ listener.pc = "tellLink" /\ UNCHANGED <<environment, links, poll, polled>>
        /\ \/ listener' = Idle /\ interfaces' = interfaces
           \/ \E y \in listener.updated :
                /\ interfaces' = PutItem(interfaces, y)
                /\ listener' = [pc |-> "tellInterface", news |-> <<InterfaceNews(y.status)>>]
    BY <1>5 DEF TellLink
  <2>2. KernelOK' /\ QueueOK'
    BY <1>1, <2>1 DEF KernelOK, QueueOK, environment
  <2>3. DatabaseOK'
    <3>1. CASE interfaces' = interfaces
      BY <1>2, <1>3, <2>1, <3>1
    <3>2. CASE \E y \in listener.updated : interfaces' = PutItem(interfaces, y)
      <4>1. PICK y \in listener.updated : interfaces' = PutItem(interfaces, y)
        BY <3>2
      <4>2. y \in InterfaceItem /\ NamedInterface(y) /\ Replaces(y, interfaces)
        BY <1>1, <2>1 DEF TasksOK, Replaces
      <4>3. InterfacesFiled(PutItem(interfaces, y)) /\ (AllFiled(interfaces) => AllFiled(PutItem(interfaces, y)))
        BY <1>2, <4>2, Replaced
      <4>4. QED
        BY <1>2, <1>3, <2>1, <4>1, <4>3
    <3>3. QED
      BY <2>1, <3>1, <3>2
  <2>4. listener'.pc \in {"idle", "tellInterface"}
    BY <2>1 DEF Idle
  <2>5. TasksOK'
    BY <1>1, <2>1, <2>4 DEF TasksOK
  <2>6. QED
    BY <2>2, <2>3, <2>5 DEF IInv
<1>6. ASSUME TellInterface PROVE IInv'
  <2>1. /\ listener' = Idle /\ UNCHANGED <<environment, links, interfaces, poll, polled>>
    BY <1>6 DEF TellInterface
  <2>2. KernelOK' /\ QueueOK' /\ DatabaseOK'
    BY <1>1, <1>2, <1>3, <2>1 DEF KernelOK, QueueOK, environment
  <2>3. listener'.pc = "idle"
    BY <2>1 DEF Idle
  <2>4. TasksOK'
    BY <1>1, <2>1, <2>3 DEF TasksOK
  <2>5. QED
    BY <2>2, <2>4 DEF IInv
<1>7. ASSUME DelLink PROVE IInv'
  <2> DEFINE m == Head(queue)
             x == DeletedLink(m)
  <2>1. /\ Receive("DelLink") /\ listener' = listener /\ DelLinkInterface(m, x)
        /\ links' = PutItem(links, x) \/ links' = DropItems(links, x.id)
    BY <1>7 DEF DelLink, DeletedLink
  <2>2. /\ KernelOK' /\ QueueOK' /\ UNCHANGED <<poll, polled>> /\ m \in LinkMulticast
        /\ listener.pc = "idle"
    BY <1>1, <2>1, Received
  <2> HIDE DEF m
  <2>3. m.index \in Nat /\ m.device \in Devices /\ m.state \in States
    BY <2>2 DEF LinkMulticast, States
  <2>4. /\ x \in LinkItem /\ NamedLink(x) /\ x.status \in LinkOfInterface
        /\ x.status.device = m.device
    BY <2>3, DeletedFacts
  <2> HIDE DEF x
  <2>5. LinksFiled(links')
    BY <1>2, <2>1, <2>4, LinkPut
  <2>6. InterfacesFiled(interfaces') /\ (AllFiled(interfaces) => AllFiled(interfaces'))
    <3>1. CASE interfaces' = interfaces
      BY <1>2, <3>1
    <3>2. CASE \E y \in Relinked(m, None, x.status) :
                 \/ interfaces' = PutItem(interfaces, y)
                 \/ y.id.name = None /\ interfaces' = DropItems(interfaces, y.id)
      <4>1. PICK y \in Relinked(m, None, x.status) :
              \/ interfaces' = PutItem(interfaces, y)
              \/ y.id.name = None /\ interfaces' = DropItems(interfaces, y.id)
        BY <3>2
      <4>2. y \in InterfaceItem /\ NamedInterface(y) /\ Replaces(y, interfaces)
        BY <1>2, <2>3, <2>4, RelinkedFacts
      <4>3. \A T : T = PutItem(interfaces, y) \/ (y.id.name = None /\ T = DropItems(interfaces, y.id)) =>
                     InterfacesFiled(T) /\ (AllFiled(interfaces) => AllFiled(T))
        BY <1>2, <4>2, Replaced
      <4>4. QED
        BY <4>1, <4>3
    <3>3. QED
      BY <2>1, <3>1, <3>2 DEF DelLinkInterface
  <2>7. DatabaseOK'
    BY <1>3, <2>2, <2>5, <2>6
  <2>8. TasksOK'
    BY <1>1, <2>1, <2>2 DEF TasksOK
  <2>9. QED
    BY <2>2, <2>7, <2>8 DEF IInv
<1>8. ASSUME NewAddress \/ DelAddress PROVE IInv'
  <2>1. PICK change \in [Nat -> Nat], type \in {"NewAddress", "DelAddress"} :
          Receive(type) /\ Readdress(Head(queue), change)
    BY <1>8, AddressMessages
  <2> DEFINE m == Head(queue)
  <2>2. /\ KernelOK' /\ QueueOK' /\ UNCHANGED <<poll, polled>> /\ m \in AddressMulticast
        /\ listener.pc = "idle"
    BY <1>1, <2>1, Received
  <2>3. Readdress(m, change)
    BY <2>1
  <2> HIDE DEF m
  <2>4. m.addr \in Addresses /\ links' = links /\ listener' = listener
    BY <2>2, <2>3 DEF AddressMulticast, Readdress
  <2>5. InterfacesFiled(interfaces') /\ (AllFiled(interfaces) => AllFiled(interfaces'))
    BY <1>2, <2>3, <2>4, Readdressed
  <2>6. DatabaseOK'
    BY <1>2, <1>3, <2>2, <2>4, <2>5
  <2>7. TasksOK'
    BY <1>1, <2>2, <2>4 DEF TasksOK
  <2>8. QED
    BY <2>2, <2>6, <2>7 DEF IInv
<1>9. QED
  BY <1>4, <1>5, <1>6, <1>7, <1>8 DEF Listener

-----------------------------------------------------------------------------
(* The poller, and the end of a hold period. *)

\* A dump of the links shows a device once.
LEMMA LinksDumped ==
  ASSUME KernelOK,
         NEW dump, dump \subseteq
           {[index |-> kernel[d].index, device |-> d, state |-> kernel[d].state] : d \in Present}
  PROVE  LinkDump(dump)
<1> DEFINE shown(d) == [index |-> kernel[d].index, device |-> d, state |-> kernel[d].state]
<1>1. /\ DOMAIN kernel \subseteq Devices /\ \A d \in DOMAIN kernel : kernel[d] \in DeviceState
      /\ \A d, e \in DOMAIN kernel : kernel[d].index = kernel[e].index => d = e
  BY DEF KernelOK
<1>2. \A d \in DOMAIN kernel :
        /\ shown(d) \in [index : Nat, device : Devices, state : {"Up", "Down"}]
        /\ shown(d).index = kernel[d].index /\ shown(d).device = d
  BY <1>1 DEF DeviceState
<1>3. \A m \in dump : \E d \in DOMAIN kernel : m = shown(d)
  BY DEF Present
<1>4. dump \subseteq {shown(d) : d \in DOMAIN kernel}
  BY DEF Present
<1> DEFINE f == [d \in DOMAIN kernel |-> shown(d)]
<1>5. {shown(d) : d \in DOMAIN kernel} = {f[d] : d \in DOMAIN kernel}
  OBVIOUS
<1> HIDE DEF f, shown
<1>6. IsFiniteSet({f[d] : d \in DOMAIN kernel})
  <2>1. IsFiniteSet(DOMAIN kernel)
    BY <1>1, Configured, FS_Subset
  <2>2. QED
    BY <2>1, FiniteImage
<1>7. IsFiniteSet(dump)
  BY <1>4, <1>5, <1>6, FS_Subset
<1>8. dump \subseteq [index : Nat, device : Devices, state : {"Up", "Down"}]
  BY <1>2, <1>3
<1>9. \A m, n \in dump : m.index = n.index \/ m.device = n.device => m = n
  BY <1>1, <1>2, <1>3
<1>10. QED
  BY <1>7, <1>8, <1>9 DEF LinkDump

\* A snapshot that is applied puts the links in order.
LEMMA LinksApplied ==
  ASSUME NEW old, LinksFiled(old), NEW dump, LinkDump(dump)
  PROVE  /\ LinksFiled(Applied(old, SnapshotLinks(dump)))
         /\ \A n \in Links : \E x \in Applied(old, SnapshotLinks(dump)) : x.id.name = n
         /\ \A x \in Applied(old, SnapshotLinks(dump)) :
              x \in old \/ x \in Brought(old, SnapshotLinks(dump))
<1> DEFINE new == SnapshotLinks(dump)
           A == Applied(old, new)
<1>1. old \subseteq LinkItem /\ IsFiniteSet(old) /\ PairwiseDistinct(old) /\ \A x \in old : NamedLink(x)
  BY DEF LinksFiled
<1>2. /\ new \subseteq LinkItem /\ IsFiniteSet(new)
      /\ \A x \in new : NamedLink(x) /\ SharesKey(x.id, x.id)
      /\ PairwiseDistinct(new)
      /\ \A n \in Links : \E x \in new : x.id.name = n
  BY SnapshotLinksFacts
<1> HIDE DEF new
<1>3. /\ \A z \in A : z \in old \/ (z \in new /\ z \in Brought(old, new))
      /\ \A x \in new : \E z \in A : z.id = x.id
      /\ PairwiseDistinct(A) /\ IsFiniteSet(A)
  BY <1>1, <1>2, AppliedFacts
<1> HIDE DEF A
<1>4. LinksFiled(A)
  BY <1>1, <1>2, <1>3 DEF LinksFiled
<1>5. \A n \in Links : \E x \in A : x.id.name = n
  BY <1>2, <1>3
<1>6. \A x \in A : x \in old \/ x \in Brought(old, new)
  BY <1>3
<1>7. QED
  BY <1>4, <1>5, <1>6 DEF A, new

\* And the interfaces, with every configured one among them.
LEMMA InterfacesApplied ==
  ASSUME NEW old, InterfacesFiled(old), NEW dump, LinkDump(dump), NEW addrs
  PROVE  /\ InterfacesFiled(Applied(old, SnapshotInterfaces(dump, addrs)))
         /\ AllFiled(Applied(old, SnapshotInterfaces(dump, addrs)))
         /\ \A y \in Applied(old, SnapshotInterfaces(dump, addrs)) :
              y \in old \/ y \in Brought(old, SnapshotInterfaces(dump, addrs))
<1> DEFINE new == SnapshotInterfaces(dump, addrs)
           A == Applied(old, new)
<1>1. /\ old \subseteq InterfaceItem /\ IsFiniteSet(old) /\ PairwiseDistinct(old)
      /\ \A x \in old : NamedInterface(x)
  BY DEF InterfacesFiled
<1>2. /\ new \subseteq InterfaceItem /\ IsFiniteSet(new)
      /\ \A x \in new : NamedInterface(x) /\ SharesKey(x.id, x.id)
      /\ PairwiseDistinct(new)
      /\ \A i \in Interfaces : \E x \in new : x.id.name = i
  BY SnapshotInterfacesFacts
<1> HIDE DEF new
<1>3. /\ \A z \in A : z \in old \/ (z \in new /\ z \in Brought(old, new))
      /\ \A x \in new : \E z \in A : z.id = x.id
      /\ PairwiseDistinct(A) /\ IsFiniteSet(A)
  BY <1>1, <1>2, AppliedFacts
<1> HIDE DEF A
<1>4. InterfacesFiled(A)
  BY <1>1, <1>2, <1>3 DEF InterfacesFiled
<1>5. AllFiled(A)
  BY <1>2, <1>3 DEF AllFiled
<1>6. \A y \in A : y \in old \/ y \in Brought(old, new)
  BY <1>3
<1>7. QED
  BY <1>4, <1>5, <1>6 DEF A, new

\* The poller works from dumps of the kernel, and leaves the database in order.
LEMMA PollerStep ==
  ASSUME IInv, Poller
  PROVE  IInv'
<1>1. KernelOK /\ QueueOK /\ DatabaseOK /\ TasksOK
  BY DEF IInv
<1>2. /\ LinksFiled(links) /\ InterfacesFiled(interfaces)
      /\ polled \in BOOLEAN /\ (polled => AllFiled(interfaces))
  BY <1>1 DEF DatabaseOK
<1>3. \A d : LinkDump(d) => LinkDump(d)'
  OBVIOUS
<1>4. ASSUME NEW full, NEW dump, Answer(full, dump)
      PROVE  faults' \in Nat /\ faults' <= MaxFaults
  BY <1>1, <1>4, ConfigurationAssumption DEF Answer, KernelOK
<1>5. ASSUME UNCHANGED <<kernel, fresh, changes, queue>>, faults' \in Nat, faults' <= MaxFaults
      PROVE  KernelOK' /\ QueueOK'
  BY <1>1, <1>5 DEF KernelOK, QueueOK
<1>6. ASSUME UNCHANGED <<links, interfaces, polled>>
      PROVE  DatabaseOK'
  BY <1>2, <1>6 DEF DatabaseOK
<1>7. ASSUME UNCHANGED <<interfaces, listener>>,
             \/ poll'.pc \in {"idle", "notify"}
             \/ poll'.pc = "addresses" /\ LinkDump(poll'.links)
             \/ poll'.pc = "apply" /\ LinkDump(poll'.links) /\ AddressDump(poll'.addrs)
      PROVE  TasksOK'
  BY <1>1, <1>7 DEF TasksOK
<1>8. ASSUME DumpLinks PROVE IInv'
  <2>1. PICK dump \in SUBSET {[index |-> kernel[d].index, device |-> d, state |-> kernel[d].state] :
                                d \in Present} :
          /\ \E full : Answer(full, dump)
          /\ poll' = [pc |-> "addresses", links |-> dump]
          /\ UNCHANGED <<kernel, fresh, queue, changes, links, interfaces, listener, polled>>
    BY <1>8 DEF DumpLinks
  <2>2. LinkDump(dump)
    BY <1>1, <2>1, LinksDumped
  <2>3. poll'.pc = "addresses" /\ poll'.links = dump
    BY <2>1
  <2>4. KernelOK' /\ QueueOK' /\ DatabaseOK' /\ TasksOK'
    BY <1>4, <1>5, <1>6, <1>7, <2>1, <2>2, <2>3
  <2>5. QED
    BY <2>4 DEF IInv
<1>9. ASSUME DumpAddresses PROVE IInv'
  <2>1. PICK dump \in SUBSET UNION {{[index |-> kernel[d].index, addr |-> a] : a \in kernel[d].addrs} :
                                     d \in Present} :
          /\ \E full : Answer(full, dump)
          /\ poll' = [pc |-> "apply", links |-> poll.links, addrs |-> dump]
          /\ UNCHANGED <<kernel, fresh, queue, changes, links, interfaces, listener, polled>>
    BY <1>9 DEF DumpAddresses
  <2>2. \A d \in Present : kernel[d] \in DeviceState
    BY <1>1 DEF KernelOK, Present
  <2>3. AddressDump(dump)
    BY <2>1, <2>2 DEF AddressDump, DeviceState
  <2>4. poll.pc = "addresses" /\ LinkDump(poll.links)
    BY <1>1, <1>9 DEF DumpAddresses, TasksOK
  <2>5. poll'.pc = "apply" /\ poll'.links = poll.links /\ poll'.addrs = dump
    BY <2>1
  <2>6. KernelOK' /\ QueueOK' /\ DatabaseOK' /\ TasksOK'
    BY <1>4, <1>5, <1>6, <1>7, <2>1, <2>3, <2>4, <2>5
  <2>7. QED
    BY <2>6 DEF IInv
<1>10. ASSUME PollFails PROVE IInv'
  <2>1. /\ faults > 0 /\ faults' = faults - 1 /\ poll' = PollIdle
        /\ UNCHANGED <<kernel, fresh, queue, changes, links, interfaces, listener, polled>>
    BY <1>10 DEF PollFails
  <2>2. faults' \in Nat /\ faults' <= MaxFaults /\ poll'.pc = "idle"
    BY <1>1, <2>1, ConfigurationAssumption DEF KernelOK, PollIdle
  <2>3. KernelOK' /\ QueueOK' /\ DatabaseOK' /\ TasksOK'
    BY <1>5, <1>6, <1>7, <2>1, <2>2
  <2>4. QED
    BY <2>3 DEF IInv
<1>11. ASSUME ApplyPoll PROVE IInv'
  <2>1. /\ poll.pc = "apply" /\ LockFree
        /\ links' = Applied(links, SnapshotLinks(poll.links))
        /\ interfaces' = Applied(interfaces, SnapshotInterfaces(poll.links, poll.addrs))
        /\ poll'.pc = "notify" /\ polled' = TRUE /\ UNCHANGED <<environment, listener>>
    BY <1>11 DEF ApplyPoll
  <2>2. LinkDump(poll.links) /\ listener.pc = "idle"
    BY <1>1, <2>1 DEF TasksOK, LockFree, Idle
  <2>3. LinksFiled(links')
    BY <1>2, <2>1, <2>2, LinksApplied
  <2>4. InterfacesFiled(interfaces') /\ AllFiled(interfaces')
    BY <1>2, <2>1, <2>2, InterfacesApplied
  <2>5. DatabaseOK'
    BY <2>1, <2>3, <2>4 DEF DatabaseOK
  <2>6. TasksOK'
    BY <1>1, <2>1, <2>2 DEF TasksOK
  <2>7. KernelOK' /\ QueueOK'
    BY <1>1, <2>1 DEF KernelOK, QueueOK, environment
  <2>8. QED
    BY <2>5, <2>6, <2>7 DEF IInv
<1>12. ASSUME NotifyPoll PROVE IInv'
  <2>1. poll'.pc = "idle" /\ UNCHANGED <<environment, links, interfaces, listener, polled>>
    BY <1>12 DEF NotifyPoll, PollIdle
  <2>2. KernelOK' /\ QueueOK'
    BY <1>1, <2>1 DEF KernelOK, QueueOK, environment
  <2>3. DatabaseOK' /\ TasksOK'
    BY <1>6, <1>7, <2>1
  <2>4. QED
    BY <2>2, <2>3 DEF IInv
<1>13. QED
  BY <1>8, <1>9, <1>10, <1>11, <1>12 DEF Poller

\* The end of a hold period changes no item but in that.
LEMMA HoldStep ==
  ASSUME IInv, HoldExpires
  PROVE  IInv'
<1>1. KernelOK /\ QueueOK /\ DatabaseOK /\ TasksOK
  BY DEF IInv
<1>2. /\ LinksFiled(links) /\ InterfacesFiled(interfaces)
      /\ polled \in BOOLEAN /\ (polled => AllFiled(interfaces))
  BY <1>1 DEF DatabaseOK
<1>3. UNCHANGED <<environment, listener, poll, polled>>
  BY DEF HoldExpires
<1>4. KernelOK' /\ QueueOK'
  BY <1>1, <1>3 DEF KernelOK, QueueOK, environment
<1>5. ASSUME NEW S, LinksFiled(S), NEW T \in Expire(S) PROVE LinksFiled(T)
  <2>1. /\ S \subseteq LinkItem /\ IsFiniteSet(S) /\ PairwiseDistinct(S)
        /\ \A x \in S : NamedLink(x)
    BY <1>5 DEF LinksFiled
  <2>2. \A x \in S : x = [id |-> x.id, status |-> x.status, held |-> x.held]
    BY <2>1 DEF LinkItem
  <2>3. /\ \A y \in T : \E x \in S : y.id = x.id /\ y.status = x.status
        /\ \A y \in T : y \in S \/ \E x \in S : y = [x EXCEPT !.held = FALSE]
        /\ PairwiseDistinct(T) /\ IsFiniteSet(T)
    BY <2>1, <2>2, ExpireFacts
  <2>4. \A x \in LinkItem : [x EXCEPT !.held = FALSE] \in LinkItem
    BY DEF LinkItem
  <2>5. T \subseteq LinkItem
    BY <2>1, <2>3, <2>4
  <2>6. \A y \in T : NamedLink(y)
    BY <2>1, <2>3 DEF NamedLink
  <2>7. QED
    BY <2>3, <2>5, <2>6 DEF LinksFiled
<1>6. ASSUME NEW S, InterfacesFiled(S), NEW T \in Expire(S)
      PROVE  /\ InterfacesFiled(T) /\ (AllFiled(S) => AllFiled(T))
             /\ \A x \in S : \E y \in T : y.id = x.id
  <2>1. /\ S \subseteq InterfaceItem /\ IsFiniteSet(S) /\ PairwiseDistinct(S)
        /\ \A x \in S : NamedInterface(x)
    BY <1>6 DEF InterfacesFiled
  <2>2. \A x \in S : x = [id |-> x.id, status |-> x.status, held |-> x.held]
    BY <2>1 DEF InterfaceItem
  <2>3. /\ \A y \in T : \E x \in S : y.id = x.id /\ y.status = x.status
        /\ \A y \in T : y \in S \/ \E x \in S : y = [x EXCEPT !.held = FALSE]
        /\ \A x \in S : \E y \in T : y.id = x.id /\ y.status = x.status
        /\ PairwiseDistinct(T) /\ IsFiniteSet(T)
    BY <2>1, <2>2, ExpireFacts
  <2>4. \A x \in InterfaceItem : [x EXCEPT !.held = FALSE] \in InterfaceItem
    BY DEF InterfaceItem
  <2>5. T \subseteq InterfaceItem
    BY <2>1, <2>3, <2>4
  <2>6. \A y \in T : NamedInterface(y)
    BY <2>1, <2>3 DEF NamedInterface
  <2>7. QED
    BY <2>3, <2>5, <2>6 DEF InterfacesFiled, AllFiled
<1>7. CASE links' \in Expire(links) /\ UNCHANGED interfaces
  <2>1. LinksFiled(links')
    BY <1>2, <1>5, <1>7
  <2>2. DatabaseOK' /\ TasksOK'
    BY <1>1, <1>2, <1>3, <1>7, <2>1 DEF DatabaseOK, TasksOK
  <2>3. QED
    BY <1>4, <2>2 DEF IInv
<1>8. CASE interfaces' \in Expire(interfaces) /\ UNCHANGED links
  <2>1. /\ InterfacesFiled(interfaces') /\ (AllFiled(interfaces) => AllFiled(interfaces'))
        /\ \A x \in interfaces : \E y \in interfaces' : y.id = x.id
    BY <1>2, <1>6, <1>8
  <2>2. DatabaseOK'
    BY <1>2, <1>3, <1>8, <2>1 DEF DatabaseOK
  <2>3. TasksOK'
    BY <1>1, <1>3, <2>1 DEF TasksOK
  <2>4. QED
    BY <1>4, <2>2, <2>3 DEF IInv
<1>9. QED
  BY <1>7, <1>8 DEF HoldExpires

-----------------------------------------------------------------------------
(* The invariant. *)

\* At first the devices of the boot are there, and nothing is in the database.
LEMMA Initially ==
  ASSUME Init
  PROVE  IInv
<1>1. /\ Boot \in Seq(Devices) /\ \A p, q \in DOMAIN Boot : Boot[p] = Boot[q] => p = q
      /\ MaxChanges \in Nat /\ MaxFaults \in Nat
  BY ConfigurationAssumption
<1>2. /\ kernel = [d \in Range(Boot) |->
                     [index |-> CHOOSE p \in DOMAIN Boot : Boot[p] = d,
                      state |-> "Down", addrs |-> {}]]
      /\ fresh = Len(Boot) + 1 /\ queue = <<>> /\ changes = MaxChanges /\ faults = MaxFaults
      /\ links = {} /\ interfaces = {} /\ listener = Idle /\ poll = PollIdle /\ polled = FALSE
  BY DEF Init
<1>3. KernelOK
  <2> DEFINE at(d) == CHOOSE p \in DOMAIN Boot : Boot[p] = d
  <2>1. /\ Range(Boot) \subseteq Devices /\ Len(Boot) \in Nat /\ DOMAIN Boot = 1 .. Len(Boot)
        /\ \A d \in Range(Boot) : \E p \in DOMAIN Boot : Boot[p] = d
    BY <1>1 DEF Range
  <2>2. \A d \in Range(Boot) : at(d) \in DOMAIN Boot /\ Boot[at(d)] = d
    BY <2>1
  <2>3. kernel = [d \in Range(Boot) |-> [index |-> at(d), state |-> "Down", addrs |-> {}]]
    BY <1>2
  <2> HIDE DEF at
  <2>4. /\ DOMAIN kernel = Range(Boot)
        /\ \A d \in DOMAIN kernel : kernel[d] = [index |-> at(d), state |-> "Down", addrs |-> {}]
    BY <2>3
  <2>5. \A d \in DOMAIN kernel : kernel[d] \in DeviceState /\ kernel[d].index = at(d)
    BY <2>1, <2>2, <2>4 DEF DeviceState
  <2>6. kernel \in [DOMAIN kernel -> DeviceState]
    BY <2>3, <2>5
  <2>7. \A d \in DOMAIN kernel : 1 <= kernel[d].index /\ kernel[d].index < fresh
    BY <1>2, <2>1, <2>2, <2>4, <2>5
  <2>8. \A d, e \in DOMAIN kernel : kernel[d].index = kernel[e].index => d = e
    BY <2>2, <2>4, <2>5
  <2>9. QED
    BY <1>1, <1>2, <2>1, <2>4, <2>6, <2>7, <2>8 DEF KernelOK
<1>4. QueueOK
  BY <1>1, <1>2 DEF QueueOK
<1>5. DatabaseOK
  <2>1. IsFiniteSet({})
    BY FS_EmptySet
  <2>2. QED
    BY <1>2, <2>1 DEF DatabaseOK, LinksFiled, InterfacesFiled, PairwiseDistinct
<1>6. TasksOK
  BY <1>2 DEF TasksOK, Idle, PollIdle
<1>7. QED
  BY <1>3, <1>4, <1>5, <1>6 DEF IInv

\* Every step keeps the invariant.
LEMMA Stepwise ==
  ASSUME IInv, [Next]_vars
  PROVE  IInv'
<1>1. CASE Kernel
  <2>1. KernelOK /\ QueueOK /\ DatabaseOK /\ TasksOK
    BY DEF IInv
  <2>2. KernelOK' /\ QueueOK' /\ UNCHANGED <<links, interfaces, listener, poll, polled>>
    BY <1>1, <2>1, KernelStep
  <2>3. DatabaseOK' /\ TasksOK'
    BY <2>1, <2>2 DEF DatabaseOK, TasksOK
  <2>4. QED
    BY <2>2, <2>3 DEF IInv
<1>2. CASE UNCHANGED vars
  BY <1>2 DEF vars, IInv, KernelOK, QueueOK, DatabaseOK, TasksOK
<1>3. QED
  BY <1>1, <1>2, ListenerStep, PollerStep, HoldStep DEF Next

\* The invariant holds in every state.
LEMMA Invariance == Spec => []IInv
<1>1. Init => IInv
  BY Initially
<1>2. IInv /\ [Next]_vars => IInv'
  BY Stepwise
<1>3. QED
  BY <1>1, <1>2, PTL DEF Spec

\* Every variable of the interface manager has its type: message_received and
\* try_poll only ever file well-formed items.
THEOREM TypeCorrect == Spec => []TypeOK
<1>1. IInv => TypeOK
  <2> SUFFICES ASSUME IInv PROVE TypeOK
    OBVIOUS
  <2>1. KernelOK /\ QueueOK /\ DatabaseOK /\ TasksOK /\ MaxChanges \in Nat /\ MaxFaults \in Nat
    BY ConfigurationAssumption DEF IInv
  <2>2. /\ Present \subseteq Devices
        /\ \A d \in Present :
             kernel[d] \in [index : 1 .. fresh - 1, state : {"Up", "Down"}, addrs : SUBSET Addresses]
    <3>1. ASSUME NEW d \in DOMAIN kernel
          PROVE  kernel[d] \in [index : 1 .. fresh - 1, state : {"Up", "Down"},
                                addrs : SUBSET Addresses]
      <4>1. /\ kernel[d] \in DeviceState /\ fresh \in Nat
            /\ 1 <= kernel[d].index /\ kernel[d].index < fresh
        BY <2>1 DEF KernelOK
      <4>2. kernel[d].index \in Nat
        BY <4>1 DEF DeviceState
      <4>3. kernel[d].index \in 1 .. fresh - 1
        BY <4>1, <4>2
      <4>4. QED
        BY <4>1, <4>3 DEF DeviceState
    <3>2. QED
      BY <2>1, <3>1 DEF Present, KernelOK
  <2>3. changes \in Nat /\ faults \in 0 .. MaxFaults
    BY <2>1 DEF KernelOK
  <2>4. Len(queue) \in Nat /\ Len(queue) + changes <= MaxChanges
    BY <2>1 DEF QueueOK
  <2>5. changes \in 0 .. MaxChanges /\ Len(queue) \in 0 .. MaxChanges
    BY <2>1, <2>3, <2>4
  <2>6. links \subseteq LinkItem /\ interfaces \subseteq InterfaceItem /\ polled \in BOOLEAN
    BY <2>1 DEF DatabaseOK, LinksFiled, InterfacesFiled
  <2>7. /\ listener.pc \in {"idle", "tellLink", "tellInterface"}
        /\ poll.pc \in {"idle", "addresses", "apply", "notify"}
    BY <2>1 DEF TasksOK
  <2>8. QED
    BY <2>2, <2>3, <2>5, <2>6, <2>7 DEF TypeOK
<1>2. QED
  BY <1>1, Invariance, PTL

\* No two links and no two interfaces of the database share a name, a device or
\* an index, whatever the messages and the snapshots that race with them bring:
\* the conflict a hash map would settle by its order never comes up.
THEOREM NeverInConflict == Spec => []NoConflicts
<1>1. IInv => NoConflicts
  BY DEF IInv, DatabaseOK, LinksFiled, InterfacesFiled, NoConflicts
<1>2. QED
  BY <1>1, Invariance, PTL

-----------------------------------------------------------------------------
(* What a step may do. *)

\* The step in which a poll goes from apply to notify applies it.
LEMMA Applying ==
  ASSUME [Next]_vars, poll.pc = "apply", poll'.pc = "notify"
  PROVE  /\ links' = Applied(links, SnapshotLinks(poll.links))
         /\ interfaces' = Applied(interfaces, SnapshotInterfaces(poll.links, poll.addrs))
         /\ poll' = [pc |-> "notify",
                     news |-> NewsOf(links, SnapshotLinks(poll.links), interfaces,
                                     SnapshotInterfaces(poll.links, poll.addrs))]
<1>1. ~Kernel
  BY DEF Kernel, CreateDevice, ChangeState, DeleteDevice, RenameDevice, AddAddress, RemoveAddress,
         KernelChange
<1>2. ~Listener
  BY DEF Listener, NewLink, TellLink, TellInterface, DelLink, NewAddress, DelAddress, Receive
<1>3. ~HoldExpires /\ ~UNCHANGED vars
  BY DEF HoldExpires, vars
<1>4. ~DumpLinks /\ ~DumpAddresses /\ ~PollFails /\ ~NotifyPoll
  BY DEF DumpLinks, DumpAddresses, PollFails, NotifyPoll, PollIdle
<1>5. ApplyPoll
  BY <1>1, <1>2, <1>3, <1>4 DEF Next, Poller
<1>6. QED
  BY <1>5 DEF ApplyPoll

\* The steps that change the links.
LEMMA LinksChange ==
  ASSUME [Next]_vars
  PROVE  links' = links \/ NewLink \/ DelLink \/ ApplyPoll \/ links' \in Expire(links)
<1>1. CASE Kernel
  BY <1>1 DEF Kernel, CreateDevice, ChangeState, DeleteDevice, RenameDevice, AddAddress,
              RemoveAddress, KernelChange
<1>2. CASE Listener
  BY <1>2 DEF Listener, TellLink, TellInterface, NewAddress, DelAddress, Readdress
<1>3. CASE Poller
  BY <1>3 DEF Poller, DumpLinks, DumpAddresses, PollFails, NotifyPoll
<1>4. CASE HoldExpires \/ UNCHANGED vars
  BY <1>4 DEF HoldExpires, vars
<1>5. QED
  BY <1>1, <1>2, <1>3, <1>4 DEF Next

\* A held item is in place after the poll exactly if the snapshot has its identity.
LEMMA HeldApplied ==
  ASSUME NEW old, NEW snapshot, NEW y \in old, y.held
  PROVE  y \in Applied(old, snapshot) <=> \E x \in snapshot : x.id = y.id
<1>1. y \in Applied(old, snapshot) <=>
        \E x \in snapshot : y \in IF Kept(old, x) = {} THEN {x} ELSE Kept(old, x)
  BY DEF Applied
<1>2. \A x : y \in Kept(old, x) <=> y.id = x.id
  BY DEF Kept
<1>3. QED
  BY <1>1, <1>2

\* The identities a dump gives the links of a snapshot.
LEMMA LinkIdentities ==
  ASSUME NEW dump, LinkDump(dump), NEW x \in LinkItem, NamedLink(x)
  PROVE  (\E z \in SnapshotLinks(dump) : z.id = x.id) <=> Confirmed(dump, x.id)
<1> DEFINE LinkIds == [id : Nat \cup {None}, name : Links \cup {None}, device : Devices]
<1>1. \A z : z \in SnapshotLinks(dump) <=>
        \/ \E m \in dump : z = SeenLink(m)
        \/ \E n \in Links : z = MissingLink(n) /\ \A m \in dump : m.device # DeviceOf[n]
  BY DEF SnapshotLinks
<1>2. \A i, j \in LinkIds : i.id = j.id /\ i.name = j.name /\ i.device = j.device => i = j
  OBVIOUS
<1>3. \A z \in LinkItem : z.id \in LinkIds
  BY DEF LinkItem
<1>4. x.id.name = LinkName(x.id.device) /\ x.id.device \in Devices
  BY <1>3 DEF NamedLink
<1> HIDE DEF LinkIds
<1>5. ASSUME NEW m \in dump
      PROVE  /\ SeenLink(m).id \in LinkIds /\ m.index # None
             /\ SeenLink(m).id.id = m.index /\ SeenLink(m).id.device = m.device
             /\ SeenLink(m).id.name = LinkName(m.device)
  BY <1>3, DumpFacts, SeenFacts, Configured
<1>6. ASSUME NEW n \in Links
      PROVE  /\ MissingLink(n).id \in LinkIds
             /\ MissingLink(n).id.id = None /\ MissingLink(n).id.device = DeviceOf[n]
             /\ MissingLink(n).id.name = n /\ n # None
  BY <1>3, MissingFacts, Configured
<1>7. CASE x.id.id = None
  <2>1. Confirmed(dump, x.id) <=> x.id.name # None /\ \A m \in dump : m.device # x.id.device
    BY <1>7 DEF Confirmed
  <2>2. ASSUME NEW z \in SnapshotLinks(dump), z.id = x.id
        PROVE  x.id.name # None /\ \A m \in dump : m.device # x.id.device
    <3>1. PICK n \in Links : z = MissingLink(n) /\ \A m \in dump : m.device # DeviceOf[n]
      BY <1>1, <1>5, <1>7, <2>2
    <3>2. QED
      BY <1>6, <2>2, <3>1
  <2>3. ASSUME x.id.name # None, \A m \in dump : m.device # x.id.device
        PROVE  \E z \in SnapshotLinks(dump) : z.id = x.id
    <3>1. x.id.name \in Links /\ DeviceOf[x.id.name] = x.id.device
      BY <1>4, <2>3, LinkNames
    <3>2. MissingLink(x.id.name) \in SnapshotLinks(dump)
      BY <1>1, <2>3, <3>1
    <3>3. MissingLink(x.id.name).id = x.id
      BY <1>2, <1>3, <1>6, <1>7, <3>1
    <3>4. QED
      BY <3>2, <3>3
  <2>4. QED
    BY <2>1, <2>2, <2>3
<1>8. CASE x.id.id # None
  <2>1. Confirmed(dump, x.id) <=> \E m \in dump : m.index = x.id.id /\ m.device = x.id.device
    BY <1>8 DEF Confirmed
  <2>2. ASSUME NEW z \in SnapshotLinks(dump), z.id = x.id
        PROVE  \E m \in dump : m.index = x.id.id /\ m.device = x.id.device
    BY <1>1, <1>5, <1>6, <1>8, <2>2
  <2>3. ASSUME NEW m \in dump, m.index = x.id.id, m.device = x.id.device
        PROVE  \E z \in SnapshotLinks(dump) : z.id = x.id
    <3>1. SeenLink(m).id = x.id
      BY <1>2, <1>3, <1>4, <1>5, <2>3
    <3>2. QED
      BY <1>1, <3>1
  <2>4. QED
    BY <2>1, <2>2, <2>3
<1>9. QED
  BY <1>7, <1>8

\* And the interfaces: one without a configured name has to have an address.
LEMMA InterfaceIdentities ==
  ASSUME NEW dump, LinkDump(dump), NEW addrs, AddressDump(addrs),
         NEW y \in InterfaceItem, NamedInterface(y)
  PROVE  (\E z \in SnapshotInterfaces(dump, addrs) : z.id = y.id)
           <=> /\ Confirmed(dump, y.id)
               /\ y.id.name # None \/ \E r \in addrs : r.index = y.id.id
<1> DEFINE Ids == [id : Nat \cup {None}, name : Interfaces \cup {None},
                   device : Devices \cup {None}]
           Shown(m) == InterfaceName(m.device) # None \/ AddressesAt(addrs, m.index) # NoAddresses
           Addressed(index) == \E r \in addrs : r.index = index
<1>1. \A z : z \in SnapshotInterfaces(dump, addrs) <=>
        \/ \E m \in dump : z = InterfaceSeen(m, addrs) /\ Shown(m)
        \/ \E i \in Interfaces : /\ z = InterfaceMissing(i) /\ LinkOf[i] \in Links
                                 /\ \A m \in dump : m.device # DeviceOf[LinkOf[i]]
        \/ \E i \in Interfaces : z = InterfaceAstray(i) /\ LinkOf[i] \notin Links
  BY DEF SnapshotInterfaces, InterfaceSeen, InterfaceMissing, InterfaceAstray
<1>2. \A i, j \in Ids : i.id = j.id /\ i.name = j.name /\ i.device = j.device => i = j
  OBVIOUS
<1>3. \A z \in InterfaceItem : z.id \in Ids
  BY DEF InterfaceItem
<1>4. /\ y.id.device \in Devices \cup {None} /\ y.id.name \in Interfaces \cup {None}
      /\ y.id.device = None => y.id.name \in Interfaces /\ LinkOf[y.id.name] \notin Links
      /\ y.id.device # None => y.id.name = InterfaceName(y.id.device)
  BY <1>3 DEF NamedInterface
<1>5. ASSUME NEW m \in dump
      PROVE  /\ m.index \in Nat /\ m.index # None /\ m.device \in Devices /\ m.device # None
             /\ InterfaceSeen(m, addrs).id \in Ids
             /\ InterfaceSeen(m, addrs).id.id = m.index
             /\ InterfaceSeen(m, addrs).id.device = m.device
             /\ InterfaceSeen(m, addrs).id.name = InterfaceName(m.device)
  <2>1. m.index \in Nat /\ m.device \in Devices /\ m.state \in States
    BY DumpFacts
  <2>2. QED
    BY <1>3, <2>1, InterfaceItems, Configured
<1>6. ASSUME NEW i \in Interfaces
      PROVE  /\ i # None
             /\ LinkOf[i] \in Links =>
                  /\ InterfaceMissing(i).id \in Ids /\ InterfaceMissing(i).id.id = None
                  /\ InterfaceMissing(i).id.device = DeviceOf[LinkOf[i]]
                  /\ InterfaceMissing(i).id.name = i
             /\ LinkOf[i] \notin Links =>
                  /\ InterfaceAstray(i).id \in Ids /\ InterfaceAstray(i).id.id = None
                  /\ InterfaceAstray(i).id.device = None /\ InterfaceAstray(i).id.name = i
  BY <1>3, InterfaceItems, Configured
<1>7. ASSUME NEW index \in Nat
      PROVE  AddressesAt(addrs, index) # NoAddresses <=> Addressed(index)
  <2>1. ASSUME NEW r \in addrs, r.index = index PROVE AddressesAt(addrs, index) # NoAddresses
    <3>1. r.addr \in Addresses /\ [index |-> index, addr |-> r.addr] = r
      BY <2>1 DEF AddressDump
    <3>2. AddressesAt(addrs, index)[r.addr] = 1
      BY <3>1 DEF AddressesAt
    <3>3. NoAddresses[r.addr] = 0
      BY <3>1 DEF NoAddresses
    <3>4. QED
      BY <3>2, <3>3
  <2>2. ASSUME ~Addressed(index) PROVE AddressesAt(addrs, index) = NoAddresses
    <3>1. \A a \in Addresses : [index |-> index, addr |-> a] \notin addrs
      BY <2>2
    <3>2. QED
      BY <3>1 DEF AddressesAt, NoAddresses
  <2>3. QED
    BY <2>1, <2>2
<1>8. ~Addressed(None)
  BY Configured DEF AddressDump
<1>9. \A m \in dump : Shown(m) <=> InterfaceName(m.device) # None \/ Addressed(m.index)
  BY <1>5, <1>7
<1> HIDE DEF Ids, Shown, Addressed
<1>10. CASE y.id.id = None
  <2>1. Confirmed(dump, y.id) <=> y.id.name # None /\ \A m \in dump : m.device # y.id.device
    BY <1>10 DEF Confirmed
  <2>2. ASSUME NEW z \in SnapshotInterfaces(dump, addrs), z.id = y.id
        PROVE  y.id.name # None /\ \A m \in dump : m.device # y.id.device
    <3>1. ~ \E m \in dump : z = InterfaceSeen(m, addrs)
      BY <1>5, <1>10, <2>2
    <3>2. CASE \E i \in Interfaces : /\ z = InterfaceMissing(i) /\ LinkOf[i] \in Links
                                     /\ \A m \in dump : m.device # DeviceOf[LinkOf[i]]
      BY <1>6, <2>2, <3>2
    <3>3. CASE \E i \in Interfaces : z = InterfaceAstray(i) /\ LinkOf[i] \notin Links
      BY <1>5, <1>6, <2>2, <3>3
    <3>4. QED
      BY <1>1, <3>1, <3>2, <3>3
  <2>3. ASSUME y.id.name # None, \A m \in dump : m.device # y.id.device
        PROVE  \E z \in SnapshotInterfaces(dump, addrs) : z.id = y.id
    <3>1. CASE y.id.device = None
      <4>1. y.id.name \in Interfaces /\ LinkOf[y.id.name] \notin Links
        BY <1>4, <3>1
      <4>2. InterfaceAstray(y.id.name).id = y.id
        BY <1>2, <1>3, <1>6, <1>10, <3>1, <4>1
      <4>3. QED
        BY <1>1, <4>1, <4>2
    <3>2. CASE y.id.device # None
      <4>1. /\ y.id.name \in Interfaces /\ LinkOf[y.id.name] \in Links
            /\ DeviceOf[LinkOf[y.id.name]] = y.id.device
        BY <1>4, <2>3, <3>2, InterfaceNames
      <4>2. InterfaceMissing(y.id.name).id = y.id
        BY <1>2, <1>3, <1>6, <1>10, <4>1
      <4>3. InterfaceMissing(y.id.name) \in SnapshotInterfaces(dump, addrs)
        BY <1>1, <2>3, <4>1
      <4>4. QED
        BY <4>2, <4>3
    <3>3. QED
      BY <3>1, <3>2
  <2>4. QED
    BY <2>1, <2>2, <2>3
<1>11. CASE y.id.id # None
  <2>1. Confirmed(dump, y.id) <=> \E m \in dump : m.index = y.id.id /\ m.device = y.id.device
    BY <1>11 DEF Confirmed
  <2>2. ASSUME NEW z \in SnapshotInterfaces(dump, addrs), z.id = y.id
        PROVE  /\ \E m \in dump : m.index = y.id.id /\ m.device = y.id.device
               /\ y.id.name # None \/ Addressed(y.id.id)
    <3>1. PICK m \in dump : z = InterfaceSeen(m, addrs) /\ Shown(m)
      BY <1>1, <1>6, <1>11, <2>2
    <3>2. m.index = y.id.id /\ m.device = y.id.device /\ InterfaceName(m.device) = y.id.name
      BY <1>5, <2>2, <3>1
    <3>3. QED
      BY <1>9, <3>1, <3>2
  <2>3. ASSUME NEW m \in dump, m.index = y.id.id, m.device = y.id.device,
               y.id.name # None \/ Addressed(y.id.id)
        PROVE  \E z \in SnapshotInterfaces(dump, addrs) : z.id = y.id
    <3>1. y.id.name = InterfaceName(m.device)
      BY <1>4, <1>5, <2>3
    <3>2. InterfaceSeen(m, addrs).id = y.id
      BY <1>2, <1>3, <1>5, <2>3, <3>1
    <3>3. Shown(m)
      BY <1>9, <2>3, <3>1
    <3>4. QED
      BY <1>1, <3>2, <3>3
  <2>4. QED
    BY <2>1, <2>2, <2>3 DEF Addressed
<1>12. QED
  BY <1>10, <1>11

\* A poll that is applied keeps what is held under an identity its dump confirms.
LEMMA HeldStep ==
  ASSUME IInv, [Next]_vars
  PROVE  HeldKept
<1> SUFFICES ASSUME poll.pc = "apply", poll'.pc = "notify" PROVE HeldKept
  BY DEF HeldKept
<1>1. /\ LinksFiled(links) /\ InterfacesFiled(interfaces)
      /\ LinkDump(poll.links) /\ AddressDump(poll.addrs)
  BY DEF IInv, DatabaseOK, TasksOK
<1>2. /\ links' = Applied(links, SnapshotLinks(poll.links))
      /\ interfaces' = Applied(interfaces, SnapshotInterfaces(poll.links, poll.addrs))
  BY Applying
<1>3. ASSUME NEW x \in links, x.held
      PROVE  x \in links' <=> Confirmed(poll.links, x.id)
  <2>1. x \in LinkItem /\ NamedLink(x)
    BY <1>1 DEF LinksFiled
  <2>2. x \in links' <=> \E z \in SnapshotLinks(poll.links) : z.id = x.id
    BY <1>2, <1>3, HeldApplied
  <2>3. QED
    BY <1>1, <2>1, <2>2, LinkIdentities
<1>4. ASSUME NEW y \in interfaces, y.held
      PROVE  y \in interfaces' <=>
               /\ Confirmed(poll.links, y.id)
               /\ y.id.name # None \/ \E r \in poll.addrs : r.index = y.id.id
  <2>1. y \in InterfaceItem /\ NamedInterface(y)
    BY <1>1 DEF InterfacesFiled
  <2>2. y \in interfaces' <=>
          \E z \in SnapshotInterfaces(poll.links, poll.addrs) : z.id = y.id
    BY <1>2, <1>4, HeldApplied
  <2>3. QED
    BY <1>1, <2>1, <2>2, InterfaceIdentities
<1>5. QED
  BY <1>3, <1>4 DEF HeldKept

\* A link is listed under the name it is filed under.
LEMMA FiledIsListed ==
  ASSUME NEW S, LinksFiled(S), NEW n \in Links, NEW x \in S, x.id.name = n
  PROVE  x.status.name = n /\ x.status.device = DeviceOf[n] /\ x.id.device = DeviceOf[n]
<1>1. x \in LinkItem /\ NamedLink(x)
  BY DEF LinksFiled
<1>2. x.id.device \in Devices
  BY <1>1 DEF LinkItem
<1>3. LinkName(x.id.device) = n /\ n # None
  BY <1>1, Configured DEF NamedLink
<1>4. QED
  BY <1>1, <1>2, <1>3, LinkNames DEF NamedLink

\* A configured link stays listed, but for a device with another name.
LEMMA ListedStep ==
  ASSUME IInv, [Next]_vars
  PROVE  LinksStayListed
<1>1. LinksFiled(links) /\ KernelOK /\ QueueOK /\ TasksOK
  BY DEF IInv, DatabaseOK
<1>2. LinksFiled(links')
  BY Stepwise DEF IInv, DatabaseOK
<1>3. ASSUME NEW n \in Links, \E x \in links' : x.id.name = n PROVE LinkListed(n)'
  BY <1>2, <1>3, FiledIsListed DEF LinkListed
<1>4. ASSUME NEW n \in Links, poll.pc = "apply", poll'.pc = "notify" PROVE LinkListed(n)'
  <2>1. LinkDump(poll.links) /\ links' = Applied(links, SnapshotLinks(poll.links))
    BY <1>1, <1>4, Applying DEF TasksOK
  <2>2. QED
    BY <1>1, <1>3, <2>1, LinksApplied
<1>5. ASSUME NEW n \in Links, LinkListed(n) PROVE LinkListed(n)' \/ HeardRenamed(n)
  <2>1. PICK x \in links : x.id.name = n
    BY <1>5 DEF LinkListed
  <2>2. x \in LinkItem /\ x.id.device = DeviceOf[n] /\ n # None
    BY <1>1, <2>1, FiledIsListed, Configured DEF LinksFiled
  <2>3. CASE links' = links
    BY <1>3, <2>1, <2>3
  <2>4. CASE NewLink
    <3> DEFINE m == Head(queue)
    <3>1. /\ Receive("NewLink") /\ links' = PutItem(links, SeenLink(m)) /\ listener'.pc = "tellLink"
      BY <2>4 DEF NewLink
    <3>2. m \in LinkMulticast /\ listener = Idle
      BY <1>1, <3>1, Received
    <3>3. m.index \in Nat /\ m.device \in Devices /\ m.state \in States /\ m.device # None
      BY <3>2, Configured DEF LinkMulticast, States
    <3>4. m = Head(queue)
      OBVIOUS
    <3> HIDE DEF m
    <3>5. /\ SeenLink(m).id.id = m.index /\ SeenLink(m).id.device = m.device
          /\ SeenLink(m).id.name = LinkName(m.device)
      BY <3>3, SeenFacts
    <3>6. CASE m.device = DeviceOf[n]
      <4>1. SeenLink(m) \in links' /\ SeenLink(m).id.name = n
        BY <3>1, <3>5, <3>6, LinkNames, PutFacts
      <4>2. QED
        BY <1>3, <4>1
    <3>7. CASE m.device # DeviceOf[n] /\ x.id.id = m.index
      BY <2>1, <3>1, <3>2, <3>4, <3>7 DEF HeardRenamed
    <3>8. CASE m.device # DeviceOf[n] /\ x.id.id # m.index
      <4>1. LinkName(m.device) # n
        BY <2>2, <3>3, <3>8, LinkNames
      <4>2. ~SharesKey(SeenLink(m).id, x.id)
        BY <2>1, <2>2, <3>5, <3>8, <4>1, SharedKeys
      <4>3. x \in links'
        BY <3>1, <4>2, PutFacts
      <4>4. QED
        BY <1>3, <2>1, <4>3
    <3>9. QED
      BY <3>6, <3>7, <3>8
  <2>5. CASE DelLink
    <3> DEFINE m == Head(queue)
    <3>1. /\ Receive("DelLink")
          /\ links' = IF LinkName(m.device) # None THEN PutItem(links, DeletedLink(m))
                                                   ELSE DropItems(links, DeletedLink(m).id)
      BY <2>5 DEF DelLink, DeletedLink
    <3>2. m \in LinkMulticast
      BY <1>1, <3>1, Received
    <3>3. m.index \in Nat /\ m.device \in Devices /\ m.state \in States /\ m.device # None
      BY <3>2, Configured DEF LinkMulticast, States
    <3> HIDE DEF m
    <3>4. /\ DeletedLink(m).id.id = None /\ DeletedLink(m).id.device = m.device
          /\ DeletedLink(m).id.name = LinkName(m.device)
      BY <3>3, DeletedFacts
    <3>5. CASE m.device = DeviceOf[n]
      <4>1. LinkName(m.device) = n
        BY <3>5, LinkNames
      <4>2. DeletedLink(m) \in links'
        BY <2>2, <3>1, <4>1, PutFacts
      <4>3. QED
        BY <1>3, <3>4, <4>1, <4>2
    <3>6. CASE m.device # DeviceOf[n]
      <4>1. LinkName(m.device) # n
        BY <2>2, <3>3, <3>6, LinkNames
      <4>2. ~SharesKey(DeletedLink(m).id, x.id)
        BY <2>1, <2>2, <3>4, <3>6, <4>1, SharedKeys
      <4>3. x \in links'
        BY <3>1, <4>2, PutFacts
      <4>4. QED
        BY <1>3, <2>1, <4>3
    <3>7. QED
      BY <3>5, <3>6
  <2>6. CASE ApplyPoll
    <3>1. poll.pc = "apply" /\ poll'.pc = "notify"
      BY <2>6 DEF ApplyPoll
    <3>2. QED
      BY <1>4, <3>1
  <2>7. CASE links' \in Expire(links)
    <3>1. \A z \in links : z = [id |-> z.id, status |-> z.status, held |-> z.held]
      BY <1>1 DEF LinksFiled, LinkItem
    <3>2. \A z \in links : \E y \in links' : y.id = z.id /\ y.status = z.status
      BY <2>7, <3>1, ExpireFacts
    <3>3. QED
      BY <1>3, <2>1, <3>2
  <2>8. links' = links \/ NewLink \/ DelLink \/ ApplyPoll \/ links' \in Expire(links)
    BY LinksChange
  <2>9. QED
    BY <2>3, <2>4, <2>5, <2>6, <2>7, <2>8
<1>6. QED
  BY <1>4, <1>5 DEF LinksStayListed

\* The steps that change the interfaces.
LEMMA InterfacesChange ==
  ASSUME [Next]_vars
  PROVE  \/ interfaces' = interfaces \/ TellLink \/ DelLink \/ NewAddress \/ DelAddress
         \/ ApplyPoll \/ interfaces' \in Expire(interfaces)
<1>1. CASE Kernel
  BY <1>1 DEF Kernel, CreateDevice, ChangeState, DeleteDevice, RenameDevice, AddAddress,
              RemoveAddress, KernelChange
<1>2. CASE Listener
  BY <1>2 DEF Listener, NewLink, TellInterface
<1>3. CASE Poller
  BY <1>3 DEF Poller, DumpLinks, DumpAddresses, PollFails, NotifyPoll
<1>4. CASE HoldExpires \/ UNCHANGED vars
  BY <1>4 DEF HoldExpires, vars
<1>5. QED
  BY <1>1, <1>2, <1>3, <1>4 DEF Next

\* What a poll brings is among its news.
LEMMA BroughtIsNews ==
  ASSUME NEW oldLinks, IsFiniteSet(oldLinks), NEW newLinks, IsFiniteSet(newLinks),
         NEW oldInterfaces, IsFiniteSet(oldInterfaces), NEW newInterfaces, IsFiniteSet(newInterfaces)
  PROVE  LET news == NewsOf(oldLinks, newLinks, oldInterfaces, newInterfaces)
         IN  /\ \A x \in Brought(oldLinks, newLinks) : LinkNews(x.status) \in Range(news)
             /\ \A y \in Brought(oldInterfaces, newInterfaces) : InterfaceNews(y.status) \in Range(news)
<1> DEFINE GL == Gone(oldLinks, newLinks)
           BL == Brought(oldLinks, newLinks)
           GI == Gone(oldInterfaces, newInterfaces)
           BI == Brought(oldInterfaces, newInterfaces)
           a == {LinkNews(y.status) : y \in GL}
           b == {LinkNews(x.status) : x \in BL}
           c == {InterfaceNews([y.status EXCEPT !.link.state = "NotFound"]) : y \in GI}
           d == {InterfaceNews(x.status) : x \in BI}
           q == SetToSeq(a)
           r == SetToSeq(b)
           s == SetToSeq(c)
           t == SetToSeq(d)
<1>1. NewsOf(oldLinks, newLinks, oldInterfaces, newInterfaces) = q \o r \o s \o t
  BY DEF NewsOf
<1>2. IsFiniteSet(GL) /\ IsFiniteSet(BL) /\ IsFiniteSet(GI) /\ IsFiniteSet(BI)
  BY FS_Subset DEF Gone, Brought
<1>3. IsFiniteSet(a) /\ IsFiniteSet(b) /\ IsFiniteSet(c) /\ IsFiniteSet(d)
  <2> DEFINE f == [y \in GL |-> LinkNews(y.status)]
             g == [x \in BL |-> LinkNews(x.status)]
             h == [y \in GI |-> InterfaceNews([y.status EXCEPT !.link.state = "NotFound"])]
             k == [x \in BI |-> InterfaceNews(x.status)]
  <2>1. a = {f[y] : y \in GL} /\ b = {g[x] : x \in BL} /\ c = {h[y] : y \in GI} /\ d = {k[x] : x \in BI}
    OBVIOUS
  <2> HIDE DEF f, g, h, k, GL, BL, GI, BI, a, b, c, d
  <2>2. QED
    BY <1>2, <2>1, FiniteImage
<1>4. /\ \A x \in BL : LinkNews(x.status) \in b
      /\ \A y \in BI : InterfaceNews(y.status) \in d
  OBVIOUS
<1> DEFINE N == a \cup b \cup c \cup d
<1>5. a \subseteq N /\ b \subseteq N /\ c \subseteq N /\ d \subseteq N
  OBVIOUS
<1> HIDE DEF GL, BL, GI, BI, a, b, c, d, N
<1>6. q \in Seq(N) /\ r \in Seq(N) /\ s \in Seq(N) /\ t \in Seq(N) /\ Range(r) = b /\ Range(t) = d
  <2>1. \A S : IsFiniteSet(S) => SetToSeq(S) \in Seq(S) /\ Range(SetToSeq(S)) = S
    BY SetToSeqFacts
  <2>2. q \in Seq(a) /\ r \in Seq(b) /\ s \in Seq(c) /\ t \in Seq(d) /\ Range(r) = b /\ Range(t) = d
    BY <1>3, <2>1
  <2> HIDE DEF q, r, s, t
  <2>3. QED
    BY <1>5, <2>2, WiderSeq
<1> HIDE DEF q, r, s, t
<1>7. \A u, v \in Seq(N) : /\ u \o v \in Seq(N)
                           /\ Range(u) \subseteq Range(u \o v) /\ Range(v) \subseteq Range(u \o v)
  BY RangeConcat
<1>8. q \o r \in Seq(N) /\ (q \o r) \o s \in Seq(N) /\ ((q \o r) \o s) \o t \in Seq(N)
  BY <1>6, <1>7
<1>9. /\ Range(r) \subseteq Range(q \o r) /\ Range(q \o r) \subseteq Range((q \o r) \o s)
      /\ Range((q \o r) \o s) \subseteq Range(((q \o r) \o s) \o t)
      /\ Range(t) \subseteq Range(((q \o r) \o s) \o t)
  BY <1>6, <1>7, <1>8
<1>10. b \subseteq Range(q \o r \o s \o t) /\ d \subseteq Range(q \o r \o s \o t)
  BY <1>6, <1>9
<1>11. QED
  BY <1>1, <1>4, <1>10 DEF BL, BI

\* What changes in the database is announced.
LEMMA AnnouncedStep ==
  ASSUME IInv, [Next]_vars
  PROVE  ChangesAnnounced
<1> DEFINE news == Pending(listener') \cup Pending(poll')
<1>1. /\ LinksFiled(links) /\ InterfacesFiled(interfaces) /\ KernelOK /\ QueueOK /\ TasksOK
      /\ IsFiniteSet(links) /\ IsFiniteSet(interfaces)
  BY DEF IInv, DatabaseOK, LinksFiled, InterfacesFiled
<1>2. \A task, u : task.news = u /\ "news" \in DOMAIN task => Pending(task) = Range(u)
  BY DEF Pending
<1>3. ASSUME poll.pc = "apply", poll'.pc = "notify"
      PROVE  /\ \A x \in links' : x \in links \/ LinkNews(x.status) \in news
             /\ \A y \in interfaces' : y \in interfaces \/ InterfaceNews(y.status) \in news
  <2> DEFINE newLinks == SnapshotLinks(poll.links)
             newInterfaces == SnapshotInterfaces(poll.links, poll.addrs)
             told == NewsOf(links, newLinks, interfaces, newInterfaces)
  <2>1. /\ LinkDump(poll.links) /\ links' = Applied(links, newLinks)
        /\ interfaces' = Applied(interfaces, newInterfaces)
        /\ poll' = [pc |-> "notify", news |-> told]
    BY <1>1, <1>3, Applying DEF TasksOK
  <2>2. IsFiniteSet(newLinks) /\ IsFiniteSet(newInterfaces)
    BY <2>1, SnapshotLinksFacts, SnapshotInterfacesFacts
  <2>3. /\ \A x \in links' : x \in links \/ x \in Brought(links, newLinks)
        /\ \A y \in interfaces' : y \in interfaces \/ y \in Brought(interfaces, newInterfaces)
    BY <1>1, <2>1, LinksApplied, InterfacesApplied
  <2> HIDE DEF newLinks, newInterfaces
  <2>4. /\ \A x \in Brought(links, newLinks) : LinkNews(x.status) \in Range(told)
        /\ \A y \in Brought(interfaces, newInterfaces) : InterfaceNews(y.status) \in Range(told)
    BY <1>1, <2>2, BroughtIsNews
  <2> HIDE DEF told
  <2>5. Pending(poll') = Range(told)
    BY <1>2, <2>1
  <2>6. QED
    BY <2>3, <2>4, <2>5
<1>4. ApplyPoll => poll.pc = "apply" /\ poll'.pc = "notify"
  BY DEF ApplyPoll
<1>5. \A z : Range(<<z>>) = {z}
  BY DEF Range
<1>6. ASSUME NEW x \in links', x.id.id # None, \A y \in links : y.status # x.status
      PROVE  LinkNews(x.status) \in news
  <2>1. CASE links' = links
    BY <1>6, <2>1
  <2>2. CASE NewLink
    <3> DEFINE s == SeenLink(Head(queue))
    <3>1. /\ links' = PutItem(links, s)
          /\ listener' = [pc |-> "tellLink", news |-> <<LinkNews(s.status)>>,
                          updated |-> Relinked(Head(queue), Head(queue).index, s.status)]
      BY <2>2 DEF NewLink
    <3> HIDE DEF s
    <3>2. x = s
      BY <1>6, <3>1, PutFacts
    <3>3. Pending(listener') = Range(<<LinkNews(s.status)>>)
      BY <1>2, <3>1
    <3>4. QED
      BY <1>5, <3>2, <3>3
  <2>3. CASE DelLink
    <3> DEFINE m == Head(queue)
    <3>1. /\ Receive("DelLink")
          /\ links' = PutItem(links, DeletedLink(m)) \/ links' = DropItems(links, DeletedLink(m).id)
      BY <2>3 DEF DelLink, DeletedLink
    <3>2. m \in LinkMulticast
      BY <1>1, <3>1, Received
    <3>3. m.device \in Devices /\ m.state \in States
      BY <3>2 DEF LinkMulticast, States
    <3> HIDE DEF m
    <3>4. DeletedLink(m).id.id = None
      BY <3>3, DeletedFacts
    <3>5. x \in links \/ x = DeletedLink(m)
      BY <3>1, PutFacts
    <3>6. QED
      BY <1>6, <3>4, <3>5
  <2>4. CASE ApplyPoll
    BY <1>3, <1>4, <1>6, <2>4
  <2>5. CASE links' \in Expire(links)
    <3>1. \A z \in links : z = [id |-> z.id, status |-> z.status, held |-> z.held]
      BY <1>1 DEF LinksFiled, LinkItem
    <3>2. \A z \in links' : \E y \in links : z.id = y.id /\ z.status = y.status
      BY <2>5, <3>1, ExpireFacts
    <3>3. QED
      BY <1>6, <3>2
  <2>6. QED
    BY <2>1, <2>2, <2>3, <2>4, <2>5, LinksChange
<1>7. ASSUME NEW x \in interfaces', x.id.id # None,
             \A y \in interfaces : y.status.name # x.status.name \/ y.status.link # x.status.link
      PROVE  InterfaceNews(x.status) \in news
  <2>1. CASE interfaces' = interfaces
    BY <1>7, <2>1
  <2>2. CASE TellLink
    <3>1. CASE interfaces' = interfaces
      BY <1>7, <3>1
    <3>2. CASE \E y \in listener.updated :
                 /\ interfaces' = PutItem(interfaces, y)
                 /\ listener' = [pc |-> "tellInterface", news |-> <<InterfaceNews(y.status)>>]
      <4>1. PICK y \in listener.updated :
              /\ interfaces' = PutItem(interfaces, y)
              /\ listener' = [pc |-> "tellInterface", news |-> <<InterfaceNews(y.status)>>]
        BY <3>2
      <4>2. x = y
        BY <1>7, <4>1, PutFacts
      <4>3. Pending(listener') = Range(<<InterfaceNews(y.status)>>)
        BY <1>2, <4>1
      <4>4. QED
        BY <1>5, <4>2, <4>3
    <3>3. QED
      BY <2>2, <3>1, <3>2 DEF TellLink
  <2>3. CASE DelLink
    <3> DEFINE m == Head(queue)
               d == DeletedLink(m)
    <3>1. Receive("DelLink") /\ DelLinkInterface(m, d)
      BY <2>3 DEF DelLink, DeletedLink
    <3>2. m \in LinkMulticast
      BY <1>1, <3>1, Received
    <3>3. m.index \in Nat /\ m.device \in Devices /\ m.state \in States
      BY <3>2 DEF LinkMulticast, States
    <3> HIDE DEF m
    <3>4. d.status \in LinkOfInterface /\ d.status.device = m.device
      BY <3>3, DeletedFacts
    <3> HIDE DEF d
    <3>5. \A y \in Relinked(m, None, d.status) : y.id.id = None
      BY <1>1, <3>3, <3>4, RelinkedFacts
    <3>6. x \in interfaces \/ x \in Relinked(m, None, d.status)
      BY <3>1, PutFacts DEF DelLinkInterface
    <3>7. QED
      BY <1>7, <3>5, <3>6
  <2>4. CASE NewAddress \/ DelAddress
    <3>1. PICK type \in {"NewAddress", "DelAddress"}, change \in [Nat -> Nat] :
            Receive(type) /\ Readdress(Head(queue), change)
      BY <2>4, AddressMessages
    <3> DEFINE m == Head(queue)
    <3>2. m \in AddressMulticast /\ Readdress(m, change)
      BY <1>1, <3>1, Received
    <3> HIDE DEF m
    <3>3. m.addr \in Addresses
      BY <3>2 DEF AddressMulticast
    <3>4. \E z \in interfaces : x.status.name = z.status.name /\ x.status.link = z.status.link
      BY <1>1, <3>2, <3>3, Readdressed
    <3>5. QED
      BY <1>7, <3>4
  <2>5. CASE ApplyPoll
    BY <1>3, <1>4, <1>7, <2>5
  <2>6. CASE interfaces' \in Expire(interfaces)
    <3>1. \A z \in interfaces : z = [id |-> z.id, status |-> z.status, held |-> z.held]
      BY <1>1 DEF InterfacesFiled, InterfaceItem
    <3>2. \A z \in interfaces' : \E y \in interfaces : z.id = y.id /\ z.status = y.status
      BY <2>6, <3>1, ExpireFacts
    <3>3. QED
      BY <1>7, <3>2
  <2>7. QED
    BY <2>1, <2>2, <2>3, <2>4, <2>5, <2>6, InterfacesChange
<1>8. QED
  BY <1>6, <1>7 DEF ChangesAnnounced

-----------------------------------------------------------------------------
(* The theorems. *)

\* Whatever is applied, every configured interface is listed once a poll has
\* been, and no configured link goes but by a rename the listener hears of.
THEOREM ConfiguredStayListed == Spec => ConfiguredAlwaysListed
<1>1. IInv => (polled => \A i \in Interfaces : InterfaceListed(i))
  <2> SUFFICES ASSUME IInv, polled, NEW i \in Interfaces PROVE InterfaceListed(i)
    OBVIOUS
  <2>1. PICK y \in interfaces : y.id.name = i
    BY DEF IInv, DatabaseOK, AllFiled
  <2>2. y \in InterfaceItem /\ NamedInterface(y)
    BY DEF IInv, DatabaseOK, InterfacesFiled
  <2>3. LinkOf[i] \in Links => y.id.device = DeviceOf[LinkOf[i]]
    BY <2>1, <2>2, NamedFacts
  <2>4. QED
    BY <2>1, <2>2, <2>3 DEF InterfaceListed, NamedInterface
<1>2. IInv /\ [Next]_vars => [LinksStayListed]_vars
  BY ListedStep
<1>3. QED
  BY <1>1, <1>2, Invariance, PTL DEF Spec, ConfiguredAlwaysListed

\* try_poll keeps what is held under an identity its dump confirms, however old the
\* dump is, and undoes what is held under any other, DelLink's item or that of a device
\* made anew included.
THEOREM HeldItemsStay == Spec => HoldRespected
<1>1. IInv /\ [Next]_vars => [HeldKept]_vars
  BY HeldStep
<1>2. QED
  BY <1>1, Invariance, PTL DEF Spec, HoldRespected

\* Nothing a link has comes or changes in the database without being told.
THEOREM ChangesAreAnnounced == Spec => NewsPending
<1>1. IInv /\ [Next]_vars => [ChangesAnnounced]_vars
  BY AnnouncedStep
<1>2. QED
  BY <1>1, Invariance, PTL DEF Spec, NewsPending
=============================================================================
