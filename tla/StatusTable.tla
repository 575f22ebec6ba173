---------------------------- MODULE StatusTable ----------------------------
(***************************************************************************)
(* One table of InterfaceManagerDatabase (interface/database.rs).  The     *)
(* struct holds two of them with the same code, one for links and one for  *)
(* interfaces: a primary map from a running number to the item, and three  *)
(* maps from a key of the item's identity to that number.                  *)
(*                                                                         *)
(* remove_*_status_item calls itself for every item it takes out, so that  *)
(* the item's other keys go too.  Evict is the effect of that inner call   *)
(* on a table whose maps agree; StatusTableRecursion keeps the recursion   *)
(* as it is written and compares the two.                                  *)
(***************************************************************************)
EXTENDS StatusItems, Naturals, Functions

CONSTANTS
  Names,          \* configured names
  Devices,        \* Linux device names
  DeviceIds,      \* kernel device indexes
  Status,         \* the states an item can carry
  MaxIndex        \* bound on the running number (a u64 in the code)

ASSUME ConstantsAssumption ==
  /\ None \notin Names \cup Devices \cup DeviceIds
  /\ MaxIndex \in Nat

VARIABLES
  next,           \* network_link_index: the number of the next item
  index,          \* the three maps by_name, by_device_name, by_device_index
  items,          \* network_links: number -> item
  reply           \* the items the last call returned

vars == <<next, index, items, reply>>

-----------------------------------------------------------------------------
\* What InterfaceManager constructs: an index only beside its device, and
\* never an identity without any key.
Identity ==
  {c \in [name : Names \cup {None},
          device : Devices \cup {None},
          id : DeviceIds \cup {None}] :
     /\ c.id # None => c.device # None
     /\ c.name # None \/ c.device # None}

Item == [id : Identity, status : Status]

Key(k) == CASE k = "name" -> Names [] k = "device" -> Devices [] k = "id" -> DeviceIds

TypeOK ==
  /\ next \in Nat
  /\ DOMAIN index = Kind
  /\ \A k \in Kind : /\ DOMAIN index[k] \subseteq Key(k)
                     /\ \A key \in DOMAIN index[k] : index[k][key] \in Nat
  /\ DOMAIN items \subseteq Nat
  /\ \A i \in DOMAIN items : items[i] \in Item
  /\ reply \subseteq Item

-----------------------------------------------------------------------------
\* HashMap::insert and HashMap::remove.
Insert(f, x, v) == [y \in DOMAIN f \cup {x} |-> IF y = x THEN v ELSE f[y]]
Without(f, x)   == Restrict(f, DOMAIN f \ {x})

NoKeys  == [k \in Kind |-> [key \in {} |-> 0]]
NoItems == [i \in {} |-> 0]

Init == next = 0 /\ index = NoKeys /\ items = NoItems /\ reply = {}

\* The part of the table a removal works on, and what it has taken out.
Table == [index |-> index, items |-> items, deleted |-> {}]

EvictKeepsKeys(t, i) ==
  [index   |-> t.index,
   items   |-> Without(t.items, i),
   deleted |-> t.deleted \cup {t.items[i]}]

\* Take item i out, with the keys of its identity.
Evict(t, i) ==
  [index   |-> [k \in Kind |-> Without(t.index[k], t.items[i].id[k])],
   items   |-> Without(t.items, i),
   deleted |-> t.deleted \cup {t.items[i]}]

\* One of the three lookups of a removal: the entry of c's key of kind k goes,
\* and so does the item it leads to.
RemoveBy(t, k, c) ==
  IF c[k] = None \/ c[k] \notin DOMAIN t.index[k]
  THEN t
  ELSE LET i == t.index[k][c[k]]
           u == [index   |-> [t.index EXCEPT ![k] = Without(@, c[k])],
                 items   |-> t.items,
                 deleted |-> t.deleted]
       IN  IF i \in DOMAIN t.items THEN Evict(u, i) ELSE u

RemoveSkipsDevice(t, c) == RemoveBy(RemoveBy(t, "name", c), "id", c)

\* remove_link_status_item, remove_interface_status_item
RemoveStatusItem(t, c) ==
  RemoveBy(RemoveBy(RemoveBy(t, "name", c), "device", c), "id", c)

-----------------------------------------------------------------------------
IndexAllKeys(t, x, i) == [k \in Kind |-> Insert(t.index[k], x.id[k], i)]

IndexFirstKey(t, x, i) ==
  [k \in Kind |-> IF k = "id" /\ x.id.name # None THEN t.index[k]
                  ELSE IF x.id[k] = None THEN t.index[k]
                  ELSE Insert(t.index[k], x.id[k], i)]

\* The keys x has are entered in their maps.
IndexKeys(t, x, i) ==
  [k \in Kind |-> IF x.id[k] = None THEN t.index[k] ELSE Insert(t.index[k], x.id[k], i)]

\* set_link_status_item, set_interface_status_item
Set(x) ==
  LET t == RemoveStatusItem(Table, x.id) IN
  /\ next < MaxIndex
  /\ next' = next + 1
  /\ index' = IndexKeys(t, x, next)
  /\ items' = Insert(t.items, next, x)
  /\ reply' = t.deleted

\* remove_link_status_item, remove_interface_status_item, called on their own
Remove(c) ==
  LET t == RemoveStatusItem(Table, c) IN
  /\ index' = t.index
  /\ items' = t.items
  /\ reply' = t.deleted
  /\ UNCHANGED next

Stored == {items[i] : i \in DOMAIN items}

\* take_link_status_items, take_interface_status_items: numbering restarts
TakeForgetsDevices ==
  /\ next' = 0
  /\ index' = [NoKeys EXCEPT !["device"] = index["device"]]
  /\ items' = NoItems
  /\ reply' = Stored

Take ==
  /\ next' = 0
  /\ index' = NoKeys
  /\ items' = NoItems
  /\ reply' = Stored

\* get_interface_status_item_by_device_index
GetByDeviceIndex(d) ==
  /\ reply' = IF d \in DOMAIN index["id"] /\ index["id"][d] \in DOMAIN items
              THEN {items[index["id"][d]]}
              ELSE {}
  /\ UNCHANGED <<next, index, items>>

\* list_link_status, list_interface_status
List == reply' = Stored /\ UNCHANGED <<next, index, items>>

Next ==
  \/ \E x \in Item : Set(x)
  \/ \E c \in Identity : Remove(c)
  \/ Take
  \/ \E d \in DeviceIds : GetByDeviceIndex(d)
  \/ List

Spec == Init /\ [][Next]_vars

-----------------------------------------------------------------------------
\* A key is in its map exactly when a stored item has it, and leads to that
\* item: no removal leaves a dangling entry behind, and none is lost.  The
\* running number stays above every number in use, so an insertion never
\* overwrites an item (Take restarts it, which is safe only because it empties
\* the primary map in the same call).
IndexesAgree ==
  /\ \A k \in Kind :
       DOMAIN index[k] = {items[i].id[k] : i \in DOMAIN items} \ {None}
  /\ \A i \in DOMAIN items :
       /\ i < next
       /\ \A k \in Kind : items[i].id[k] # None => index[k][items[i].id[k]] = i

\* The table behaves as a set of items without conflicts: each call changes
\* that set, and returns, exactly what ItemStore says.
Store == INSTANCE ItemStore WITH store <- Stored
ImplementsItemStore == Store!Spec

\* No two stored items share a configured name, a device name or a device
\* index, although they are numbered and found through three separate maps.
UniqueKeys == Store!UniqueKeys
=============================================================================
