----------------------------- MODULE ItemStore -----------------------------
(***************************************************************************)
(* What one table of InterfaceManagerDatabase promises: a set of status    *)
(* items no two of which share a key.  Writing an item displaces every     *)
(* item in conflict with it, and each call returns exactly the items it    *)
(* took out or looked up.  There are no indexes here and no numbering:     *)
(* StatusTable is shown to implement this module.                          *)
(***************************************************************************)
EXTENDS StatusItems

CONSTANTS
  Identity,       \* the identities callers construct
  DeviceIds,      \* kernel device indexes
  Status          \* the link or interface states an item can carry

VARIABLES
  store,          \* the items held
  reply           \* the items the last call returned

vars == <<store, reply>>

Item == [id : Identity, status : Status]

TypeOK == store \subseteq Item /\ reply \subseteq Item

Init == store = {} /\ reply = {}

\* set_*_status_item
Set(x) ==
  /\ reply' = Overlapping(store, x.id)
  /\ store' = PutItem(store, x)

\* remove_*_status_item
Remove(c) ==
  /\ reply' = Overlapping(store, c)
  /\ store' = DropItems(store, c)

\* take_*_status_items
Take == reply' = store /\ store' = {}

\* get_interface_status_item_by_device_index
GetByDeviceIndex(d) == reply' = {x \in store : x.id.id = d} /\ UNCHANGED store

\* list_*_status
List == reply' = store /\ UNCHANGED store

Next ==
  \/ \E x \in Item : Set(x)
  \/ \E c \in Identity : Remove(c)
  \/ \E d \in DeviceIds : GetByDeviceIndex(d)
  \/ Take
  \/ List

Spec == Init /\ [][Next]_vars

-----------------------------------------------------------------------------
\* No two stored items share a configured name, a device name or a device
\* index, whatever is written and removed in whatever order.
UniqueKeys == PairwiseDistinct(store)
=============================================================================
