------------------------ MODULE RegistrationManager -------------------------
(***************************************************************************)
(* ArcRegistrationManager (rusty-router-model/src/utils.rs): items are     *)
(* listed under random identifiers, each for as long as its Registration   *)
(* lives.  register needs the manager for itself (&mut self), one call at a *)
(* time; Registrations are dropped by their owners at any time.  Each step *)
(* is one critical section of the lock of the map.                         *)
(***************************************************************************)
EXTENDS Naturals

CONSTANTS
  Ids,    \* what Uuid::new_v4 may draw; few, so that the same one is drawn twice
  Items,  \* what is registered
  None

ASSUME RegistrationAssumption == None \notin Ids /\ None \notin Items

VARIABLES
  registrations, \* identifier -> its item
  holds,         \* item -> the identifier of the Registration its owner holds
  call,          \* the call of register that runs
  shared         \* items with an identifier that was drawn for another one, too

vars == <<registrations, holds, call, shared>>

Idle == [at |-> "idle", item |-> None, id |-> None]

Holders(id) == {i \in Items : holds[i] = id}

\* An identifier is drawn and the Registration made.
Register(i, id) ==
  /\ call = Idle /\ holds[i] = None
  /\ call' = [at |-> "drawn", item |-> i, id |-> id]
  /\ UNCHANGED <<registrations, holds, shared>>

\* perform_registration inserts the item, and register returns the Registration.
Insert ==
  /\ call.at = "drawn" /\ registrations[call.id] = None
  /\ registrations' = [registrations EXCEPT ![call.id] = call.item]
  /\ holds' = [holds EXCEPT ![call.item] = call.id]
  /\ shared' = (shared \ {call.item})
                 \cup (IF Holders(call.id) = {} THEN {} ELSE Holders(call.id) \cup {call.item})
  /\ call' = Idle

RefuseUnnoticed ==
  /\ call.at = "drawn" /\ registrations[call.id] # None
  /\ holds' = [holds EXCEPT ![call.item] = call.id]
  /\ call' = Idle
  /\ shared' = (shared \ {call.item}) \cup Holders(call.id)
  /\ UNCHANGED registrations

\* RetryableFailure: the identifier is in the map.
Refuse ==
  /\ call.at = "drawn" /\ registrations[call.id] # None
  /\ call' = [call EXCEPT !.at = "refused"]
  /\ shared' = shared \cup Holders(call.id)
  /\ UNCHANGED <<registrations, holds>>

\* Registration::drop
Removed(id) == registrations' = [registrations EXCEPT ![id] = None]

\* The error path of register drops the Registration it has made, which removes
\* the item the identifier belongs to.
DropUnregistered ==
  /\ call.at = "refused"
  /\ Removed(call.id)
  /\ call' = Idle
  /\ UNCHANGED <<holds, shared>>

DropRegistrationOnly(i) ==
  /\ holds[i] # None
  /\ holds' = [holds EXCEPT ![i] = None]
  /\ UNCHANGED <<registrations, call, shared>>

\* The owner of a Registration drops it.
DropRegistration(i) ==
  /\ holds[i] # None
  /\ Removed(holds[i])
  /\ holds' = [holds EXCEPT ![i] = None]
  /\ UNCHANGED <<call, shared>>

Init ==
  /\ registrations = [id \in Ids |-> None]
  /\ holds = [i \in Items |-> None]
  /\ call = Idle
  /\ shared = {}

Next ==
  \/ \E i \in Items, id \in Ids : Register(i, id)
  \/ Insert \/ Refuse \/ DropUnregistered
  \/ \E i \in Items : DropRegistration(i)

Spec == Init /\ [][Next]_vars

\* get_registered_items
RegisteredItems == {registrations[id] : id \in Ids} \ {None}

-----------------------------------------------------------------------------
(* What must hold. *)

Calls ==
  {Idle} \cup [at : {"drawn", "refused"}, item : Items, id : Ids]

TypeOK ==
  /\ registrations \in [Ids -> Items \cup {None}]
  /\ holds \in [Items -> Ids \cup {None}]
  /\ call \in Calls
  /\ shared \in SUBSET Items
  /\ call # Idle => holds[call.item] = None

\* What is listed is registered: its Registration lives and has that identifier.
\* After a collision there may be two Registrations with one identifier, yet an
\* item never stays behind when its own is dropped.
ListedAreHeld ==
  \A id \in Ids : registrations[id] # None => holds[registrations[id]] = id

\* An item is listed while its Registration lives, unless its identifier was drawn
\* for another item in that time.  Then it can vanish: at once, by the error path
\* of register, or when the other Registration is dropped.
HeldAreListed ==
  \A i \in Items \ shared : holds[i] # None => i \in RegisteredItems
=============================================================================
