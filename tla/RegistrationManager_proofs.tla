--------------------- MODULE RegistrationManager_proofs ---------------------
(***************************************************************************)
(* ListedAreHeld and HeldAreListed hold for any items and identifiers.     *)
(*                                                                         *)
(* HeldAreListed is not inductive by itself.  The strengthening says that  *)
(* an item whose identifier was drawn once has it for itself, and that a   *)
(* call that has been refused will only hit items that are excused.        *)
(***************************************************************************)
EXTENDS RegistrationManager, TLAPS

Alone ==
  \A i \in Items \ shared : holds[i] # None =>
    /\ registrations[holds[i]] = i
    /\ \A j \in Items : holds[j] = holds[i] => j = i

RefusedIsExcused ==
  call.at = "refused" => \A i \in Items : holds[i] = call.id => i \in shared

IInv == TypeOK /\ ListedAreHeld /\ Alone /\ RefusedIsExcused

\* The type of the state is kept by every step.
LEMMA TypeStep == TypeOK /\ [Next]_vars => TypeOK'
<1> SUFFICES ASSUME TypeOK, [Next]_vars PROVE TypeOK'
  OBVIOUS
<1> USE RegistrationAssumption
<1>1. ASSUME NEW i \in Items, NEW id \in Ids, Register(i, id) PROVE TypeOK'
  BY <1>1 DEF Register, TypeOK, Calls, Idle
<1>2. CASE Insert
  BY <1>2 DEF Insert, TypeOK, Calls, Idle, Holders
<1>3. CASE Refuse
  BY <1>3 DEF Refuse, TypeOK, Calls, Idle, Holders
<1>4. CASE DropUnregistered
  BY <1>4 DEF DropUnregistered, Removed, TypeOK, Calls, Idle
<1>5. ASSUME NEW i \in Items, DropRegistration(i) PROVE TypeOK'
  BY <1>5 DEF DropRegistration, Removed, TypeOK, Calls, Idle
<1>6. CASE UNCHANGED vars
  BY <1>6 DEF vars, TypeOK, Calls, Idle
<1>7. QED
  BY <1>1, <1>2, <1>3, <1>4, <1>5, <1>6 DEF Next

\* The invariant is inductive.
LEMMA InvStep == IInv /\ [Next]_vars => IInv'
<1> SUFFICES ASSUME IInv, [Next]_vars PROVE IInv'
  OBVIOUS
<1> USE RegistrationAssumption DEF IInv
<1>0. TypeOK'
  BY TypeStep
<1>1. ASSUME NEW i \in Items, NEW id \in Ids, Register(i, id) PROVE IInv'
  BY <1>0, <1>1 DEF Register, ListedAreHeld, Alone, RefusedIsExcused
<1>2. CASE Insert
  <2>1. call.item \in Items /\ call.id \in Ids /\ holds[call.item] = None
    BY <1>2 DEF Insert, TypeOK, Calls, Idle
  <2>2. ListedAreHeld'
    BY <1>2, <2>1 DEF Insert, ListedAreHeld, TypeOK
  <2>3. Alone'
    <3> SUFFICES ASSUME NEW i \in Items, i \notin shared', holds'[i] # None
                 PROVE  /\ registrations'[holds'[i]] = i
                        /\ \A j \in Items : holds'[j] = holds'[i] => j = i
      BY DEF Alone
    <3>1. CASE i = call.item
      <4>1. Holders(call.id) = {}
        BY <1>2, <2>1, <3>1 DEF Insert
      <4>2. QED
        BY <1>2, <2>1, <3>1, <4>1 DEF Insert, Holders, TypeOK
    <3>2. CASE i # call.item
      <4>1. i \notin shared /\ holds'[i] = holds[i]
        BY <1>2, <2>1, <3>2 DEF Insert, TypeOK
      <4>2. registrations[holds[i]] = i /\ holds[i] # call.id
        BY <1>2, <4>1 DEF Insert, Alone, TypeOK
      <4>3. QED
        BY <1>2, <2>1, <3>2, <4>1, <4>2 DEF Insert, Alone, TypeOK
    <3>3. QED
      BY <3>1, <3>2
  <2>4. RefusedIsExcused'
    BY <1>2 DEF Insert, RefusedIsExcused, Idle
  <2>5. QED
    BY <1>0, <2>2, <2>3, <2>4
<1>3. CASE Refuse
  BY <1>0, <1>3 DEF Refuse, Holders, ListedAreHeld, Alone, RefusedIsExcused, TypeOK, Calls, Idle
<1>4. CASE DropUnregistered
  <2>1. call.id \in Ids
    BY <1>4 DEF DropUnregistered, TypeOK, Calls, Idle
  <2>2. ListedAreHeld'
    BY <1>4, <2>1 DEF DropUnregistered, Removed, ListedAreHeld, TypeOK
  <2>3. Alone'
    BY <1>4, <2>1 DEF DropUnregistered, Removed, Alone, RefusedIsExcused, TypeOK
  <2>4. RefusedIsExcused'
    BY <1>4 DEF DropUnregistered, RefusedIsExcused, Idle
  <2>5. QED
    BY <1>0, <2>2, <2>3, <2>4
<1>5. ASSUME NEW i \in Items, DropRegistration(i) PROVE IInv'
  <2>1. holds[i] \in Ids
    BY <1>5 DEF DropRegistration, TypeOK
  <2>2. ListedAreHeld'
    BY <1>5, <2>1 DEF DropRegistration, Removed, ListedAreHeld, TypeOK
  <2>3. Alone'
    <3> SUFFICES ASSUME NEW j \in Items, j \notin shared', holds'[j] # None
                 PROVE  /\ registrations'[holds'[j]] = j
                        /\ \A k \in Items : holds'[k] = holds'[j] => k = j
      BY DEF Alone
    <3>1. j # i /\ j \notin shared /\ holds'[j] = holds[j]
      BY <1>5 DEF DropRegistration, TypeOK
    <3>2. holds[j] # holds[i] /\ registrations[holds[j]] = j
      BY <3>1 DEF Alone
    <3>3. registrations'[holds'[j]] = j
      BY <1>5, <2>1, <3>1, <3>2 DEF DropRegistration, Removed, TypeOK
    <3>4. ASSUME NEW k \in Items, holds'[k] = holds'[j] PROVE k = j
      BY <1>5, <3>1, <3>4 DEF DropRegistration, Alone, TypeOK
    <3>5. QED
      BY <3>3, <3>4
  <2>4. RefusedIsExcused'
    BY <1>0, <1>5 DEF DropRegistration, RefusedIsExcused, TypeOK, Calls, Idle
  <2>5. QED
    BY <1>0, <2>2, <2>3, <2>4
<1>6. CASE UNCHANGED vars
  BY <1>0, <1>6 DEF vars, ListedAreHeld, Alone, RefusedIsExcused
<1>7. QED
  BY <1>1, <1>2, <1>3, <1>4, <1>5, <1>6 DEF Next

\* The invariant holds at all times.
LEMMA Invariance == Spec => []IInv
<1>1. Init => IInv
  BY RegistrationAssumption
  DEF Init, IInv, TypeOK, Calls, Idle, ListedAreHeld, Alone, RefusedIsExcused
<1>2. QED
  BY <1>1, InvStep, PTL DEF Spec

\* Every item the manager lists has a living Registration under that identifier,
\* whatever collides.
THEOREM ListedAlwaysHeld == Spec => []ListedAreHeld
BY Invariance, PTL DEF IInv

\* An item is listed for as long as its Registration lives, except when its
\* identifier is drawn a second time (utils.rs 40-45).
THEOREM HeldAlwaysListed == Spec => []HeldAreListed
<1>1. ASSUME IInv PROVE HeldAreListed
  <2> SUFFICES ASSUME NEW i \in Items \ shared, holds[i] # None
               PROVE  i \in RegisteredItems
    BY DEF HeldAreListed
  <2>1. holds[i] \in Ids
    BY <1>1 DEF IInv, TypeOK
  <2>2. registrations[holds[i]] = i
    BY <1>1 DEF IInv, Alone
  <2>3. i # None
    BY RegistrationAssumption
  <2>4. QED
    BY <2>1, <2>2, <2>3 DEF RegisteredItems
<1>2. QED
  BY <1>1, Invariance, PTL
=============================================================================
