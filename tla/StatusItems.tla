---------------------------- MODULE StatusItems ----------------------------
(***************************************************************************)
(* Identities of network links and interfaces, and what the interface      *)
(* database promises to do with a set of status items.                     *)
(*                                                                         *)
(* A CanonicalNetworkId names a thing in up to three ways: by the name the *)
(* router's configuration gives it, by the name of the Linux device, and   *)
(* by the kernel's index of that device.  Two identities are in conflict   *)
(* as soon as they share one of these keys; the database never holds two   *)
(* items that do.                                                          *)
(***************************************************************************)
CONSTANT None     \* Rust's Option::None

\* The ways an identity can be looked up.
Kind == {"name", "device", "id"}

\* The identities a and b have a key in common.
SharesKey(a, b) == \E k \in Kind : a[k] # None /\ a[k] = b[k]

\* The members of S that are in conflict with the identity c.
Overlapping(S, c) == {x \in S : SharesKey(c, x.id)}

\* Remove every item in conflict with c.
DropItems(S, c) == S \ Overlapping(S, c)

\* Insert x, displacing every item in conflict with it.
PutItem(S, x) == DropItems(S, x.id) \cup {x}

\* No two items of S are in conflict.
PairwiseDistinct(S) == \A x, y \in S : SharesKey(x.id, y.id) => x = y
=============================================================================
