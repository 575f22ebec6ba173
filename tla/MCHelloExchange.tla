-------------------------- MODULE MCHelloExchange ---------------------------
(***************************************************************************)
(* HelloExchange with the configuration of the router program (main.rs).   *)
(***************************************************************************)
EXTENDS HelloExchange

Own == <<172, 16, 10, 2>>

OneNeighbour == {<<172, 16, 10, 1>>}

\* Inside is on vlan.10, Unused on a link that is not configured; eth1 is nobody's.
ProgramListing ==
  {[name |-> "Inside", device |-> "vlan.10"], [name |-> "Unused", device |-> ""],
   [name |-> "none", device |-> "eth1"]}
=============================================================================
