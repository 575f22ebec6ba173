---------------------------- MODULE MCHelloCodec ----------------------------
(***************************************************************************)
(* HelloCodec with the Hello the router program sends (main.rs) and a few  *)
(* others.                                                                 *)
(***************************************************************************)
EXTENDS HelloCodec

HelloOf(mask, interval, neighbors) ==
  [router_id |-> <<2, 2, 2, 2>>, area_id |-> <<0, 0, 0, 0>>,
   network_mask |-> Ipv4Netmask(mask), hello_interval |-> interval,
   options |-> 2, router_priority |-> 5, router_dead_interval |-> <<0, 0, 0, 40>>,
   designated_router |-> <<172, 16, 10, 1>>,
   backup_designated_router |-> <<0, 0, 0, 0>>, neighbors |-> neighbors]

\* A mask with a gap; with the interval 16270, the sum of the program's own Hello
\* carries twice; a neighbour that makes up for its loss; and a Hello whose sum is
\* that of no words at all.
SomeHellos ==
  {HelloOf(mask, interval, neighbors) :
     mask      \in {<<255, 255, 255, 252>>, <<255, 0, 255, 0>>},
     interval  \in {10, 16270},
     neighbors \in {<<>>, <<<<255, 251, 0, 0>>>>,
                   <<<<1, 1, 1, 1>>>>, <<<<1, 1, 1, 1>>, <<10, 0, 0, 255>>>>}}
  \cup {HelloOf(<<255, 255, 255, 252>>, 16787, <<>>)}

\* One bit or most of them, and to the length with a neighbour less and to another kind
\* of authentication.
SomeChanges == {1, 127, 128, 252, 254, 255}
=============================================================================
