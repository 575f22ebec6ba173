------------------------- MODULE MCInterfaceManager -------------------------
(***************************************************************************)
(* InterfaceManager on a small router.                                     *)
(***************************************************************************)
EXTENDS InterfaceManager

CONSTANTS eth, ppp, wan, inet, spare, gone

\* eth is configured as the link wan, with the interface inet on it.
OneLink == {wan}
OneLinkDevice == [n \in {wan} |-> eth]
OneInterface == {inet}
OneInterfaceLink == [i \in {inet} |-> wan]

\* A second interface, spare, names a link nobody configured.
WithSpare == {inet, spare}
WithSpareLink == [i \in {inet, spare} |-> IF i = inet THEN wan ELSE gone]

ConfiguredPresent == <<eth>>
BothPresent == <<eth, ppp>>
=============================================================================
