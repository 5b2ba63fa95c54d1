--------------------------- MODULE MCIntegration ----------------------------
(* Small instances of Integration for TLC. *)
EXTENDS Integration, TLC

CONSTANTS a, b

\* Whether the two tasks touch the same lines.
AB == {{a, b}}
NoFoes == {}

TwoMerges == [t \in Task |-> "merge"]
OnePropose == (a :> "merge") @@ (b :> "propose")

InPlace == [t \in Task |-> "inPlace"]
InPlaceAndFresh == (a :> "inPlace") @@ (b :> "fresh")
InPlaceAndApply == (a :> "inPlace") @@ (b :> "apply")
=============================================================================
