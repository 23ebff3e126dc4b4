---------------------- MODULE MCIntegrationDispatch ----------------------
(* IntegrationDispatch on small instances: a delivery that is claimed again *)
(* and a sibling for the ceiling and the cooldown, or one delivery claimed  *)
(* three times.                                                             *)
EXTENDS IntegrationDispatch, TLC

CONSTANTS d1, d2

MCMaxClaims == [d \in Deliveries |-> IF d = d1 THEN 2 ELSE 1]
MCThreeClaims == [d \in Deliveries |-> 3]
Symmetry == Permutations(Workers) \cup Permutations(Reconcilers)
=============================================================================
