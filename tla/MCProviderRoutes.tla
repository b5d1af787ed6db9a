--------------------------- MODULE MCProviderRoutes ---------------------------
(***************************************************************************)
(* An instance of ProviderRoutes: three claims, two of which share a slot, *)
(* and two generations of one Pack.                                        *)
(***************************************************************************)
EXTENDS ProviderRoutes, TLC

CONSTANTS provider1, provider2, route1, route2, route3, slot1, slot2

MCClaims ==
  {[provider |-> provider1, route |-> route1, slot |-> slot1],
   [provider |-> provider2, route |-> route2, slot |-> slot2],
   [provider |-> provider2, route |-> route3, slot |-> slot1]}

MCOwners == [family : {"providers"}, generation : {1, 2}] \cup [family : {"usage"}, generation : {1}]

MCSymmetry ==
  Permutations(Ledgers) \cup Permutations(RequestIds) \cup Permutations(Models) \cup Permutations(Stamps)
=============================================================================
