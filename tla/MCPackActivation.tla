------------------------- MODULE MCPackActivation --------------------------
(* PackActivation on small sets: two clients with their own selections,    *)
(* sets of up to two Packs, two revisions after the absent one, and a      *)
(* candidate load beside them.                                             *)
EXTENDS PackActivation, TLC

Symmetry == Permutations(Clients) \cup Permutations(Stamps) \cup Permutations(Packs)
=============================================================================
