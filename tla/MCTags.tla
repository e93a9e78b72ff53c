------------------------------- MODULE MCTags -------------------------------
(* A small registry for Tags: a device with a factory name, and one whose  *)
(* old name is the id of the first tag.                                    *)
EXTENDS Tags, TLC

CONSTANTS d1, d2, p1, p2, o1, o2

MCLegacy == (d1 :> 0) @@ (d2 :> 1)
Symmetry == Permutations(Op) \union Permutations(Parcel)
=============================================================================
