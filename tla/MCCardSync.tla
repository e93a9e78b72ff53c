----------------------------- MODULE MCCardSync -----------------------------
(* Small instances of CardSync for TLC. *)
EXTENDS CardSync, TLC

(* Users, cards and gateways are interchangeable: no action or invariant   *)
(* orders them or names one.                                               *)
Symmetry == Permutations(User) \union Permutations(Card) \union Permutations(Gateway)
=============================================================================
