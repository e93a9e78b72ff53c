--------------------------- MODULE MCProvisioning ---------------------------
(* Small instances of Provisioning for TLC. *)
EXTENDS Provisioning, TLC

Symmetry == Permutations(Request) \union Permutations(Token) \union Permutations(Bind)
=============================================================================
