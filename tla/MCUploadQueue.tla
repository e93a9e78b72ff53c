---------------------------- MODULE MCUploadQueue ----------------------------
(* Small instances of UploadQueue for TLC. *)
EXTENDS UploadQueue, TLC

(* Pushers of the same kind and requests are interchangeable.              *)
Symmetry == Permutations(Request)
=============================================================================
