---------------------------- MODULE MCParcelSync ----------------------------
(* Small instances of ParcelSync for TLC. *)
EXTENDS ParcelSync, TLC

CONSTANTS demo, own   \* a parcel of the demonstration data, one of the gateway's own

MCSeedOrder == <<demo>>
MCParcel    == {demo, own}

(* Requests are interchangeable, and so are event ids.                     *)
Symmetry == Permutations(Request) \union Permutations(EventId)
=============================================================================
