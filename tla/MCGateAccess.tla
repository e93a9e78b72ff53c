---------------------------- MODULE MCGateAccess ----------------------------
(* A small gateway for GateAccess: a user with a parcel and a card.        *)
EXTENDS GateAccess, TLC

CONSTANTS u1, p1, c1, a1

MCOwner  == [p \in Parcel |-> u1]
MCHolder == [c \in Card |-> u1]
=============================================================================
