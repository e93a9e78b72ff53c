----------------------------- MODULE CardCopies -----------------------------
(***************************************************************************)
(* What the station's gates may rely on, with no events, pulls, sessions   *)
(* or faults in it.  The server alone moves a card through its life:       *)
(* issued once, then revoked for good.  Each gateway has a copy that only  *)
(* moves the same way, from time to time and to any point that the server  *)
(* has passed.  An operator at a gateway may overrule the copy, for the    *)
(* cards he names and for no others.                                       *)
(***************************************************************************)
CONSTANTS Card, Gateway

VARIABLES
    card,      \* the server's status of each card
    copy,      \* each gateway's status of each card
    overruled  \* cards whose copy an operator has written, for each gateway

vars == <<card, copy, overruled>>

Revoked == {"LOST", "REPLACED", "DISABLED"}
Stage   == Revoked \union {"NONE", "ACTIVE"}

(* Status t is as far along the life of a card as s, or farther.           *)
Reached(s, t) == /\ s # "NONE" => t # "NONE"
                 /\ s \in Revoked => t \in Revoked

Init ==
    /\ card = [c \in Card |-> "NONE"]
    /\ copy = [g \in Gateway |-> [c \in Card |-> "NONE"]]
    /\ overruled = [g \in Gateway |-> {}]

(* A new card may take the place of one that is ACTIVE.                    *)
Issue(c) ==
    /\ card[c] = "NONE"
    /\ UNCHANGED <<copy, overruled>>
    /\ \E old \in SUBSET {d \in Card : card[d] = "ACTIVE"} :
          /\ \A d, e \in old : d = e
          /\ card' = [d \in Card |-> IF d = c THEN "ACTIVE"
                                     ELSE IF d \in old THEN "REPLACED" ELSE card[d]]

Revoke(c, s) ==
    /\ card[c] # "NONE"
    /\ card' = [card EXCEPT ![c] = s]
    /\ UNCHANGED <<copy, overruled>>

(* What one step writes at gateway g: rows of its own copy only.           *)
Writes(g) ==
    /\ copy'[g] \in [Card -> Stage]
    /\ copy' = [copy EXCEPT ![g] = copy'[g]]
    /\ UNCHANGED card

(* Any part of the copy may be brought forward, at any time.               *)
Refresh(g) ==
    /\ Writes(g)
    /\ \A c \in Card : Reached(copy[g][c], copy'[g][c])
    /\ \A c \in Card \ overruled[g] : Reached(copy'[g][c], card[c])
    /\ UNCHANGED overruled

Overrule(g) ==
    /\ Writes(g)
    /\ overruled' = [overruled EXCEPT ![g] = overruled'[g]]
    /\ overruled'[g] \in SUBSET Card
    /\ overruled[g] \subseteq overruled'[g]
    /\ \A c \in Card \ overruled'[g] : copy'[g][c] = copy[g][c]

Next ==
    \/ \E c \in Card : Issue(c) \/ \E s \in {"LOST", "DISABLED"} : Revoke(c, s)
    \/ \E g \in Gateway : Refresh(g) \/ Overrule(g)

Spec == Init /\ [][Next]_vars
=============================================================================
