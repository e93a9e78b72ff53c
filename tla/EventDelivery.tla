---------------------------- MODULE EventDelivery ----------------------------
(***************************************************************************)
(* What a gateway's upload queue promises the rest of the system, with no  *)
(* processes, requests or retries in it: an event that was queued takes    *)
(* effect on the server at most once, and the gateway regards it as        *)
(* acknowledged only while that effect exists.                             *)
(***************************************************************************)
EXTENDS Naturals

CONSTANT Event

VARIABLES
    queued,   \* events that were queued for upload
    effects,  \* how often each event has taken effect on the server
    acked     \* events the gateway regards as acknowledged

vars == <<queued, effects, acked>>

Init ==
    /\ queued = {}
    /\ effects = [e \in Event |-> 0]
    /\ acked = {}

Queue(e) ==
    /\ e \notin queued
    /\ queued' = queued \union {e}
    /\ UNCHANGED <<effects, acked>>

TakeEffect(e) ==
    /\ e \in queued
    /\ effects[e] = 0
    /\ effects' = [effects EXCEPT ![e] = 1]
    /\ UNCHANGED <<queued, acked>>

(* One commit of the gateway may record several answers; it may also put   *)
(* an acknowledged event back to be sent again, which is harmless.         *)
Record ==
    /\ acked' \subseteq {e \in queued : effects[e] = 1}
    /\ UNCHANGED <<queued, effects>>

Next ==
    \/ \E e \in Event : Queue(e) \/ TakeEffect(e)
    \/ Record

Spec == Init /\ [][Next]_vars
=============================================================================
