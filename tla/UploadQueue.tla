----------------------------- MODULE UploadQueue -----------------------------
(***************************************************************************)
(* The gateway's upload queue (sync_queue in SQLite) and the server's      *)
(* handling of POST /gateways/{code}/sync/push.                            *)
(*                                                                         *)
(* Gateway: a command or a gate decision commits its own rows, then adds a *)
(* PENDING row to the queue.  sync_push_once loads every PENDING or FAILED *)
(* row, sends each in a request of its own, notes the outcome on the       *)
(* session's object and commits once, after the last row.  The run loop    *)
(* and a sync-push command may do so at the same time, each in a process   *)
(* and session of its own.                                                 *)
(*                                                                         *)
(* Server: gateway_push_sync looks the event_id up, and if it is new       *)
(* inserts it (event_id is unique) and applies its business effect, in one *)
(* transaction.  A request whose client has timed out goes on.             *)
(***************************************************************************)
EXTENDS Naturals, FiniteSets

CONSTANTS
    MaxEvent,     \* bound: number of queue rows, numbered as they are inserted
    Pickup,       \* events that create_pickup_event records, a subset of Event
    Poison,       \* events the server refuses each time, a subset of Event
    Pusher,       \* processes that run sync_push_once on this database
    RunLoop,      \* those of them that are the run loop, whose session the MQTT
                  \* thread commits too; the others are sync-push commands
    Request,      \* bound: requests that may overlap on the server
    Nobody,       \* sender of a request whose client has given up
    MaxCrash      \* bound: crashes of pushers

Event == 1..MaxEvent

ASSUME ConstantsOK ==
    /\ MaxEvent \in Nat \ {0}
    /\ Pickup \subseteq Event
    /\ Poison \subseteq Event
    /\ RunLoop \subseteq Pusher
    /\ Nobody \notin Pusher
    /\ MaxCrash \in Nat

RowStatus == {"NONE", "PENDING", "FAILED", "ACKED"}
Phase == {"free", "sent", "checked", "ok", "error", "gone"}

VARIABLES
    recorded, \* events whose own rows (parcel, pickup event) are committed
    row,      \* committed status of each sync_queue row
    uploaded, \* LocalPickupEvents whose committed sync_status is UPLOADED
    pushing,  \* pushers inside sync_push_once
    todo,     \* rows of the loop not sent yet
    seen,     \* status of each row of the loop as it was loaded or last flushed
    held,     \* status the session's object of that row holds now
    contested,\* history: events whose row one pusher has loaded while another had it
    event,    \* request: the event it carries
    sender,   \* request: the pusher waiting for the answer
    phase,    \* request: how far it has got
    ledger,   \* server: event ids in gateway_sync_events
    applied,  \* server: how often each event's business effect was committed
    crashes   \* number of crashes so far

gatewayVars == <<recorded, row, uploaded>>
loopVars    == <<pushing, todo, seen, held, contested>>
requestVars == <<event, sender, phase>>
serverVars  == <<ledger, applied>>
vars == <<recorded, row, uploaded, pushing, todo, seen, held, contested,
          event, sender, phase, ledger, applied, crashes>>

NoRows == [e \in Event |-> "NONE"]

Init ==
    /\ recorded = {}
    /\ row = NoRows
    /\ uploaded = {}
    /\ pushing = {}
    /\ todo = [p \in Pusher |-> {}]
    /\ seen = [p \in Pusher |-> NoRows]
    /\ held = [p \in Pusher |-> NoRows]
    /\ contested = {}
    /\ event = [r \in Request |-> 1]
    /\ sender = [r \in Request |-> Nobody]
    /\ phase = [r \in Request |-> "free"]
    /\ ledger = {}
    /\ applied = [e \in Event |-> 0]
    /\ crashes = 0

-----------------------------------------------------------------------------
(* Gateway: producing events *)

(* cli_inbound_parcel and create_pickup_event commit the local change ...  *)
RecordLocally(e) ==
    /\ e \notin recorded
    /\ \A d \in Event : d < e => d \in recorded
    /\ recorded' = recorded \union {e}
    /\ UNCHANGED <<row, uploaded, loopVars, requestVars, serverVars, crashes>>

(* ... and only then does enqueue_event_upload commit the queue row.       *)
EnqueueEventUpload(e) ==
    /\ e \in recorded
    /\ row[e] = "NONE"
    /\ row' = [row EXCEPT ![e] = "PENDING"]
    /\ UNCHANGED <<recorded, uploaded, loopVars, requestVars, serverVars, crashes>>

-----------------------------------------------------------------------------
(* Gateway: sync_push_once *)

Waiting(p) == \E r \in Request : sender[r] = p

(* Slips: a row that failed once is not selected again; every row is.      *)
PendingOnly(e) == row[e] = "PENDING"
AnyRow(e)      == row[e] # "NONE"

ToUpload(e) == row[e] \in {"PENDING", "FAILED"}

StartPush(p) ==
    /\ p \notin pushing
    /\ \E e \in Event : ToUpload(e)
    /\ pushing' = pushing \union {p}
    /\ todo' = [todo EXCEPT ![p] = {e \in Event : ToUpload(e)}]
    /\ seen' = [seen EXCEPT ![p] = [e \in Event |-> IF ToUpload(e) THEN row[e] ELSE "NONE"]]
    /\ held' = [held EXCEPT ![p] = [e \in Event |-> IF ToUpload(e) THEN row[e] ELSE "NONE"]]
    /\ contested' = contested \union {e \in Event : ToUpload(e) /\ \E q \in pushing : held[q][e] # "NONE"}
    /\ UNCHANGED <<gatewayVars, requestVars, serverVars, crashes>>

(* SQLite returns the rows in insertion order. *)
Send(p, r) ==
    /\ p \in pushing
    /\ ~ Waiting(p)
    /\ phase[r] = "free"
    /\ \E e \in todo[p] :
          /\ \A d \in todo[p] : e <= d
          /\ todo' = [todo EXCEPT ![p] = @ \ {e}]
          /\ event' = [event EXCEPT ![r] = e]
    /\ sender' = [sender EXCEPT ![r] = p]
    /\ phase' = [phase EXCEPT ![r] = "sent"]
    /\ UNCHANGED <<gatewayVars, pushing, seen, held, contested, serverVars, crashes>>

(* Slip: the row gets a status its column does not have.                   *)
MarkRefused(p, r) ==
    /\ sender[r] = p
    /\ phase[r] = "error"
    /\ held' = [held EXCEPT ![p][event[r]] = "REFUSED"]
    /\ sender' = [sender EXCEPT ![r] = Nobody]
    /\ phase' = [phase EXCEPT ![r] = "free"]
    /\ UNCHANGED <<gatewayVars, pushing, todo, seen, contested, event, serverVars, crashes>>

(* The answer arrives: the row is ACKED, or FAILED to be sent again.       *)
ReceiveOk(p, r) ==
    /\ sender[r] = p
    /\ phase[r] = "ok"
    /\ held' = [held EXCEPT ![p][event[r]] = "ACKED"]
    /\ sender' = [sender EXCEPT ![r] = Nobody]
    /\ phase' = [phase EXCEPT ![r] = "free"]
    /\ UNCHANGED <<gatewayVars, pushing, todo, seen, contested, event, serverVars, crashes>>

ReceiveError(p, r) ==
    /\ sender[r] = p
    /\ phase[r] = "error"
    /\ held' = [held EXCEPT ![p][event[r]] = "FAILED"]
    /\ sender' = [sender EXCEPT ![r] = Nobody]
    /\ phase' = [phase EXCEPT ![r] = "free"]
    /\ UNCHANGED <<gatewayVars, pushing, todo, seen, contested, event, serverVars, crashes>>

(* Slip: a request that got no answer is taken for delivered.              *)
AssumeDelivered(p, r) ==
    /\ sender[r] = p
    /\ held' = [held EXCEPT ![p][event[r]] = "ACKED"]
    /\ sender' = [sender EXCEPT ![r] = Nobody]
    /\ phase' = [phase EXCEPT ![r] = IF @ \in {"sent", "checked"} THEN @ ELSE "free"]
    /\ UNCHANGED <<gatewayVars, pushing, todo, seen, contested, event, serverVars, crashes>>

(* No answer within 15 s: the row is FAILED; whatever the server is doing  *)
(* with the request, it keeps doing.                                       *)
TimeOut(p, r) ==
    /\ sender[r] = p
    /\ held' = [held EXCEPT ![p][event[r]] = "FAILED"]
    /\ sender' = [sender EXCEPT ![r] = Nobody]
    /\ phase' = [phase EXCEPT ![r] = IF @ \in {"sent", "checked"} THEN @ ELSE "free"]
    /\ UNCHANGED <<gatewayVars, pushing, todo, seen, contested, event, serverVars, crashes>>

(* A flush writes the status of the rows whose object has changed since it *)
(* was loaded, over whatever another process has committed meanwhile; and  *)
(* the pickup events of acknowledged rows become UPLOADED with them.       *)
Flush(p) ==
    /\ row' = [e \in Event |-> IF held[p][e] # seen[p][e] THEN held[p][e] ELSE row[e]]
    /\ uploaded' = uploaded \union {e \in Pickup : held[p][e] = "ACKED"}

(* The commit after the last row *)
FinishPush(p) ==
    /\ p \in pushing
    /\ todo[p] = {}
    /\ ~ Waiting(p)
    /\ Flush(p)
    /\ pushing' = pushing \ {p}
    /\ seen' = [seen EXCEPT ![p] = NoRows]
    /\ held' = [held EXCEPT ![p] = NoRows]
    /\ UNCHANGED <<recorded, todo, contested, requestVars, serverVars, crashes>>

(* handle_server_command, on the MQTT thread of the run loop's process,    *)
(* commits the same session in the middle of the loop.                     *)
CommitFromMqtt(p) ==
    /\ p \in RunLoop \intersect pushing
    /\ Flush(p)
    /\ seen' = [seen EXCEPT ![p] = held[p]]
    /\ UNCHANGED <<recorded, pushing, todo, held, contested, requestVars, serverVars, crashes>>

(* The process stops; what it had not committed is gone, its request goes  *)
(* on without it.                                                          *)
Crash(p) ==
    /\ crashes < MaxCrash
    /\ p \in pushing
    /\ crashes' = crashes + 1
    /\ pushing' = pushing \ {p}
    /\ todo' = [todo EXCEPT ![p] = {}]
    /\ seen' = [seen EXCEPT ![p] = NoRows]
    /\ held' = [held EXCEPT ![p] = NoRows]
    /\ sender' = [r \in Request |-> IF sender[r] = p THEN Nobody ELSE sender[r]]
    /\ phase' = [r \in Request |->
                    IF sender[r] = p /\ phase[r] \notin {"sent", "checked"} THEN "free"
                    ELSE phase[r]]
    /\ UNCHANGED <<gatewayVars, contested, event, serverVars>>

-----------------------------------------------------------------------------
(* Server: gateway_push_sync *)

(* A request nobody waits for any more leaves no answer behind.            *)
Answer(r, a) ==
    phase' = [phase EXCEPT ![r] = IF sender[r] = Nobody THEN "free" ELSE a]

(* The event_id is known: counted as a duplicate, answered 200.            *)
AnswerDuplicate(r) ==
    /\ phase[r] = "sent"
    /\ event[r] \in ledger
    /\ Answer(r, "ok")
    /\ UNCHANGED <<gatewayVars, loopVars, event, sender, serverVars, crashes>>

FindNew(r) ==
    /\ phase[r] = "sent"
    /\ event[r] \notin ledger
    /\ event[r] \notin Poison
    /\ phase' = [phase EXCEPT ![r] = "checked"]
    /\ UNCHANGED <<gatewayVars, loopVars, event, sender, serverVars, crashes>>

(* Slips: the insert does not notice a row that appeared after the lookup; *)
(* the event is recorded and committed before its effect.                  *)
InsertAgain(r) ==
    /\ phase[r] = "checked"
    /\ ledger' = ledger \union {event[r]}
    /\ applied' = [applied EXCEPT ![event[r]] = @ + 1]
    /\ Answer(r, "ok")
    /\ UNCHANGED <<gatewayVars, loopVars, event, sender, crashes>>

RecordOnly(r) ==
    /\ phase[r] = "checked"
    /\ event[r] \notin ledger
    /\ ledger' = ledger \union {event[r]}
    /\ Answer(r, "ok")
    /\ UNCHANGED <<gatewayVars, loopVars, event, sender, applied, crashes>>

(* Insert and business effect commit together.                             *)
ApplyEvent(r) ==
    /\ phase[r] = "checked"
    /\ event[r] \notin ledger
    /\ ledger' = ledger \union {event[r]}
    /\ applied' = [applied EXCEPT ![event[r]] = @ + 1]
    /\ Answer(r, "ok")
    /\ UNCHANGED <<gatewayVars, loopVars, event, sender, crashes>>

(* Another request inserted the event_id since it was looked up: the       *)
(* unique key fails the transaction and the answer is 500.                 *)
InsertConflict(r) ==
    /\ phase[r] = "checked"
    /\ event[r] \in ledger
    /\ Answer(r, "error")
    /\ UNCHANGED <<gatewayVars, loopVars, event, sender, serverVars, crashes>>

(* Refused or failed (4xx, 5xx): the transaction is rolled back.           *)
Refuse(r) ==
    /\ phase[r] \in {"sent", "checked"}
    /\ Answer(r, "error")
    /\ UNCHANGED <<gatewayVars, loopVars, event, sender, serverVars, crashes>>

(* The request, or the answer to it, is lost on the way.                   *)
Lose(r) ==
    /\ phase[r] \in {"sent", "ok", "error"}
    /\ Answer(r, "gone")
    /\ UNCHANGED <<gatewayVars, loopVars, event, sender, serverVars, crashes>>

-----------------------------------------------------------------------------
ProduceNext == \E e \in Event : RecordLocally(e) \/ EnqueueEventUpload(e)

LoopStep(p) ==
    \/ StartPush(p)
    \/ \E r \in Request : Send(p, r) \/ ReceiveOk(p, r) \/ ReceiveError(p, r) \/ TimeOut(p, r)
    \/ FinishPush(p)

ServerStep(r) == AnswerDuplicate(r) \/ FindNew(r) \/ ApplyEvent(r) \/ InsertConflict(r)

Next ==
    \/ ProduceNext
    \/ \E p \in Pusher : LoopStep(p) \/ CommitFromMqtt(p) \/ Crash(p)
    \/ \E r \in Request : ServerStep(r) \/ Refuse(r) \/ Lose(r)

Spec == Init /\ [][Next]_vars

(* The run loop pushes every 15 s and a sync-push command, once started,   *)
(* runs to its end; every request ends, if only by being lost.  An event   *)
(* that is sent again and again does not meet a failure every time: not    *)
(* while the server looks it up, applies it or answers in time, and not on *)
(* the way back.                                                           *)
Carrying(e, A(_)) == \E r \in Request : event[r] = e /\ A(r)

AnswerInTime(r) == sender[r] # Nobody /\ AnswerDuplicate(r)

Fairness ==
    /\ \A p \in RunLoop : WF_vars(LoopStep(p))
    /\ \A p \in Pusher : WF_vars(p \in pushing /\ LoopStep(p))
    /\ \A r \in Request : WF_vars(ServerStep(r) \/ Refuse(r) \/ Lose(r))
    /\ \A e \in Event :
          /\ SF_vars(Carrying(e, FindNew))
          /\ SF_vars(Carrying(e, ApplyEvent))
          /\ SF_vars(Carrying(e, AnswerInTime))
          /\ \A p \in Pusher :
                SF_vars(\E r \in Request : event[r] = e /\ ReceiveOk(p, r))

FairSpec == Spec /\ Fairness

-----------------------------------------------------------------------------
(* Properties *)

(* Every variable holds values of its kind.                                *)
TypeOK ==
    /\ recorded \subseteq Event
    /\ row \in [Event -> RowStatus]
    /\ uploaded \subseteq Pickup
    /\ pushing \subseteq Pusher
    /\ todo \in [Pusher -> SUBSET Event]
    /\ seen \in [Pusher -> [Event -> RowStatus]]
    /\ held \in [Pusher -> [Event -> RowStatus]]
    /\ contested \subseteq Event
    /\ event \in [Request -> Event]
    /\ sender \in [Request -> Pusher \union {Nobody}]
    /\ phase \in [Request -> Phase]
    /\ ledger \subseteq Event
    /\ applied \in [Event -> Nat]
    /\ crashes \in 0..MaxCrash

(* However often an event is sent, retried after a timeout or sent by two  *)
(* processes at once, the server commits its business effect at most once, *)
(* and exactly when its event_id is in gateway_sync_events.                *)
AppliedOnce ==
    \A e \in Event : applied[e] = IF e \in ledger THEN 1 ELSE 0

(* The gateway marks a row ACKED, and a pickup event UPLOADED, only when   *)
(* the server has committed the event: through lost answers, crashes and   *)
(* commits of the MQTT thread in the middle of the loop.                   *)
NothingClaimedEarly ==
    /\ \A e \in Event : row[e] = "ACKED" => e \in ledger
    /\ uploaded \subseteq ledger

(* An acknowledged row stays acknowledged and is not sent again, unless    *)
(* the run loop and a command have had it in hand at once: then the later  *)
(* commit wins and may turn it FAILED.                                     *)
AckedIsFinal ==
    [][\A e \in Event \ contested :
          row[e] = "ACKED" =>
             /\ row'[e] = "ACKED"
             /\ \A r \in Request : event'[r] = e /\ phase'[r] = "sent" => phase[r] = "sent"]_vars

(* Every queued event the server does not refuse for good is acknowledged, *)
(* again and again if need be, whatever happens to the others in the loop. *)
EveryEventAcked ==
    \A e \in Event \ Poison : row[e] # "NONE" ~> row[e] = "ACKED"

(* The queue, the requests and the server's table together deliver each    *)
(* event at most once and acknowledge only what was delivered.             *)
Delivery == INSTANCE EventDelivery WITH
    queued  <- {e \in Event : row[e] # "NONE"},
    effects <- applied,
    acked   <- {e \in Event : row[e] = "ACKED"}

DeliverySpec == Delivery!Spec
=============================================================================
