------------------------------ MODULE ParcelSync ------------------------------
(***************************************************************************)
(* A parcel's status on the server and in a gateway's database, and what   *)
(* keeps the two in touch: GATEWAY_INBOUND and OFFLINE_PICKUP events going *)
(* up, PARCEL_UPSERT, PARCEL_TAG_BINDING_UPSERT and PARCEL_PICKUP_CONFIRMED*)
(* events coming down.                                                     *)
(*                                                                         *)
(* Of the upload queue only what EventDelivery promises is kept: an event  *)
(* takes effect at most once.  Events take effect in the order in which    *)
(* they were queued, except that one that failed is overtaken by those     *)
(* behind it.                                                              *)
(*                                                                         *)
(* The gateway has up to two rows for a parcel: one that inbound-parcel    *)
(* made, whose server_parcel_id is the parcel code, and one made by        *)
(* PARCEL_UPSERT, whose server_parcel_id is the server's number.  Only the *)
(* second is reached by events from the server.                            *)
(***************************************************************************)
EXTENDS Naturals, Sequences, FiniteSets

CONSTANTS
    Parcel,      \* parcel codes
    SeedOrder,   \* the (two) parcels ensure_demo_data creates, in its order
    Numeric,     \* parcel codes that int() accepts
    EventId,     \* event ids the users' pickup confirmations carry
    Request,     \* bound: confirmations that may overlap on the server
    MaxUpload,   \* bound on the events the gateway uploads
    Patchable,   \* bound: parcels whose status an administrator sets
    Plantable,   \* bound: parcels seed-demo-gate is run for
    Fault        \* what may go wrong: subset of {"uploadFails", "loseReply", "crash"}

ASSUME ConstantsOK ==
    /\ SeedOrder \in Seq(Parcel)
    /\ Len(SeedOrder) <= 2
    /\ \A i, j \in DOMAIN SeedOrder : SeedOrder[i] = SeedOrder[j] => i = j
    /\ Numeric \subseteq Parcel
    /\ MaxUpload \in Nat
    /\ Patchable \subseteq Parcel /\ Plantable \subseteq Parcel
    /\ Fault \subseteq {"uploadFails", "loseReply", "crash"}

(* "OTHER" stands for every status but the two that the handlers look at;  *)
(* "NONE" for no row.                                                      *)
Status        == {"NONE", "OTHER", "WAITING_PICKUP", "PICKED_UP"}
BindingStatus == {"NONE", "ACTIVE", "RELEASED"}

Seeded == {SeedOrder[i] : i \in DOMAIN SeedOrder}

DownEvent == [kind : {"UPSERT", "BIND", "CONFIRMED"}, parcel : Parcel]
UpEvent   == [kind : {"INBOUND", "PICKUP"}, parcel : Parcel]

Down(kind, p) == [kind |-> kind, parcel |-> p]
Up(kind, p)   == [kind |-> kind, parcel |-> p]

(* The gateway's rows that carry the server's numbers.                     *)
Row == {"parcel", "binding"} \X Parcel

NoRows == [k \in Row |-> "NONE"]

RowStatus(k) == IF k[1] = "parcel" THEN Status ELSE BindingStatus
RowValues    == {rows \in [Row -> Status \union BindingStatus] :
                    \A k \in Row : rows[k] \in RowStatus(k)}

VARIABLES
    parcel,     \* server: status of each parcel
    binding,    \* server: status of its tag binding
    offline,    \* server: parcels with an OFFLINE_PICKUP PickupEvent
    confirmed,  \* server: PICKUP_CONFIRMED PickupEvents, <<event id, parcel>>
    confirming, \* server: confirmations that have passed their checks: <<request, event id, parcel>>
    reshelved,  \* server: seeded parcels whose shelf is not the seed's
    outbox,     \* server: PENDING events for the gateway, in id order
    batch,      \* gateway: events of the pull reply not applied yet
    pulling,    \* gateway: "idle", "reply" (SENT, not yet received), "applying"
    local,      \* gateway: committed rows under the server's numbers
    byCode,     \* gateway: committed status of the row made by inbound-parcel
    added,      \* gateway: rows the session will insert at its next commit
    seen,       \* gateway: status of a row the session modified, as it was loaded
    held,       \* gateway: status the session's object for that row holds now
    twice,      \* gateway: the session has two objects to insert for one row
    broken,     \* gateway: a flush failed and the session refuses all further work
    unqueued,   \* gateway: events whose rows are committed and that are not queued yet
    queue,      \* gateway: queued events that have not taken effect, oldest first
    uploads,    \* number of events produced so far
    patched,    \* history: parcels whose status an administrator has set
    missed,     \* history: parcels of events lost or applied to no row
    disordered, \* history: parcels with events that overtook one another
    planted     \* history: parcels seed-demo-gate has put on the gateway

serverVars  == <<parcel, binding, offline, confirmed, confirming, reshelved>>
sessionVars == <<added, seen, held, twice, broken>>
uploadVars  == <<unqueued, queue, uploads>>
history     == <<patched, missed, disordered, planted>>
vars == <<parcel, binding, offline, confirmed, confirming, reshelved, outbox, batch, pulling,
          local, byCode, added, seen, held, twice, broken, unqueued, queue, uploads,
          patched, missed, disordered, planted>>

Init ==
    /\ parcel = [p \in Parcel |-> "NONE"]
    /\ binding = [p \in Parcel |-> "NONE"]
    /\ offline = {}
    /\ confirmed = {}
    /\ confirming = {}
    /\ reshelved = {}
    /\ outbox = <<>>
    /\ batch = <<>>
    /\ pulling = "idle"
    /\ local = NoRows
    /\ byCode = [p \in Parcel |-> "NONE"]
    /\ added = NoRows
    /\ seen = NoRows
    /\ held = NoRows
    /\ twice = FALSE
    /\ broken = FALSE
    /\ unqueued = {}
    /\ queue = <<>>
    /\ uploads = 0
    /\ patched = {}
    /\ missed = {}
    /\ disordered = {}
    /\ planted = {}

-----------------------------------------------------------------------------
(* Server: demonstration data and administration *)

(* A parcel is announced when it is created or moved back to its shelf, as *)
(* WAITING_PICKUP whatever its status is; a binding when it is created.    *)
Announce(i) ==
    LET p == SeedOrder[i] IN
    IF i \notin DOMAIN SeedOrder THEN <<>>
    ELSE (IF parcel[p] = "NONE" \/ p \in reshelved THEN <<Down("UPSERT", p)>> ELSE <<>>)
         \o (IF binding[p] = "NONE" THEN <<Down("BIND", p)>> ELSE <<>>)

EnsureDemoData ==
    /\ outbox' = outbox \o Announce(1) \o Announce(2)
    /\ parcel' = [p \in Parcel |-> IF p \in Seeded /\ parcel[p] = "NONE" THEN "WAITING_PICKUP"
                                   ELSE parcel[p]]
    /\ binding' = [p \in Parcel |-> IF p \in Seeded /\ binding[p] = "NONE" THEN "ACTIVE"
                                    ELSE binding[p]]
    /\ reshelved' = {}
    /\ UNCHANGED <<offline, confirmed, confirming, batch, pulling, local, byCode, sessionVars,
                   uploadVars, history>>

(* create_parcel and patch_parcel_status: neither tells the gateway.       *)
CreateParcel(p) ==
    /\ parcel[p] = "NONE"
    /\ parcel' = [parcel EXCEPT ![p] = "OTHER"]
    /\ UNCHANGED <<binding, offline, confirmed, confirming, reshelved, outbox, batch, pulling,
                   local, byCode, sessionVars, uploadVars, history>>

PatchParcelStatus(p, s) ==
    /\ parcel[p] # "NONE"
    /\ parcel' = [parcel EXCEPT ![p] = s]
    /\ patched' = patched \union {p}
    /\ UNCHANGED <<binding, offline, confirmed, confirming, reshelved, outbox, batch, pulling,
                   local, byCode, sessionVars, uploadVars, missed, disordered, planted>>

-----------------------------------------------------------------------------
(* Server: pickup_confirm *)

(* The event id is new, the binding ACTIVE and the parcel not picked up.   *)
(* Nothing is locked.  (A known event id returns the first answer; a       *)
(* parcel already picked up changes nothing either.)                       *)
CheckConfirm(r, id, p) ==
    /\ \A x \in confirming : x[1] # r
    /\ \A y \in confirmed : y[1] # id
    /\ binding[p] = "ACTIVE"
    /\ parcel[p] # "PICKED_UP"
    /\ confirming' = confirming \union {<<r, id, p>>}
    /\ UNCHANGED <<parcel, binding, offline, confirmed, reshelved, outbox, batch, pulling,
                   local, byCode, sessionVars, uploadVars, history>>

(* The transaction commits all but the release of the binding.             *)
RecordConfirm(x) ==
    /\ x \in confirming
    /\ \A y \in confirmed : y[1] # x[2]
    /\ confirming' = confirming \ {x}
    /\ parcel' = [parcel EXCEPT ![x[3]] = "PICKED_UP"]
    /\ confirmed' = confirmed \union {<<x[2], x[3]>>}
    /\ outbox' = Append(outbox, Down("CONFIRMED", x[3]))
    /\ UNCHANGED <<offline, reshelved, batch, pulling, local, byCode, sessionVars,
                   uploadVars, history>>

(* Slip: the tag keeps its binding.                                        *)
ConfirmWithoutRelease(x) == RecordConfirm(x) /\ UNCHANGED binding

CommitConfirm(x) ==
    /\ RecordConfirm(x)
    /\ binding' = [binding EXCEPT ![x[3]] = "RELEASED"]

(* The event id was inserted since: the unique key fails the transaction.  *)
ConfirmConflict(x) ==
    /\ x \in confirming
    /\ \E y \in confirmed : y[1] = x[2]
    /\ confirming' = confirming \ {x}
    /\ UNCHANGED <<parcel, binding, offline, confirmed, reshelved, outbox, batch, pulling,
                   local, byCode, sessionVars, uploadVars, history>>

-----------------------------------------------------------------------------
(* Gateway: commands that record an event and queue it in a second commit *)

(* A command that starts while another one's event on the same parcel is   *)
(* not queued may be overtaken by it.                                      *)
RecordEvent(e) ==
    /\ uploads < MaxUpload
    /\ e \notin unqueued
    /\ uploads' = uploads + 1
    /\ unqueued' = unqueued \union {e}
    /\ disordered' = disordered \union {d.parcel : d \in {u \in unqueued : u.parcel = e.parcel}}
    /\ UNCHANGED queue

EnqueueEventUpload(e) ==
    /\ e \in unqueued
    /\ unqueued' = unqueued \ {e}
    /\ queue' = Append(queue, e)
    /\ UNCHANGED <<serverVars, outbox, batch, pulling, local, byCode, sessionVars, uploads,
                   history>>

(* inbound-parcel looks the parcel up by its code.  The row it makes, when *)
(* there is none, precedes any that PARCEL_UPSERT makes later.             *)
InboundParcel(p) ==
    /\ RecordEvent(Up("INBOUND", p))
    /\ IF byCode[p] # "NONE" \/ local[<<"parcel", p>>] = "NONE"
       THEN byCode' = [byCode EXCEPT ![p] = "WAITING_PICKUP"] /\ UNCHANGED local
       ELSE local' = [local EXCEPT ![<<"parcel", p>>] = "WAITING_PICKUP"] /\ UNCHANGED byCode
    /\ UNCHANGED <<serverVars, outbox, batch, pulling, sessionVars, patched, missed, planted>>

(* confirm-pickup does not look at the status; the bindings it releases    *)
(* are those of the row it found.                                          *)
ConfirmPickup(p) ==
    /\ RecordEvent(Up("PICKUP", p))
    /\ \/ /\ byCode[p] # "NONE"
          /\ byCode' = [byCode EXCEPT ![p] = "PICKED_UP"]
          /\ UNCHANGED local
       \/ /\ byCode[p] = "NONE"
          /\ local[<<"parcel", p>>] # "NONE"
          /\ local' = [local EXCEPT ![<<"parcel", p>>] = "PICKED_UP",
                                    ![<<"binding", p>>] = IF @ = "ACTIVE" THEN "RELEASED" ELSE @]
          /\ UNCHANGED byCode
    /\ UNCHANGED <<serverVars, outbox, batch, pulling, sessionVars, patched, missed, planted>>

(* seed-demo-gate makes a row, unless the gateway has one with the code,   *)
(* and tells nobody.                                                       *)
SeedDemoGate(p) ==
    /\ byCode[p] = "NONE" /\ local[<<"parcel", p>>] = "NONE"
    /\ byCode' = [byCode EXCEPT ![p] = "WAITING_PICKUP"]
    /\ planted' = planted \union {p}
    /\ UNCHANGED <<serverVars, outbox, batch, pulling, local, sessionVars, uploadVars, patched,
                   missed, disordered>>

-----------------------------------------------------------------------------
(* Server: apply_gateway_business_event, for one event of the queue *)

(* Slip: the server tells nobody that it does not know the parcel.         *)
NeverRefused(e) == FALSE

(* A pickup of a parcel the server does not know: the gateway names it by  *)
(* its code, and unless that is a number int() raises and the answer is    *)
(* 500, so that the event will be sent again.                              *)
Refused(e) == /\ e.kind = "PICKUP"
              /\ parcel[e.parcel] = "NONE"
              /\ e.parcel \notin Numeric

(* Event i is the next to take effect: those before it failed.             *)
Deliverable(i) ==
    /\ i \in DOMAIN queue
    /\ ~ Refused(queue[i])
    /\ "uploadFails" \in Fault \/ \A j \in 1..(i - 1) : Refused(queue[j])

TakeFromQueue(i) ==
    /\ queue' = [j \in 1..(Len(queue) - 1) |-> IF j < i THEN queue[j] ELSE queue[j + 1]]
    /\ disordered' = IF \E j \in 1..(i - 1) : queue[j].parcel = queue[i].parcel
                     THEN disordered \union {queue[i].parcel} ELSE disordered

(* Slip: a parcel that exists keeps its status.                            *)
InboundOnlyCreates(i) ==
    /\ Deliverable(i)
    /\ queue[i].kind = "INBOUND"
    /\ parcel' = [parcel EXCEPT ![queue[i].parcel] = IF @ = "NONE" THEN "WAITING_PICKUP" ELSE @]
    /\ TakeFromQueue(i)
    /\ UNCHANGED <<binding, offline, confirmed, confirming, reshelved, outbox, batch, pulling,
                   local, byCode, sessionVars, unqueued, uploads, patched, missed, planted>>

(* apply_gateway_inbound makes the parcel WAITING_PICKUP, whatever it was, *)
(* and may move it to another shelf.                                       *)
ApplyInbound(i) ==
    /\ Deliverable(i)
    /\ queue[i].kind = "INBOUND"
    /\ LET p == queue[i].parcel IN
       /\ parcel' = [parcel EXCEPT ![p] = "WAITING_PICKUP"]
       /\ reshelved' \in {reshelved, (reshelved \union {p}) \intersect Seeded, reshelved \ {p}}
    /\ TakeFromQueue(i)
    /\ UNCHANGED <<binding, offline, confirmed, confirming, outbox, batch, pulling, local, byCode,
                   sessionVars, unqueued, uploads, patched, missed, planted>>

(* apply_gateway_pickup_event: a parcel it does not find leaves no trace.  *)
ApplyPickup(i) ==
    /\ Deliverable(i)
    /\ queue[i].kind = "PICKUP"
    /\ LET p == queue[i].parcel IN
       IF parcel[p] = "NONE"
       THEN UNCHANGED <<parcel, offline>>
       ELSE /\ parcel' = [parcel EXCEPT ![p] = "PICKED_UP"]
            /\ offline' = offline \union {p}
    /\ TakeFromQueue(i)
    /\ UNCHANGED <<binding, confirmed, confirming, reshelved, outbox, batch, pulling, local,
                   byCode, sessionVars, unqueued, uploads, patched, missed, planted>>

-----------------------------------------------------------------------------
(* Gateway: sync_pull_once and apply_sync_event, on a session that does    *)
(* not flush before a SELECT (see CardSync)                                *)

ParcelsIn(events) == {events[i].parcel : i \in DOMAIN events}
RowsIn(rows)      == {p \in Parcel : \E t \in {"parcel", "binding"} : rows[<<t, p>>] # "NONE"}

ServePull ==
    /\ pulling = "idle"
    /\ outbox # <<>>
    /\ outbox' = <<>>
    /\ batch' = outbox
    /\ pulling' = "reply"
    /\ UNCHANGED <<serverVars, local, byCode, sessionVars, uploadVars, history>>

ReceiveReply ==
    /\ pulling = "reply"
    /\ ~ broken
    /\ pulling' = "applying"
    /\ UNCHANGED <<serverVars, outbox, batch, local, byCode, sessionVars, uploadVars, history>>

(* The batch is gone, and with it what the session had not committed.      *)
DropBatch ==
    /\ pulling' = "idle"
    /\ batch' = <<>>
    /\ missed' = missed \union ParcelsIn(batch) \union RowsIn(added) \union RowsIn(held)
    /\ UNCHANGED <<serverVars, outbox, local, byCode, uploadVars, patched, disordered, planted>>

ReceiveOnBrokenSession ==
    /\ pulling = "reply"
    /\ broken
    /\ DropBatch
    /\ UNCHANGED sessionVars

NextEventIs(kind) ==
    /\ pulling = "applying"
    /\ batch # <<>>
    /\ Head(batch).kind = kind

Loaded(k) == IF held[k] # "NONE" THEN held[k] ELSE local[k]

Assign(rows, s) ==
    /\ seen' = [k \in Row |-> IF k \in rows /\ held[k] = "NONE" THEN local[k] ELSE seen[k]]
    /\ held' = [k \in Row |-> IF k \in rows THEN s[k[1]] ELSE held[k]]

(* A row that is only in `added' is not found and is added once more.      *)
InsertOrAssign(k, s) ==
    /\ IF Loaded(k) = "NONE"
       THEN /\ added' = [added EXCEPT ![k] = s]
            /\ twice' = (twice \/ added[k] # "NONE")
            /\ UNCHANGED <<seen, held>>
       ELSE /\ Assign({k}, [t \in {"parcel", "binding"} |-> s])
            /\ UNCHANGED <<added, twice>>
    /\ UNCHANGED broken

ApplyUpsert ==
    /\ NextEventIs("UPSERT")
    /\ InsertOrAssign(<<"parcel", Head(batch).parcel>>, "WAITING_PICKUP")
    /\ batch' = Tail(batch)
    /\ UNCHANGED <<serverVars, outbox, pulling, local, byCode, uploadVars, history>>

ApplyBind ==
    /\ NextEventIs("BIND")
    /\ InsertOrAssign(<<"binding", Head(batch).parcel>>, "ACTIVE")
    /\ batch' = Tail(batch)
    /\ UNCHANGED <<serverVars, outbox, pulling, local, byCode, uploadVars, history>>

FoundRows(p) == {k \in {"parcel", "binding"} \X {p} : Loaded(k) # "NONE"}

SetConfirmed(rows, bindingStatus) ==
    /\ NextEventIs("CONFIRMED")
    /\ Assign(rows, [parcel |-> "PICKED_UP", binding |-> bindingStatus])
    /\ missed' = IF Cardinality(FoundRows(Head(batch).parcel)) = 2 THEN missed
                 ELSE missed \union {Head(batch).parcel}
    /\ batch' = Tail(batch)
    /\ UNCHANGED <<serverVars, outbox, pulling, local, byCode, added, twice, broken,
                   uploadVars, patched, disordered, planted>>

(* Slips: only the parcel is updated; both rows get the parcel's status.   *)
ConfirmedKeepsTag ==
    SetConfirmed({k \in FoundRows(Head(batch).parcel) : k[1] = "parcel"}, "RELEASED")
ConfirmedAlike == SetConfirmed(FoundRows(Head(batch).parcel), "PICKED_UP")

(* Rows that the SELECTs do not find are left as they are.                 *)
ApplyConfirmed == SetConfirmed(FoundRows(Head(batch).parcel), "RELEASED")

EmptySession == added' = NoRows /\ seen' = NoRows /\ held' = NoRows /\ twice' = FALSE

SessionCommits ==
    /\ ~ twice
    /\ local' = [k \in Row |-> IF added[k] # "NONE" THEN added[k]
                               ELSE IF held[k] # seen[k] THEN held[k] ELSE local[k]]
    /\ EmptySession
    /\ UNCHANGED broken

CommitBatch ==
    /\ pulling = "applying"
    /\ batch = <<>>
    /\ SessionCommits
    /\ pulling' = "idle"
    /\ UNCHANGED <<serverVars, outbox, batch, byCode, uploadVars, history>>

(* The MQTT client's thread, or a gate decision inside the batch           *)
CommitEarly ==
    /\ pulling = "applying"
    /\ SessionCommits
    /\ UNCHANGED <<serverVars, outbox, batch, pulling, byCode, uploadVars, history>>

(* server_parcel_id is unique: the second insert fails the flush, and      *)
(* nobody calls rollback() on the session.                                 *)
CommitFails ==
    /\ pulling = "applying"
    /\ twice
    /\ DropBatch
    /\ EmptySession
    /\ broken' = TRUE

LoseReply ==
    /\ "loseReply" \in Fault
    /\ pulling = "reply"
    /\ DropBatch
    /\ UNCHANGED sessionVars

Restart ==
    /\ "crash" \in Fault
    /\ pulling # "idle" \/ broken
    /\ DropBatch
    /\ EmptySession
    /\ broken' = FALSE

-----------------------------------------------------------------------------
ServerNext ==
    \/ EnsureDemoData
    \/ \E p \in Parcel : CreateParcel(p)
    \/ \E p \in Patchable, s \in Status \ {"NONE"} : PatchParcelStatus(p, s)
    \/ \E r \in Request, id \in EventId, p \in Parcel : CheckConfirm(r, id, p)
    \/ \E x \in Request \X EventId \X Parcel : CommitConfirm(x) \/ ConfirmConflict(x)

UploadNext ==
    \/ \E p \in Parcel : InboundParcel(p) \/ ConfirmPickup(p)
    \/ \E p \in Plantable : SeedDemoGate(p)
    \/ \E e \in UpEvent : EnqueueEventUpload(e)
    \/ \E i \in 1..MaxUpload : ApplyInbound(i) \/ ApplyPickup(i)

PullNext ==
    \/ ServePull \/ ReceiveReply \/ ApplyUpsert \/ ApplyBind \/ ApplyConfirmed
    \/ CommitBatch \/ CommitEarly \/ CommitFails \/ ReceiveOnBrokenSession
    \/ LoseReply \/ Restart

Next == ServerNext \/ UploadNext \/ PullNext

Spec == Init /\ [][Next]_vars

-----------------------------------------------------------------------------
(* Properties *)

(* Every variable holds values of its kind.                                *)
TypeOK ==
    /\ parcel \in [Parcel -> Status]
    /\ binding \in [Parcel -> BindingStatus]
    /\ offline \subseteq Parcel
    /\ confirmed \subseteq EventId \X Parcel
    /\ confirming \subseteq Request \X EventId \X Parcel
    /\ reshelved \subseteq Parcel
    /\ outbox \in Seq(DownEvent)
    /\ batch \in Seq(DownEvent)
    /\ pulling \in {"idle", "reply", "applying"}
    /\ local \in RowValues
    /\ byCode \in [Parcel -> Status]
    /\ added \in RowValues
    /\ seen \in RowValues
    /\ held \in RowValues
    /\ twice \in BOOLEAN
    /\ broken \in BOOLEAN
    /\ unqueued \subseteq UpEvent
    /\ queue \in Seq(UpEvent)
    /\ uploads \in 0..MaxUpload
    /\ patched \subseteq Parcel
    /\ missed \subseteq Parcel
    /\ disordered \subseteq Parcel
    /\ planted \subseteq Parcel

Confirmed(p)      == \E y \in confirmed : y[2] = p
HasPickupEvent(p) == p \in offline \/ Confirmed(p)

(* The server's tables agree with one another, however confirmations,      *)
(* offline pickups and re-registrations interleave: a binding is released  *)
(* exactly when a user's confirmation is on record, and a parcel that is   *)
(* PICKED_UP without a PickupEvent was set so by an administrator.         *)
PickupIsOnRecord ==
    \A p \in Parcel :
       /\ binding[p] = "RELEASED" <=> Confirmed(p)
       /\ parcel[p] = "PICKED_UP" => HasPickupEvent(p) \/ p \in patched

PickupRemembered(p) ==
    "PICKED_UP" \in {byCode[p], local[<<"parcel", p>>]} =>
       \/ HasPickupEvent(p)
       \/ Up("PICKUP", p) \in unqueued
       \/ \E i \in DOMAIN queue : queue[i] = Up("PICKUP", p)

(* A pickup the gateway has recorded is never forgotten: it is on record   *)
(* on the server, or its event is still to be queued or to take effect     *)
(* (server README section 7: OFFLINE_PICKUP records the pickup and updates *)
(* the parcel).                                                            *)
NoPickupForgotten == \A p \in Parcel : PickupRemembered(p)

(* A pickup is forgotten only if the parcel's code is a number, so that    *)
(* the server does not refuse the event of a parcel that it does not know, *)
(* and the server did not know it: the pickup overtook the inbound event   *)
(* that would have made the parcel known, or the gateway's row came from   *)
(* seed-demo-gate, which sends none.  (A refused event is sent again.)     *)
ForgottenOnlyIfUnknown ==
    \A p \in Parcel : PickupRemembered(p) \/ p \in Numeric \intersect (disordered \union planted)

(* Once everything a gateway has recorded of a parcel of its own has taken *)
(* effect, the server agrees with the gateway on the parcel's status,      *)
(* unless events overtook one another, an administrator intervened, or the *)
(* gateway's row came from seed-demo-gate.                                 *)
GatewayParcelConverges ==
    \A p \in Parcel \ Seeded :
       /\ byCode[p] # "NONE"
       /\ p \notin patched \union disordered \union planted
       /\ \A e \in unqueued : e.parcel # p
       /\ \A i \in DOMAIN queue : queue[i].parcel # p
       => parcel[p] = byCode[p]

(* When the gateway has applied all there is, a tag whose binding a user's *)
(* confirmation released is released on the gateway too, so that it is not *)
(* woken for the next visitor; except where the event, or the rows it was  *)
(* for, were missed.                                                       *)
ReleasedUnlessMissed ==
    \A p \in Parcel :
       /\ outbox = <<>>
       /\ pulling = "idle"
       /\ binding[p] = "RELEASED"
       /\ p \notin missed
       => local[<<"binding", p>>] = "RELEASED"
=============================================================================
