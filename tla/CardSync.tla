------------------------------ MODULE CardSync ------------------------------
(***************************************************************************)
(* The life cycle of access cards, from the server that issues, replaces   *)
(* and revokes them to the SQLite cache from which each gateway of the     *)
(* station decides who may pass the gate.                                  *)
(*                                                                         *)
(* Server (smartparcel-server/app/services/services.py): every change of a *)
(* card commits together with one PENDING GatewaySyncEvent per gateway.    *)
(* A pull marks all PENDING rows SENT before the reply leaves, so a reply  *)
(* that is lost is never sent again.                                       *)
(*                                                                         *)
(* Gateway (smartparcel-gateway/gateway/services/sync_service.py): a batch *)
(* is applied on one SQLAlchemy session opened with autoflush=False.  What *)
(* a batch inserts or modifies stays in the session until the commit that  *)
(* ends it, unless a gate decision or the MQTT client's thread commits the *)
(* session earlier; a SELECT sees the committed rows only, and hands back  *)
(* the session's object for a row it has already loaded.                   *)
(***************************************************************************)
EXTENDS Naturals, Sequences, FiniteSets

CONSTANTS
    User,        \* users of one station
    Card,        \* card UIDs
    Gateway,     \* gateways of the station
    NoUser,      \* owner of a UID that was never issued
    MaxAuth,     \* bound on GATE_USER_AUTH_REQUESTED events per run
    Fault,       \* which faults may happen: subset of {"loseReply", "crash"}
    LocalCommand \* gateway commands in use: subset of {"seed", "replace", "register"}

ASSUME ConstantsOK ==
    /\ NoUser \notin User
    /\ MaxAuth \in Nat
    /\ Fault \subseteq {"loseReply", "crash"}
    /\ LocalCommand \subseteq {"seed", "replace", "register"}

Terminal == {"LOST", "REPLACED", "DISABLED"}
Issued   == Terminal \union {"ACTIVE"}
Status   == Issued \union {"NONE"}         \* "NONE": no row for this UID

(* A row of gateway_sync_events, reduced to what the gateway acts on. *)
CardEvent == [kind : {"UPSERT"}, card : Card, status : {"ACTIVE"}]
             \union [kind : {"DISABLED"}, card : Card, status : Terminal]
AuthEvent == [kind : {"AUTH"}]
Event     == CardEvent \union AuthEvent

(* Slips in the payload: a status the enum of the gateway does not have    *)
(* for a card, and a payload built before the status is assigned.          *)
DisabledUnknownStatus(c, s) == [kind |-> "DISABLED", card |-> c, status |-> "EXPIRED"]
DisabledBuiltTooEarly(c, s) == [kind |-> "DISABLED", card |-> c, status |-> "ACTIVE"]

(* _credential_payload, taken after the row got its new status *)
Upsert(c)      == [kind |-> "UPSERT", card |-> c, status |-> "ACTIVE"]
Disabled(c, s) == [kind |-> "DISABLED", card |-> c, status |-> s]
Auth           == [kind |-> "AUTH"]

NoRows == [c \in Card |-> "NONE"]

VARIABLES
    status,    \* server: status of each UID in user_access_credentials
    owner,     \* server: user_id of that row
    changing,  \* server: LOST and DISABLED requests that have read the card ACTIVE
    auths,     \* number of GATE_USER_AUTH_REQUESTED events queued so far
    outbox,    \* server: PENDING events of each gateway, in id order
    batch,     \* gateway: events of the pull reply not applied yet
    pulling,   \* gateway: "idle", "reply" (SENT, not yet received), "applying"
    local,     \* gateway: committed status of each UID in local_nfc_credentials
    added,     \* gateway: rows the session will insert at its next commit
    seen,      \* gateway: status of a row the session modified, as it was loaded
    held,      \* gateway: status the session's object for that row holds now
    broken,    \* gateway: a flush failed and the session refuses all further work
    lost,      \* history: cards with an event that was SENT and never committed
    masked,    \* history: cards whose DISABLED event found no row to disable
    operated   \* history: cards a command of the gateway's operator wrote

serverVars  == <<status, owner, changing, auths>>
sessionVars == <<added, seen, held, broken>>
history     == <<lost, masked, operated>>
vars == <<status, owner, changing, auths, outbox, batch, pulling, local,
          added, seen, held, broken, lost, masked, operated>>

Init ==
    /\ status = NoRows
    /\ owner = [c \in Card |-> NoUser]
    /\ changing = {}
    /\ auths = 0
    /\ outbox = [g \in Gateway |-> <<>>]
    /\ batch = [g \in Gateway |-> <<>>]
    /\ pulling = [g \in Gateway |-> "idle"]
    /\ local = [g \in Gateway |-> NoRows]
    /\ added = [g \in Gateway |-> NoRows]
    /\ seen = [g \in Gateway |-> NoRows]
    /\ held = [g \in Gateway |-> NoRows]
    /\ broken = [g \in Gateway |-> FALSE]
    /\ lost = [g \in Gateway |-> {}]
    /\ masked = [g \in Gateway |-> {}]
    /\ operated = [g \in Gateway |-> {}]

-----------------------------------------------------------------------------
(* Server *)

(* Slip: the new card is added without looking for the one it replaces.    *)
NoCards(u) == {}

ActiveCards(u) == {c \in Card : owner[c] = u /\ status[c] = "ACTIVE"}

(* One PENDING row for every gateway of the station, in the transaction of *)
(* the change itself.                                                      *)
QueueStationEvents(events) ==
    outbox' = [g \in Gateway |-> outbox[g] \o events]

(* Slip: only a UID that is ACTIVE now is refused.                         *)
NotActive(c) == status[c] # "ACTIVE"

NeverIssued(c) == status[c] = "NONE"

(* bind_user_card: both reads take row locks (FOR UPDATE) that are held to *)
(* the commit, so the whole transaction is one step.  A UID that was ever  *)
(* issued is refused; the card it replaces is disabled before the new one  *)
(* is announced.                                                           *)
BindCard(u, c) ==
    /\ NeverIssued(c)
    /\ LET old == ActiveCards(u) IN
       /\ Cardinality(old) <= 1
       /\ status' = [d \in Card |-> IF d = c THEN "ACTIVE"
                                    ELSE IF d \in old THEN "REPLACED"
                                    ELSE status[d]]
       /\ IF old = {}
          THEN QueueStationEvents(<<Upsert(c)>>)
          ELSE \E d \in old :
                 QueueStationEvents(<<Disabled(d, "REPLACED"), Upsert(c)>>)
    /\ owner' = [owner EXCEPT ![c] = u]
    /\ UNCHANGED <<changing, auths, batch, pulling, local, sessionVars, history>>

(* report_card_lost and disable_user_card read the card without a lock ... *)
ReadForChange(c, to) ==
    /\ status[c] = "ACTIVE"
    /\ changing' = changing \union {<<c, to>>}
    /\ UNCHANGED <<status, owner, auths, outbox, batch, pulling, local,
                   sessionVars, history>>

(* Slip: the event is queued and committed, the row is not changed.        *)
AnnounceChange(c, to) ==
    /\ <<c, to>> \in changing
    /\ changing' = changing \ {<<c, to>>}
    /\ QueueStationEvents(<<Disabled(c, to)>>)
    /\ UNCHANGED <<status, owner, auths, batch, pulling, local, sessionVars, history>>

(* ... and write what they decided, whatever the row holds by then.        *)
CommitChange(c, to) ==
    /\ <<c, to>> \in changing
    /\ changing' = changing \ {<<c, to>>}
    /\ status' = [status EXCEPT ![c] = to]
    /\ QueueStationEvents(<<Disabled(c, to)>>)
    /\ UNCHANGED <<owner, auths, batch, pulling, local, sessionVars, history>>

(* request_gate_auth *)
RequestGateAuth ==
    /\ auths < MaxAuth
    /\ auths' = auths + 1
    /\ QueueStationEvents(<<Auth>>)
    /\ UNCHANGED <<status, owner, changing, batch, pulling, local,
                   sessionVars, history>>

(* gateway_pull_sync: all PENDING rows become SENT and are returned.       *)
ServePull(g) ==
    /\ pulling[g] = "idle"
    /\ outbox[g] # <<>>
    /\ outbox' = [outbox EXCEPT ![g] = <<>>]
    /\ batch' = [batch EXCEPT ![g] = outbox[g]]
    /\ pulling' = [pulling EXCEPT ![g] = "reply"]
    /\ UNCHANGED <<serverVars, local, sessionVars, history>>

-----------------------------------------------------------------------------
(* Gateway: sync_pull_once and apply_sync_event *)

CardsIn(events) == {events[i].card : i \in {j \in DOMAIN events : events[j].kind # "AUTH"}}
RowsIn(rows)    == {c \in Card : rows[c] # "NONE"}

Drop(g, cards) == lost' = [lost EXCEPT ![g] = @ \union cards]

(* What SELECT ... WHERE credential_value = c returns: nothing while the   *)
(* row is only in `added', the session's own object, not refreshed, when   *)
(* the session has modified it.                                            *)
Loaded(g, c) == IF held[g][c] # "NONE" THEN held[g][c] ELSE local[g][c]

(* row.status = s on a loaded row *)
Assign(g, c, s) ==
    /\ seen' = [seen EXCEPT ![g][c] = IF held[g][c] = "NONE" THEN local[g][c] ELSE @]
    /\ held' = [held EXCEPT ![g][c] = s]

(* A flush inserts what was added and updates only attributes whose value  *)
(* differs from the one that was loaded.                                   *)
Flushed(g) ==
    [c \in Card |-> IF added[g][c] # "NONE" THEN added[g][c]
                    ELSE IF held[g][c] # seen[g][c] THEN held[g][c]
                    ELSE local[g][c]]

(* credential_value is unique: inserting a row that another process has    *)
(* inserted meanwhile fails the flush.                                     *)
InsertConflict(g) == \E c \in Card : added[g][c] # "NONE" /\ local[g][c] # "NONE"

EmptySession(g) ==
    /\ added' = [added EXCEPT ![g] = NoRows]
    /\ seen' = [seen EXCEPT ![g] = NoRows]
    /\ held' = [held EXCEPT ![g] = NoRows]

SessionCommits(g) ==
    /\ ~ InsertConflict(g)
    /\ local' = [local EXCEPT ![g] = Flushed(g)]
    /\ EmptySession(g)
    /\ UNCHANGED broken

(* Slip: the caller rolls back and carries on with the rest of the batch.  *)
SessionRollsBack(g) ==
    /\ InsertConflict(g)
    /\ EmptySession(g)
    /\ Drop(g, RowsIn(added[g]) \union RowsIn(held[g]))
    /\ UNCHANGED <<serverVars, outbox, batch, pulling, local, broken, masked, operated>>

(* The exception leaves sync_pull_once: the rest of the batch is gone, the *)
(* flush was rolled back, and nobody calls rollback() on the session.      *)
SessionBreaks(g) ==
    /\ InsertConflict(g)
    /\ broken' = [broken EXCEPT ![g] = TRUE]
    /\ EmptySession(g)
    /\ batch' = [batch EXCEPT ![g] = <<>>]
    /\ pulling' = [pulling EXCEPT ![g] = "idle"]
    /\ Drop(g, CardsIn(batch[g]) \union RowsIn(added[g]) \union RowsIn(held[g]))
    /\ UNCHANGED <<serverVars, outbox, local, masked, operated>>

ReceiveReply(g) ==
    /\ pulling[g] = "reply"
    /\ ~ broken[g]
    /\ pulling' = [pulling EXCEPT ![g] = "applying"]
    /\ UNCHANGED <<serverVars, outbox, batch, local, sessionVars, history>>

(* The first SELECT on a broken session raises: the batch is dropped.      *)
ReceiveOnBrokenSession(g) ==
    /\ pulling[g] = "reply"
    /\ broken[g]
    /\ pulling' = [pulling EXCEPT ![g] = "idle"]
    /\ batch' = [batch EXCEPT ![g] = <<>>]
    /\ Drop(g, CardsIn(batch[g]))
    /\ UNCHANGED <<serverVars, outbox, local, sessionVars, masked, operated>>

NextEventIs(g, kind) ==
    /\ pulling[g] = "applying"
    /\ batch[g] # <<>>
    /\ Head(batch[g]).kind = kind

(* Slip: the guard forgets the cards that were replaced or disabled.       *)
IsLost(old, new) == old = "LOST" /\ new = "ACTIVE"

StaysTerminal(old, new) == old \in Terminal /\ new = "ACTIVE"

(* USER_ACCESS_CREDENTIAL_UPSERT: insert, or update unless the row is      *)
(* terminal and the event would make it ACTIVE again.                      *)
ApplyUpsert(g) ==
    /\ NextEventIs(g, "UPSERT")
    /\ batch' = [batch EXCEPT ![g] = Tail(@)]
    /\ LET e == Head(batch[g]) IN
       IF Loaded(g, e.card) = "NONE"
       THEN /\ added' = [added EXCEPT ![g][e.card] = e.status]
            /\ UNCHANGED <<seen, held>>
       ELSE /\ IF StaysTerminal(Loaded(g, e.card), e.status)
               THEN UNCHANGED <<seen, held>>
               ELSE Assign(g, e.card, e.status)
            /\ UNCHANGED added
    /\ UNCHANGED <<serverVars, outbox, pulling, local, broken, history>>

(* USER_ACCESS_CREDENTIAL_DISABLED: ignored when the SELECT finds no row.  *)
ApplyDisabled(g) ==
    /\ NextEventIs(g, "DISABLED")
    /\ batch' = [batch EXCEPT ![g] = Tail(@)]
    /\ LET e == Head(batch[g]) IN
       IF Loaded(g, e.card) = "NONE"
       THEN /\ masked' = [masked EXCEPT ![g] = @ \union {e.card}]
            /\ UNCHANGED <<seen, held>>
       ELSE /\ Assign(g, e.card, e.status)
            /\ UNCHANGED masked
    /\ UNCHANGED <<serverVars, outbox, pulling, local, added, broken, lost, operated>>

(* GATE_USER_AUTH_REQUESTED: AccessControlService commits the session it   *)
(* was given, and with it everything the batch has applied so far.         *)
ApplyAuth(g) ==
    /\ NextEventIs(g, "AUTH")
    /\ SessionCommits(g)
    /\ batch' = [batch EXCEPT ![g] = Tail(@)]
    /\ UNCHANGED <<serverVars, outbox, pulling, history>>

(* Slip: the batch ends without the commit.                                *)
EndBatch(g) ==
    /\ pulling[g] = "applying"
    /\ batch[g] = <<>>
    /\ pulling' = [pulling EXCEPT ![g] = "idle"]
    /\ UNCHANGED <<serverVars, outbox, batch, local, sessionVars, history>>

(* The commit that ends the batch *)
CommitBatch(g) ==
    /\ pulling[g] = "applying"
    /\ batch[g] = <<>>
    /\ SessionCommits(g)
    /\ pulling' = [pulling EXCEPT ![g] = "idle"]
    /\ UNCHANGED <<serverVars, outbox, batch, history>>

(* handle_server_command runs on the MQTT client's thread and commits the  *)
(* session of the run loop, wherever in the batch that is.                 *)
CommitFromMqtt(g) ==
    /\ pulling[g] = "applying"
    /\ SessionCommits(g)
    /\ UNCHANGED <<serverVars, outbox, batch, pulling, history>>

(* Any of these commits finds a UID that another process has inserted.     *)
CommitFails(g) ==
    /\ pulling[g] = "applying"
    /\ SessionBreaks(g)

-----------------------------------------------------------------------------
(* Gateway commands run by an operator in a process of their own *)

Row(g, c) == local[g][c]

WriteRows(g, cards, rows) ==
    /\ local' = [local EXCEPT ![g] = rows]
    /\ operated' = [operated EXCEPT ![g] = @ \union cards]
    /\ UNCHANGED <<serverVars, outbox, batch, pulling, sessionVars, lost, masked>>

(* seed-demo-gate inserts an ACTIVE row where there is none.               *)
SeedLocal(g, c) ==
    /\ "seed" \in LocalCommand
    /\ Row(g, c) = "NONE"
    /\ WriteRows(g, {c}, [local[g] EXCEPT ![c] = "ACTIVE"])

(* replace-card-demo: the old UID must have a row, the new one must have   *)
(* none or be ACTIVE already.                                              *)
ReplaceLocal(g, old, new) ==
    /\ "replace" \in LocalCommand
    /\ old # new
    /\ Row(g, old) # "NONE"
    /\ Row(g, new) \in {"NONE", "ACTIVE"}
    /\ WriteRows(g, {old, new}, [local[g] EXCEPT ![old] = "REPLACED", ![new] = "ACTIVE"])

(* register-nfc-credential makes the row ACTIVE, whatever it was.          *)
RegisterLocal(g, c) ==
    /\ "register" \in LocalCommand
    /\ WriteRows(g, {c}, [local[g] EXCEPT ![c] = "ACTIVE"])

-----------------------------------------------------------------------------
(* Faults *)

(* The reply never arrives (connection lost, or slower than the gateway's  *)
(* 15 s timeout): the rows stay SENT.                                      *)
LoseReply(g) ==
    /\ "loseReply" \in Fault
    /\ pulling[g] = "reply"
    /\ pulling' = [pulling EXCEPT ![g] = "idle"]
    /\ batch' = [batch EXCEPT ![g] = <<>>]
    /\ Drop(g, CardsIn(batch[g]))
    /\ UNCHANGED <<serverVars, outbox, local, sessionVars, masked, operated>>

(* The gateway process stops and is started again with a new session.      *)
Restart(g) ==
    /\ "crash" \in Fault
    /\ pulling[g] # "idle" \/ broken[g]
    /\ pulling' = [pulling EXCEPT ![g] = "idle"]
    /\ batch' = [batch EXCEPT ![g] = <<>>]
    /\ EmptySession(g)
    /\ broken' = [broken EXCEPT ![g] = FALSE]
    /\ Drop(g, CardsIn(batch[g]) \union RowsIn(added[g]) \union RowsIn(held[g]))
    /\ UNCHANGED <<serverVars, outbox, local, masked, operated>>

-----------------------------------------------------------------------------
ServerNext ==
    \/ \E u \in User, c \in Card : BindCard(u, c)
    \/ \E c \in Card, to \in {"LOST", "DISABLED"} :
          ReadForChange(c, to) \/ CommitChange(c, to)
    \/ RequestGateAuth

PullNext(g) ==
    \/ ServePull(g)
    \/ ReceiveReply(g)
    \/ ReceiveOnBrokenSession(g)
    \/ ApplyUpsert(g)
    \/ ApplyDisabled(g)
    \/ ApplyAuth(g)
    \/ CommitBatch(g)
    \/ CommitFails(g)

OperatorNext(g) ==
    \/ \E c \in Card : SeedLocal(g, c) \/ RegisterLocal(g, c)
    \/ \E old, new \in Card : ReplaceLocal(g, old, new)

FaultNext(g) == LoseReply(g) \/ Restart(g)

Next ==
    \/ ServerNext
    \/ \E g \in Gateway :
          PullNext(g) \/ CommitFromMqtt(g) \/ OperatorNext(g) \/ FaultNext(g)

Spec == Init /\ [][Next]_vars

(* The run loop of cli_run calls sync_pull_once every 30 s for as long as  *)
(* the process lives, and the server answers each call.                    *)
FairSpec == Spec /\ \A g \in Gateway : WF_vars(PullNext(g))

-----------------------------------------------------------------------------
(* Properties *)

(* Every variable holds values of its kind.                                *)
TypeOK ==
    /\ status \in [Card -> Status]
    /\ owner \in [Card -> User \union {NoUser}]
    /\ changing \subseteq Card \X {"LOST", "DISABLED"}
    /\ auths \in 0..MaxAuth
    /\ outbox \in [Gateway -> Seq(Event)]
    /\ batch \in [Gateway -> Seq(Event)]
    /\ pulling \in [Gateway -> {"idle", "reply", "applying"}]
    /\ local \in [Gateway -> [Card -> Status]]
    /\ added \in [Gateway -> [Card -> Status]]
    /\ seen \in [Gateway -> [Card -> Status]]
    /\ held \in [Gateway -> [Card -> Status]]
    /\ broken \in [Gateway -> BOOLEAN]
    /\ lost \in [Gateway -> SUBSET Card]
    /\ masked \in [Gateway -> SUBSET Card]
    /\ operated \in [Gateway -> SUBSET Card]

(* A user of the station has at most one ACTIVE card, however binding,     *)
(* loss reports and staff revocations interleave (bind_user_card turns the *)
(* card it replaces into REPLACED in the same transaction).                *)
OneActiveCardPerUser ==
    \A c, d \in Card :
       /\ status[c] = "ACTIVE"
       /\ status[d] = "ACTIVE"
       /\ owner[c] = owner[d]
       => c = d

(* On the server a UID is issued once: it keeps its owner, and once it is  *)
(* LOST, REPLACED or DISABLED no sequence of requests makes it ACTIVE      *)
(* again (bind_user_card refuses a known UID).                             *)
IssuedOnce ==
    [][\A c \in Card :
          status[c] # "NONE" =>
             /\ owner'[c] = owner[c]
             /\ status'[c] # "NONE"
             /\ status[c] \in Terminal => status'[c] \in Terminal]_vars

(* In a gateway's database only the explicit register-nfc-credential       *)
(* command reactivates a terminal UID; applying server events and local    *)
(* card replacement never do (apply_sync_event's guard on UPSERT).         *)
NoStaleReactivation ==
    [][\A g \in Gateway, c \in Card :
          /\ local[g][c] \in Terminal
          /\ local'[g][c] \notin Terminal
          => RegisterLocal(g, c)]_vars

(* The gateway has nothing outstanding: no event queued for it, in flight, *)
(* or applied but not committed.                                           *)
Synced(g) == outbox[g] = <<>> /\ pulling[g] = "idle"

(* A synced gateway holds exactly the server's status of every card that   *)
(* its operator has not written, except for cards an event of which was    *)
(* lost with a reply or a process, or was a DISABLED that found no row:    *)
(* these two are the only ways the gate's view goes stale, and a command   *)
(* on one card never makes it stale on another by a third.                 *)
StaleOnlyIfLostOrMasked ==
    \A g \in Gateway, c \in Card :
       Synced(g) /\ c \notin lost[g] \union masked[g] \union operated[g]
          => local[g][c] = status[c]

(* On a card that its operator has not written, a gateway never runs ahead *)
(* of the server: a UID it knows was issued, a UID it refuses as terminal  *)
(* is terminal on the server, and a card that the server holds ACTIVE is   *)
(* never refused for a status of its own.                                  *)
GatewayNeverAhead ==
    \A g \in Gateway : \A c \in Card \ operated[g] :
       /\ local[g][c] # "NONE" => status[c] # "NONE"
       /\ local[g][c] \in Terminal => status[c] \in Terminal

(* Each gateway's table is a copy of the server's that only ever moves     *)
(* forward and never past the server, and every card has one life on the   *)
(* server, whatever the events, pulls and sessions in between do.          *)
Copies == INSTANCE CardCopies WITH card <- status, copy <- local, overruled <- operated

CopiesSpec == Copies!Spec

(* A card the server has revoked stops opening the gate of every gateway   *)
(* that keeps pulling, unless one of its events was lost or masked or the  *)
(* gateway's operator has written the card.                                *)
RevokedEventuallyRefused ==
    \A g \in Gateway, c \in Card :
       status[c] \in Terminal ~>
          (local[g][c] # "ACTIVE" \/ c \in lost[g] \union masked[g] \union operated[g])

(* While the gateway runs and every reply arrives, an event is lost only   *)
(* to a session broken by a UID that a command inserted meanwhile; from    *)
(* then on the session drains the server's queue and applies nothing, and  *)
(* nothing but a restart mends it.                                         *)
LostOnlyIfBroken ==
    [][\A g \in Gateway :
          /\ lost'[g] # lost[g] => broken'[g] \/ FaultNext(g)
          /\ broken[g] /\ ~ broken'[g] => Restart(g)]_vars

(* What the READMEs promise ("after a sync the replaced card can no longer *)
(* open the door"): a synced gateway has no revoked card ACTIVE, provided  *)
(* no reply was lost.                                                      *)
RevokedRefusedAfterSync ==
    \A g \in Gateway, c \in Card :
       /\ Synced(g)
       /\ c \notin lost[g]
       /\ status[c] \in Terminal
       => local[g][c] # "ACTIVE"

(* The same promise where the card's row was there to be disabled: it then *)
(* rests on every event marked SENT being received.                        *)
RevokedRefusedAfterDelivery ==
    \A g \in Gateway, c \in Card :
       /\ Synced(g)
       /\ c \notin masked[g]
       /\ status[c] \in Terminal
       => local[g][c] # "ACTIVE"
=============================================================================
