# Smart parcel station: TLA+ specifications

This directory holds TLA+ models of the smart parcel station's protocols, the
TLC configurations that check them on small instances, and theorems about them
checked by TLAPS. Source paths below are relative to the repository root;
`server` stands for `smartparcel-server/app`, `gateway` for
`smartparcel-gateway/gateway`.

## 1. The system

A *server* (FastAPI, MySQL) owns users, cards, parcels and gateways. A
*gateway* (one process with a run loop, an MQTT client thread and a local HTTP
API, on SQLite; plus operator commands run as processes of their own) keeps a
local copy so that the station works while the server cannot be reached. At
the gate a *reader* (ESP32) asks the gateway whether a card may pass; the
gateway wakes the *clip tags* (nRF52810, Bluetooth) on that user's parcels.

| Component | State it keeps | Operations | Hard behaviour | What makes it correct |
|---|---|---|---|---|
| server: cards, outbox, sync pull (`server/services/services.py` 217-367, 1004-1012) | `user_access_credentials`, `gateway_sync_events` | bind, report lost, disable, request gate authentication, pull | row locks in one operation and none in the others; events are SENT before the reply leaves | one active card per user, a UID is issued once, every change is announced |
| gateway: applying events (`gateway/services/sync_service.py` 37-191) | `local_nfc_credentials`, `local_parcels`, bindings, one long-lived `autoflush=False` session | one branch per event kind, commit per batch | SELECT does not see the batch's own inserts, other commits in mid-batch, a failed flush poisons the session, crash, lost reply | the local view equals the server's, or the reason is known |
| gateway: upload queue; server: push (`sync_service.py` 193-239, `services.py` 1015-1190) | `sync_queue`, pickup events; `gateway_sync_events` by `event_id` | record, enqueue, push loop; duplicate check, business effect | retry after timeouts, two pushers, concurrent requests, commit by another thread, crash | effect at most once, nothing acknowledged early, every event gets through |
| server: parcels and pickup (`services.py` 370-442, 919-1001, 1056-1169, 1193-1246) | parcels, tag bindings, pickup events, notifications | create, patch, confirm, gateway inbound and pickup, demonstration data | confirmations overlap, nothing is locked, gateway events arrive in another order | tables agree, no pickup is forgotten |
| server and gateway: provisioning (`services.py` 452-842, `gateway/provisioning_api.py`) | registration tokens, gateway rows with their secret, factory devices, `.env`, `gateway_config`, binding sessions | register, prepare, bind, activate, heartbeat, confirm, revoke | commit on one side and failure on the other, two activations, a heartbeat across a change of secret | a token binds once, one secret known to both sides, what is shown as bound or online is |
| gateway: access control (`gateway/services/access_control_service.py`, `task_service.py`, `mqtt/handlers.py`, `local_api.py` 195-300) | pickup sessions, wake tasks, audit events, gate authentication and QR sessions | card decision, decision for a phone, wake, expiry, MQTT command | every step is a commit; three kinds of threads, one unflushed session, crash between two commits, a decision after expiry | an open door is on record, nothing left hanging, two people see two colours |
| gateway: tags (`local_api.py` 92-130, 330-480, `cli.py` 300-560, `sync_service.py` 130-191) | `local_tags`, bindings, the operator's session | register, scan, wake and other commands, bind, release, report, server's bindings and pickups | read, wait for Bluetooth, write; two registrations at once; overlapping binds and releases | numbers and names are a tag's own, its status says what it is used for |
| clip tag firmware (`clip-node-nrf52810/src/main.c`, `clip_state.c`, `led_rgb.c`, `remove_sensor.c`) | state, binding, light, alert timer | command frames, alert, timeout, removal, battery | Bluetooth thread, work queue and main loop on one state | an alert ends, state and binding agree |
| gate reader firmware (`gate-access/main`) | page, poll deadlines | card, QR, polling | deadlines against late answers | the page shows the last decision |
| request authentication, users, stations, login, listings, user interfaces, deployment | rows | reads and single writes | - | - |

They interact by HTTP requests (gateway to server; reader to gateway; user
interfaces to server), by MQTT commands (server to gateway), by Bluetooth
frames (gateway to tag), and inside the gateway by a shared SQLAlchemy session
(run loop and MQTT thread) and a shared SQLite file (all its processes).

`PROJECT.json` lists the hazards of this code at the line where each bites,
with the properties that cover it, or why none does yet.

## 2. Plan

Modules are written in the order of what the station depends on most.

1. `CardSync` with the abstract specification `CardCopies` (done): who may pass
   the gate, from the server's tables to the gateway's copy. Proofs in
   `CardSync_proofs` (done).
2. `UploadQueue` with the abstract specification `EventDelivery` (done): what
   happens at the station reaches the server once. Proofs in
   `UploadQueue_proofs` (done).
3. `ParcelSync` (done): the parcels themselves. Of the queue it uses only what
   `EventDelivery` promises. Proofs in `ParcelSync_proofs` (done).
4. `Provisioning` (done): how server and gateway come to share a secret.
5. `GateAccess` with the abstract specification `GateDoor` (done): what happens
   between a card or a phone and an open door. It takes the answer "this card is this user's" for granted, which is
   what `CardSync` is about, and the order of the parcel events from
   `ParcelSync`.
6. `Tags` (done): the registry of clip tags and what binds them to parcels.
   Theorems of these three are in `Provisioning_proofs`, `GateAccess_proofs` and
   `Tags_proofs` (done): every invariant their runs check, `GrantStands`, and that
   `GateDoor` is implemented.

Left: a second puller in `CardSync` (`sync-pull` beside the run loop); the
broken session of a pull composed with the push that shares it; the tag's
firmware, whose alert timer and Bluetooth thread share one state.

## 3. The modules

### CardSync and CardCopies

Variables `status`, `owner` are the server's card rows; `changing` are the loss
reports and revocations that have read the card and not yet committed;
`outbox[g]` the PENDING `gateway_sync_events` of gateway `g`, `batch[g]` the
reply it is working on, `pulling[g]` how far the pull is. `local[g]` is the
committed table, `added`, `seen`, `held` the session: rows to insert, and for
each row it has modified the value loaded and the value held. `broken` is a
session whose flush failed. `lost` and `masked` are history: cards with an
event that was sent and never committed, and cards whose DISABLED event found
no row; `operated` are the cards whose row a command of the gateway's operator
has written.

| Action | Code |
|---|---|
| `BindCard` | `bind_user_card`, one step because both reads lock (`FOR UPDATE`; InnoDB's gap locks cover the UID that has no row) |
| `ReadForChange`, `CommitChange` | `report_card_lost`, `disable_user_card`: an unlocked read, then a write |
| `RequestGateAuth` | `request_gate_auth`, as far as it queues an event |
| `ServePull` | `gateway_pull_sync` |
| `ReceiveReply`, `ReceiveOnBrokenSession` | the reply reaches `sync_pull_once` |
| `ApplyUpsert`, `ApplyDisabled`, `ApplyAuth` | the branches of `apply_sync_event`; `ApplyAuth` commits, as `handle_gate_auth_by_user` does |
| `CommitBatch`, `CommitFails`, `CommitFromMqtt` | the commit after the batch, a failed flush, the commit of the MQTT thread |
| `SeedLocal`, `ReplaceLocal`, `RegisterLocal` | the commands `seed-demo-gate`, `replace-card-demo`, `register-nfc-credential`, each one transaction |
| `LoseReply`, `Restart` | faults |

Three facts of SQLAlchemy carry the model. With `autoflush=False` a SELECT does
not see what the session has added. A row the session has loaded and modified
comes back as the session's own object, not refreshed; one it has not modified
leaves the identity map and is read again. A flush writes only attributes that
differ from what was loaded. After a flush that failed, every use of the
session raises until somebody calls `rollback()`, and nobody does.

Assumed: one pull at a time per gateway; pending rows are returned in id
order; the server's session flushes the card's row before the event's insert,
so that the ids of the events of one card follow the order of its changes; the
several commits inside one gate authentication are taken as one; SQLite does
not report "database is locked"; the demonstration data's card is not part of
the model.

`CardCopies` is the abstract specification, without events, pulls or sessions:
the server issues a card once and then revokes it for good; a gateway's copy is
brought forward at any time to a point the server has passed (`Refresh`), never
back and never ahead; only an operator may overrule it, for the cards he names
(`Overrule`). `CardSync` implements it with `card` the server's `status`, `copy`
the committed table `local`, and `overruled` the history variable `operated`.

### UploadQueue and EventDelivery

`row` is the committed `sync_queue` status, `uploaded` the pickup events marked
UPLOADED. Each pusher has the rows of its loop still to send (`todo`) and its
session's values (`seen`, `held`). A request carries one event and passes from
`sent` through `checked` (looked up, found new) to an answer; when its sender
has given up it goes on by itself. `ledger` is the set of ids in the server's
`gateway_sync_events`, `applied` counts how often an event's business effect
was committed. `contested` remembers the events whose row one pusher loaded while
another had it in its session.

| Action | Code |
|---|---|
| `RecordLocally`, `EnqueueEventUpload` | the two commits of `inbound-parcel` and `create_pickup_event` |
| `StartPush`, `Send`, `ReceiveOk`, `ReceiveError`, `TimeOut`, `FinishPush` | `sync_push_once`, one commit at its end |
| `CommitFromMqtt` | `handle_server_command` commits the same session from the MQTT thread |
| `Crash` | the process stops anywhere inside the loop |
| `AnswerDuplicate`, `FindNew`, `ApplyEvent`, `InsertConflict` | `gateway_push_sync`, with the lookup and the insert as separate steps and the unique key on `event_id` |
| `Refuse`, `Lose` | an error answer with rollback; a request or an answer lost |

`Poison` are events the server refuses every time, such as one without an
`event_id` (422) or an inbound event without a parcel code (400).

`EventDelivery` is the abstract specification: queue an event, let it take
effect once, record acknowledgements only of what took effect. `UploadQueue`
implements it with `queued` the rows that exist, `effects` the counter and
`acked` the rows marked ACKED.

### ParcelSync

`parcel` and `binding` are the server's status of each parcel and of its tag
binding, reduced to what the handlers distinguish ("OTHER" is any status they
do not look at). `offline` and `confirmed` are the two kinds of pickup event.
`confirming` holds the confirmations that have passed their checks. The
gateway has `byCode`, the row that `inbound-parcel` makes (its
`server_parcel_id` is the parcel *code*), and `local`, the rows under the
server's *numbers*, which is all that events from the server reach. The session is
that of `CardSync`; here it fails when a batch inserts one row twice.
`unqueued` and `queue` are events on their way up. `patched`, `missed`,
`disordered` and `planted` (parcels that `seed-demo-gate` has made) are history.

| Action | Code |
|---|---|
| `EnsureDemoData` | `ensure_demo_data`, its parcels and bindings |
| `CreateParcel`, `PatchParcelStatus` | `create_parcel`, `patch_parcel_status` |
| `CheckConfirm`, `CommitConfirm`, `ConfirmConflict` | `pickup_confirm`: its checks, its commit, or the unique key on `event_id` |
| `InboundParcel`, `ConfirmPickup`, `EnqueueEventUpload` | the commands `inbound-parcel` and `confirm-pickup`, and their second commit |
| `SeedDemoGate` | the command `seed-demo-gate`, as far as it makes a waiting parcel, of which no event tells the server |
| `ApplyInbound`, `ApplyPickup` | `apply_gateway_inbound`, `apply_gateway_pickup_event` |
| `ServePull` ... `Restart` | the pull, as in `CardSync`, with `ApplyUpsert`, `ApplyBind`, `ApplyConfirmed` for the three parcel events |

An event of the queue takes effect when those before it have, unless an
earlier one failed: `Deliverable` allows that when uploads may fail or when the
earlier event is one the server answers with 500 (`Refused`: a pickup of an
unknown parcel whose code `int()` does not accept). Both handlers are one
step: they write the status without testing it, so that an interleaving has
the effect of one order or the other.

Assumed or left out: one gateway; a numeric code that happens to be another
parcel's number; the bindings made by `bind-tag` and by `seed-demo-gate`, which
are rows of their own (the seed's is under the parcel's code, not under a server
number); the tag rows; notifications. "Administrator" is whoever calls
`patch_parcel_status`. Other writers of parcels that the repository has do not
touch what is modelled: `fix_demo_parcel_shelf_code.py` repairs a shelf code,
and `sync_pull`'s branch for denormalised parcels (`sync_service.py:47-76`) reads
a key that `gateway_pull_sync` does not send.

### Provisioning

Server: `token` (registration tokens), `gateway` (rows by code: status, secret,
factory code), `factory` (factory devices). Secrets are numbers in the order
in which they are stored. The handlers read their rows without a lock and
SQLAlchemy writes, at the commit, the columns whose value differs from the one
read; hence an operation is a *check* and a *commit* with the rows read in
between (`req`, `register`, `beat`, `ending`), and `Written` says what a commit
does to a column. Gateway: `env` is `.env`, `proc` the process that runs and
`held` the settings it has loaded, `cfg` the row in SQLite, `bind` and `session`
the phone's bind requests and their `gateway_binding_sessions`.

| Action | Code |
|---|---|
| `CreateToken`, `PrepareProvisioning` | `create_gateway_registration_token`, `prepare_gateway_provisioning` with the suffix for a code in use |
| `ReadForRevoke`, `ReadForListing`, `CommitEnding` | `revoke_gateway_registration_token` and the listing's expiry, which write over what they have read as PENDING |
| `ReadForRegister`, `RegisterGateway` | `register_gateway`, the administrator's own secret and status |
| `CheckActivation`, `RefuseActivation`, `FailActivation`, `CommitActivation` | `activate_gateway_registration`: its tests, a 401, a unique key violated, its one commit |
| `CheckBeat`, `RefuseBeat`, `CommitBeat`, `LoseBeat` | `verify_gateway_request` and `gateway_heartbeat` |
| `AdmitBind`, `RejectBody`, `ForwardBind`, `StoreConfig`, `BindFails`, `StoreFails`, `VerifyBind`, `CompleteBind` | `local_provisioning_bind`; the event loop serves others only while a body is read |
| `StartProvisioning`, `StartRun`, `RunBeat`, `Stop` | the `provisioning` and `run` commands, a crash at any point |
| `CliActivate`, `CliStores`, `CliFails` | the `bootstrap-activate` command, a process of its own |
| `OutsideActivate`, `OutsideBeat` | other callers of the same end points |

`ConfirmAnswer` is what `confirm_gateway_provisioning` answers, from the gateway's
row or, for a code that no gateway has, from the factory device's.
`doubled`, `crossed`, `disturbed`, `latest`, `heard`, `spoken`, `declared`, `uses`
are history; the properties use them to say in which case, and no other, a
promise may fail: `heard` are the secrets with which a heartbeat was accepted,
`spoken` the devices one was accepted from, `declared` the secrets that an
administrator registered as ONLINE.

A gateway's status is a string, and `GatewayRegisterIn` (`schemas.py:84`) lets the
administrator write any. `Requested` has those that some code compares with
(ACTIVE, ONLINE, BOUND), and DISABLED for all the others; with any but the first
two a gateway cannot sign requests (`security.py:253`). A heartbeat's status is a
string too (`GatewayHeartbeatIn`); it is assumed to be ONLINE, which is what the
gateway sends (`server_client.py:46`). One that is signed by the gateway and says
something else would only take a row out of ONLINE.

Assumed: one heartbeat at a time; one process on port 19000; a write of `.env`
is atomic (the code writes a backup first); a failing write of SQLite, which
`_sync_gateway_config` swallows, is left out. Timestamps, nonces, the body's
hash and the bodies' other fields are one choice of refusing a body; a factory
device is DISABLED only by an operator in the database (`Barred`).

### GateAccess and GateDoor

Server: `shelf`, the parcels' status, `tied`, those with an ACTIVE binding, and
`events` for this station. Gateway:
`parcel` and `bound` are committed; `staged` is what the session of the run loop
holds and has not flushed, `batch` the events it has still to apply. Each thread
(`proc`) is at a place in `handle_access_card`: `granted` or `denied` (decided,
nothing written), `waking` (the pickup session committed), `created`, `running`
(the wake task's two commits), `audited`. Pickup sessions (`pickup`), tasks and
gate authentication sessions (`auth`) are committed rows. `code` numbers QR
codes; 0 is a decision without one. `entered` says which rows the station's
commands have made, `uploads` which of their events the server has still to
apply, and `apart` (history) which parcels have been changed on one side only:
by these commands or by `patch_parcel_status`.

| Action | Code |
|---|---|
| `PutOnShelf`, `ConfirmPickup`, `RequestGateAuth` | what the server queues for the station |
| `CliInboundParcel`, `CliConfirmPickup`, `CliSeedDemoGate` | the commands `inbound-parcel` (with a receiver), `confirm-pickup` and `seed-demo-gate`, as far as they change parcels and bindings |
| `ApplyGatewayEvent` | `apply_gateway_inbound`, `apply_gateway_pickup_event`: the server applies the event of a command, at any time and in any order |
| `PatchParcelStatus` | `patch_parcel_status`, with any status ("OTHER" for those nobody looks at) |
| `Pull`, `ApplyPut`, `ApplyPicked`, `EndBatch` | the run loop's batch, on its `autoflush=False` session |
| `HandleAccessCard`, `HandleGateAuth` | the query and the decision, from a card or from a request in the batch |
| `CommitSession` | the pickup session, with the colour counted before |
| `SkipUnbound`, `CreateTask`, `MarkRunning`, `MarkFinished` | the loop over the parcels, `TaskService`, the Bluetooth wake |
| `EnqueueAudit`, `FinishAccess` | the audit events; `GateAuthSession` in `handle_access_card_http` or `handle_gate_auth_by_user` |
| `HandleServerCommand` | TAG_WAKE in `handle_server_command`, on the run loop's session: each of its commits is a `Flush` |
| `GateQrSession`, `GateAuthResult`, `ExpireSession`, `PassExpiry` | the reader's end points, with the read of a PENDING session and its expiry as two steps |
| `Crash` | all threads, the session and the batch are gone |

Assumed: the reader polls at any time; the select and the commit of the row in
`handle_gate_auth_by_user` are one step; a QR code passes its expiry only while
it is PENDING; the server wakes tags of parcels it knows of; a batch that
arrives does so whole (losing it is `CardSync`'s and `ParcelSync`'s subject). The
`gate-access` command takes the steps of a card, without a session row.

`Parcel` has the gateway's rows as members. A parcel that is entered at the station
under a code the server has announced becomes a second row, since the server's
row goes by a number; that is a second member, and the model lets the server's
status of the two change separately, which is more than the code does. The
receiver typed at the station is the `Owner`, and stays so. The credential that
`seed-demo-gate` writes is `SeedLocal` in `CardSync`; here `Holder` is constant.
Left out: `create_parcel`, which queues no event, so that its parcel waits on the
server only and adds to `due`; the second announcement of a parcel that
`ensure_demo_data` puts back on the shelf; `bind-tag` and `release-tag`, which
change `bound` only and are actions of `Tags`; the writers named under
`ParcelSync` as touching nothing that is modelled.

`GateDoor` says what people at the gate may rely on: it shows codes and gives
answers, opens only for an access that is on record, once for each, and an answer
to a code stands, unless the code is excused. Its `answers` are `auth`, the
rows the reader polls; an access is on record (`OnRecord`) when it is audited
and none of its wake tasks is open; excused are codes that a phone has repeated
or whose decision `crossed` a poll. Threads, batches and commits map to
stutters, `FinishAccess` to `Answer` or `Decide`, a poll's commit to `Expire`,
and `EnqueueAudit` to `Record`.

### Tags

`row` is `local_tags` by tag id, reduced to status, local number, uid, Bluetooth
name and address; a device is its address, and `Legacy` gives the tag id that a
device with an old factory name carries as its name. `active` and `ever` are the
bindings (`seeded`: those made by `seed-demo-gate`), `token` the operator's session. `op` are operations that have read
rows and not yet written: a registration, a command over Bluetooth that waits
for its answer, a bind, a release. `Written` is again SQLAlchemy's write of
changed columns only. `overlapped` remembers the tags written on the ground of
rows that another operation has changed since.

| Action | Code |
|---|---|
| `IssueToken`, `EndToken` | a `local_api_sessions` row, made by hand with `generate_local_session_token`, revoked or expired, and made again; each counts as one of the `MaxDone` operations |
| `RegisterFromBle`, `CommitNew`, `CommitKnown` | `register_from_ble` |
| `ScanTags` | `scan_tags`, which refreshes addresses |
| `ConnectTag`, `WakeTag`, `StopTag`, `ReadTagStatus`, `ApplyBleResult` | the Bluetooth end points, before and after the answer |
| `RegisterTag`, `ReportTagException` | the commands of these names |
| `BindTag`, `CommitBind` | `bind-tag`: its first commit registers the tag if it is unknown and that is allowed, its second adds the binding and sets the tag RUNNING |
| `ReleaseTag`, `ConfirmPickup`, `ApplyPickup`, `CommitRelease` | `release-tag`, `confirm-pickup`, PARCEL_PICKUP_CONFIRMED |
| `ApplyBinding` | PARCEL_TAG_BINDING_UPSERT |
| `SeedDemoGate` | `seed-demo-gate`: an ACTIVE binding, if the parcel has had none, with a new IDLE tag or one left as it was |

Assumed: a scan finds one device; ERROR stands for LOW_BATTERY too; two ACTIVE
binding rows of one parcel and tag are one; the commands' upload events are
left to `UploadQueue`.

## 4. The runs

All states of each instance are visited.

| Run | What it asks | Answer |
|---|---|---|
| `card_sync` | one user, two cards, one gateway, lost replies and restarts, no operator commands: do the server's rules hold, and does a revocation arrive? | `OneActiveCardPerUser` and `IssuedOnce` hold; a revoked card is refused in the end unless its event was lost or masked (`RevokedEventuallyRefused`) |
| `card_sync_local` | the same with the three operator commands: when is the gateway's view stale? | it is exact on a synced gateway except for cards whose event was lost or masked or that the operator wrote (`StaleOnlyIfLostOrMasked`), never ahead but for the latter (`GatewayNeverAhead`); only `register-nfc-credential` reactivates a revoked card (`NoStaleReactivation`); without a fault events are lost only to a broken session (`LostOnlyIfBroken`); `CardCopies` is implemented (`CopiesSpec`) |
| `card_sync_masked` | no fault at all: is a revoked card refused after the sync? | no, see 6.1 |
| `card_sync_lost_reply` | lost replies, masking aside: is a revoked card refused after the sync? | no, see 6.2 |
| `upload_queue` | two events, the run loop and a `sync-push` command, two overlapping requests, a crash | effect at most once, nothing claimed early, an acknowledged row stays so and is not sent again unless two pushers had it in hand at once (`AckedIsFinal`), `EventDelivery` implemented |
| `upload_queue_retry` | the run loop alone; the first event is refused for good | the second is acknowledged in the end |
| `parcel_sync` | one parcel of the demonstration data and one of the gateway's own, whose code is a number, two overlapping confirmations with two event ids, two uploads, every fault | the server's tables agree (`PickupIsOnRecord`), an offline pickup is forgotten only if its code is a number and the server did not know the parcel, because its events overtook one another or `seed-demo-gate` made it (`ForgottenOnlyIfUnknown`), both sides converge in order unless somebody intervened (`GatewayParcelConverges`), a released tag is released at the station unless its event was missed (`ReleasedUnlessMissed`) |
| `parcel_sync_overtaken` | the same for a parcel whose code is a number | a pickup is forgotten, see 6.3 |
| `provisioning` | one factory device and a barred one, two gateway codes, two tokens, two overlapping activations, two bind requests, two secrets, a fault or intervention: is there one secret? | a token binds once unless two requests passed the check together (`TokenBindsOnce`); the secret in `.env` is the server's unless the latest answer is on its way, lost, or overtaken (`StoredSecretIsCurrent`); a bound device belongs to a gateway that says so (`BoundDeviceHasGateway`); ONLINE was heard, or declared by an administrator (`ConfirmedOnlineWasHeard`) |
| `provisioning_documented` | the same: do the parameters the server prepares bind the device? | no, see 6.4 |
| `gate_access` | a user with a parcel and a card, a QR code, three events, wake commands or one-sided changes in any mixture, a crash | `ColoursDiffer`, `GrantOnRecord`, `TaskInHand`, `GrantHadParcel`, `GrantStands` hold; `GateDoor` is implemented (`DoorSpec`); a request that arrived decides its session in the end (`RequestDecided`) |
| `tags` | two devices, one of which has the first tag's id as its old name, two tags, two parcels, two operations that overlap, five in all, `seed-demo-gate` and the operator's sessions among them | `NumbersDiffer`, `DeviceNamedOnce`, `AddressIsOwn`, `BoundNotIdle`, `RunningHasReason` hold, each with the exceptions it names. The first three are about sequences of registrations, scans and commands; two that overlap are their exception |

**Bounds.** Two cards of one user are the least with which a replacement, a
masked revocation and a race between revoking and replacing can happen; the
actions relate at most two cards, and gateways do not interact. `MaxAuth = 1`
lets one commit fall at every position of a batch; in `card_sync_local` the MQTT
thread's commits do that alone. Two requests for one event
are needed for the race on the unique key and for a late request behind a
retry; two events for one failing before another. In `ParcelSync` two uploads
are an inbound event and a pickup, in both orders; a third would repeat one of
them. `Patchable` limits the administrator to one parcel; the parcels do not
share rows. `Plantable` does the same for `seed-demo-gate`, which is run for the
parcel whose pickup the server can forget. The theorems of section 5 remove the
bounds for what they state.

In `Provisioning` two tokens and two codes let a device be activated under one
code after another, and two secrets let an answer be overtaken by a second
activation or by an administrator's registration. `MaxTrouble` counts
faults and interventions of all kinds together, so that each occurs alone at
every point. In `GateAccess` one user suffices, as users share only the number
of sessions, which a card and two requests raise past `Colours = 2`. `MaxEvent`
counts the server's events, wake commands and one-sided changes together. Three
are a parcel put, its pickup and a request; or a parcel put, patched and
asked for; or one entered at the station, confirmed there and asked for: each
way the two sides can differ, with the request that meets it. Without either of
the exceptions `missed` and `apart`, three violate `GrantHadParcel`. In
`Tags` two tag ids are needed for a number taken twice and for an old name, five
operations for bind, wake, release, bind and a late answer.

**Symmetry** is used only in runs without liveness properties, over values
that no definition names (cards, users, requests, event ids, tokens, bind
requests, operations, parcels).

**Deadlock** is not checked: with every card revoked, or every event
acknowledged and the bound on new ones reached, nothing is left to happen; so
it is when the bounds on secrets, cards or operations are reached.

**Fairness.** `CardSync`: weak fairness of the pull, which the run loop calls
every 30 seconds and `Restart=always` (`gateway_qt_autostart.sh`) restores;
nothing is assumed of the server's users, the MQTT thread, operators or faults.
`UploadQueue`: weak fairness of the run loop's steps (a push every 15 seconds),
of a started command, and of every request, which ends if only by being lost.
Strong fairness, per event, of the lookup, the commit, an answer in time and
its arrival: an event sent again and again is not unlucky at the same place
every time. Without the last assumption no protocol of retries terminates. It
does not cover a session broken by the pull that shares it: the run assumes
the session is sound, and what happens otherwise is on the list of hazards.
`GateAccess`: weak fairness of `LoopStep`, the run loop's own steps, and of
nothing else. The loop always has a next statement to execute; what it waits
for, a Bluetooth exchange, ends by itself (it scans for a fixed time and waits
at most two seconds for an answer, `services/ble/real.py:36,113`). A crash is
excused in the property, not assumed away.

## 5. What is proved

For every value of the constants that satisfies `ConstantsOK`.

`CardSync_proofs`:

- `TypeCorrect`. The only step with content is the session's flush, and that
  an event at the head of a batch names a card and a status it can have.
- `OneActive`. Inductive together with `TypeOK`: `BindCard` makes every card in
  `ActiveCards` REPLACED in the step that adds a new one; no other action makes
  a card ACTIVE.
- `IssuedOnceHolds`. Needs `ServerInv`: a request in `changing` is for a UID that
  was issued, since a commit writes its status without looking again.
- `NoStaleReactivationHolds`. The guard `StaysTerminal` looks at the row as it
  was loaded, and the flush comes later; the strengthening `SessionInv` says
  that an object held ACTIVE was loaded ACTIVE, so that the flush does not
  write it, even if a command has made the row terminal meanwhile.
- `NeverAhead`. The invariant `ViewInv` says that every event in an outbox or a
  batch, and every value in the session or the table, was true of the server
  once, but for the rows an operator wrote; the server's statuses only advance
  (`TruthLasts`), so it still holds in the weak sense that matters.
- `LostMeansBroken`. A batch is dropped by a fault, by the failure that breaks the
  session, or by the broken session itself; nothing mends it but a restart.
- `StaleHasCause`. `DeliveryInv` follows each card
  along its events: `Leads(s, c, v, w)` says that events s, applied to a row with
  status v, leave status w (an UPSERT comes first and only to a gateway without
  a row; the last event carries w). The batch leads from what the session will
  commit (`View`) to some status m, and the outbox from m to the server's. With
  both empty and the session committed, the row is the server's status. A
  command ends this for the cards it writes and leaves the others alone: even a
  conflict of its row with the session's only drops a batch, which is what
  `lost` is for.
- `ImplementsCopies`. A commit of the session is a `Refresh`: by `ViewInv` the
  flushed rows are not ahead of the server, and by `SessionInv` a flush that
  writes a row takes it from a value at most as far (`CommitAdvances`); what
  `changing` holds was issued, so that a late commit is a `Revoke`; the rest
  are stutters (`CopiesStep`, one step per action).

`UploadQueue_proofs`:

- `TypeCorrect`.
- `EffectAtMostOnce`, `ClaimsAreTrue`. The invariant `IInv` is the conjunction of
  `TypeOK`, `AppliedOnce`, `NothingClaimedEarly`, that a loop holds and sends
  only queued events, and that an "ok" on its way, or an ACKED in a session,
  is of an event in the ledger. `NothingClaimedEarly` alone is not inductive: a
  commit copies what the session holds.
- `ImplementsDelivery`. Every step maps to `Queue`, `TakeEffect`, `Record` or a
  stutter; needs `IInv` to know that what takes effect had been queued.
- `AcknowledgedForGood`, for any number of pushers. `HandInv`: a row that is not in
  the history variable `contested` is in one pusher's hands at most (`OneHand`),
  and once it is ACKED, or will be at the next flush, in no loop's list and in no
  request somebody waits for (`AckedAtRest`), so that nothing can write FAILED
  over it.

`ParcelSync_proofs`:

- `TypeCorrect`.
- `TablesAgree`. Inductive together with `TypeOK`: two confirmations of one
  parcel may both commit, and the second changes nothing the property sees.
- `ForgottenUnknown`, without an assumption on the codes, and `NothingForgotten`,
  what it says where no code is a number (6.3 shows why that is needed).
  `NewsInv` says that every PARCEL_PICKUP_CONFIRMED on its way down, and every
  PICKED_UP the session holds, is of a parcel whose confirmation is on record.
  With it, `PickedUpForAReason`: a row becomes PICKED_UP by a confirmation or in
  the commit that records the pickup's event. `KnownInv`: events and rows from
  the server are of parcels the server has, so that a parcel it does not know
  was registered here. `OrderInv`: the events of such a parcel are on their way
  in the order in which they were recorded, its INBOUND first, unless it is in
  `disordered`; hence an event leaves the queue only when the server has
  recorded it, because an unknown parcel's pickup is refused, or follows its
  registration, or overtook it. A parcel of `seed-demo-gate` has no INBOUND to
  come first; it is in `planted`, which `OrderInv` excepts likewise.
- `GatewayParcelsConverge`. `OwnInv`: no event from the server is about a parcel of
  the gateway's own. `ConvergeInv`: the queued events bring the server's status to
  some status m (`Brings`: the last one carries it, and a pickup that comes first
  finds the parcel there), and the event that is recorded but not queued carries
  the gateway's status. Taking an event out of turn would break this, which is
  what `disordered` excepts; so would a row without an event, which is what
  `planted` excepts, and a status set by hand (`patched`).
- `ReleasesArrive`. `ReleaseInv` has three parts for each parcel. `EventsFit`: in the
  outbox and in the batch nothing about a binding comes before its BIND
  (`BindFirst`), and while a BIND is on its way the gateway has no row of it.
  `RowFits`: what the session holds of the binding is RELEASED and will be
  written, or is there already. `Releasing`: a release that was not missed is in
  the outbox, the batch, the session or the table. It uses that the two parcels
  of the demonstration data are different ones.

`Provisioning_proofs`, with the invariant `Inv`. `StepKinds` splits the steps into
those that are `Quiet` (no row, secret or answer is new) and the eight actions
that are not; each part of `Inv` has a lemma for the first kind and a step lemma
for the rest.

- `TypeCorrect`.
- `TokensBindOnce`. `TokenInv`: a token that is not `doubled` has at most one use,
  is PENDING only without one, and while it is PENDING at most one request has
  passed the check with it.
- `StoredSecretsAreCurrent`. `SecretInv`: the secret in `.env` is the server's or
  the answer with the newer one is on its way to this process; an answer carries
  the server's secret; two answers for one code are on their way only if the
  code is `disturbed`.
- `BoundDevicesHaveGateways`. `DeviceInv`: `latest` is the device in the gateway's
  row, and a device that a request has read with a gateway keeps one.
- `ConfirmedGatewaysWereHeard`. `BeatInv`: a heartbeat that passed the check
  carries the secret the row still has, or that secret has `crossed` it. A row
  becomes ONLINE by such a heartbeat or by a registration, which stores a secret of
  its own and with it is in `declared`; a factory row becomes ONLINE by a heartbeat
  only, which puts its device in `spoken`.

`GateAccess_proofs`, with the invariant `AccessInv`:

- `TypeCorrect`. That `pickup` and `auth` do not outgrow their bounds needs a
  count (`CountInv`): every session, and every thread that is about to make one,
  has used up a card read or an event.
- `PeopleInStationFollowOtherColours`. `PooledColours`: outside `overlapped` the
  k-th session has the colour (k - 1) % Colours; the rest is arithmetic.
- `GrantsAreOnRecord`. `SessionInv`: a pickup session belongs to one thread until
  it is recorded, no task of a recorded one was cut off, and a recorded one is
  `audited`; with `TaskInHand`, a task that has not ended would be in the hands
  of a thread whose session is recorded, and there is none.
- `TasksAreInHand`. Inductive with `ThreadsOK`, what each place of a thread
  implies about its session and its tag.
- `GrantsStand`. `PollInv`: a poll about to expire a session has found it
  PENDING, or the decision has crossed it. `AskInv`: a QR code that no phone has
  repeated is on its way once, or in the hands of the run loop, or answered,
  granted or denied.
- `ImplementsDoor`, the refinement, step by step. What is on record stays there
  (`RecordAfter`): a task starts only in the hands of a thread whose session is
  not audited (`AtWork`). `FinishDecides`: what a thread records is a verdict
  that `GateDoor` allows, its session is on record and no row of `auth` has it
  yet (`SessionInv`), and the row it writes is open by `AskInv`.
  `ReaderShowsOrExpires` uses `PollInv`: the row that a poll expires is still
  PENDING, or its decision has crossed the poll.
- `GrantsHadParcels`. `Stream` is `batch \o events`; a step adds one event at its
  end or takes some from its front (`ParcelsAfter`). `OneTrace`: a parcel's PUT
  is there at most once, and before it is applied the gateway holds nothing of
  the parcel. `GoneBy(p, i)`: when the loop comes to place i, p is no longer
  waiting, or its pickup is not flushed, or was missed; this holds at every
  request that found nothing due. A parcel changed on one side is in `apart`, where
  `GoneBy` asks nothing; the changes themselves are `StationEffect`, and what they
  leave alone `StationFrame`.

`Tags_proofs`:

- `TypeCorrect`, `NumbersAreTheirOwn`, `DevicesAreNamedOnce`, `AddressesAreOwn`,
  `BoundTagsAreNotIdle`, `RunningTagsHaveReason`. `PropInv` has a part for each
  operation (`OpInv`: unless it is late, the rows it has read are as it read
  them, and the number it has chosen is above all others), one for each tag
  (`TagInv`) and one for each pair of tags (`PairInv`).

**Only model-checked**: liveness (`RevokedEventuallyRefused`, `EveryEventAcked`,
`RequestDecided`), which is outside the prover's reach. Every safety property
that a passing run checks is proved, and no theorem assumes more than
`ConstantsOK`, except `NothingForgotten`, which says what `ForgottenUnknown`
means where no code is a number.

## 6. Where the code and its documents disagree

1. `card_sync_masked`. A card bound and replaced (or revoked) between two pulls
   arrives as UPSERT and DISABLED in one batch. The UPSERT adds a row to the
   session; the DISABLED selects it, does not see it, and is ignored
   (`sync_service.py:107`). The card stays ACTIVE at the gate. `README.md:13`
   says that after the sync a replaced card cannot open the door.
2. `card_sync_lost_reply`. `gateway_pull_sync` marks events SENT before the reply
   leaves (`services.py:1009`) and nothing sends them again. The same promise
   fails for a lost reply.
3. `parcel_sync_overtaken`. When an offline pickup's event overtakes the inbound
   event of its parcel (an upload failed, or two commands overlap between
   their two commits), the server does not know the parcel. If the code is
   not a number, `int()` raises and the event is sent again; if it is,
   `apply_gateway_pickup_event` returns (`services.py:1155`), the answer is ok,
   and the pickup is gone. `smartparcel-server/README.md:136` says the event
   is recorded and the parcel updated.

4. `provisioning_documented`. A token that `provisioning/prepare` has made for a
   factory code is refused unless `device_info` names the code
   (`services.py:624`), and neither the gateway's bind handler nor
   `bootstrap-activate` sends it: no prepared bind succeeds, against steps 8 to
   11 of `docs/gateway_provisioning_flow.md`.

Met while modelling, and left as the code has them, without a run:

- `docs/gateway_provisioning_flow.md:168` says that a registration token is used
  once; two activations that pass the check together both succeed (the
  exception in `TokenBindsOnce`). The provisioning API also stays up after a
  bind until the process ends (step 14 says it closes).
- A pickup and a request for entry in one batch: the request is granted on the
  row that is not flushed (the exception in `GrantHadParcel`), though
  `README.md:13` says that a user without a waiting parcel is refused.
- An administrator may register a gateway as ONLINE or BOUND, and is told so by
  `confirm` before the gateway was heard (`declared` in `ConfirmedOnlineWasHeard`).
- What `seed-demo-gate` makes, the server never hears of: its parcel stays unknown
  there, its pickup under a numeric code is acknowledged and dropped, and its
  tag is IDLE with an ACTIVE binding (the exceptions `planted` and `seeded`).
- A parcel that an administrator marks as picked up keeps waiting at the station,
  since `patch_parcel_status` queues no event (the exception `apart`).
- A QR code may be used twice, and the second decision overwrites the first.
- `COLOR_POOL` has YELLOW and PURPLE, which a tag shows as BLUE
  (`ble/real.py:134`).
- The wakes of the run loop and of MQTT commands use the tag id as the Bluetooth
  address, so that they fail for tags registered as
  `docs/tag_ble_gateway_flow.md` describes (`Outcome` in `GateAccess`).
- A tag row that the server's binding made under the id SPS-TAG-0001, which has
  no local number, makes each registration of a new device fail: the next
  number gives an id that is taken.
- PARCEL_PICKUP_CONFIRMED goes through released bindings too and sets their tags
  IDLE although they are on another parcel; `release-tag` for a parcel the tag
  is not on does so as well (the exception of `BoundNotIdle`).
- A device whose old name is another row's tag id takes over that row's address
  (the exception of `AddressIsOwn`).

## 7. What is not modelled

The tag's firmware: the gateway's models see an exchange that succeeds or
fails. Of the reader's firmware, its pages and drivers; its requests are
actions of `GateAccess`. Of request authentication, the HMAC itself, timestamps
and nonces, on which no modelled state depends, and the roles of users. Users,
stations, login, notifications and listings, which read or write single rows.
The mini-program, the Android demonstration and the console, whose requests are
the server's actions. Hotspot and display drivers, deployment scripts,
migrations and the legacy mocks.
