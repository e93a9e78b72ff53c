----------------------------- MODULE GateAccess -----------------------------
(***************************************************************************)
(* Opening the gate.  A card, read by the gate reader, is decided by a     *)
(* thread of the gateway's local API; the phone's requests (a scanned QR   *)
(* code, the gate's NFC tag) come from the server in the batches of the    *)
(* run loop, between parcel events whose changes its session has not       *)
(* flushed yet; the MQTT thread wakes tags on the server's command.  All   *)
(* of them run the same steps, each of which commits: the pickup session,  *)
(* one wake task per tag, the audit events, the session of the gate        *)
(* authentication that the reader polls.                                   *)
(***************************************************************************)
EXTENDS Naturals, Sequences, FiniteSets

CONSTANTS
    User, Parcel, Card,
    Owner,        \* receiver of each parcel
    Holder,       \* user of each card
    Nobody,       \* no user
    Api,          \* threads of the local API
    Colours,      \* length of COLOR_POOL
    Addressed,    \* parcels whose tag_id is the Bluetooth address itself
    MaxCard,      \* bound: cards read
    MaxQr,        \* bound: QR codes shown
    MaxEvent,     \* bound: the server's events and wake commands, and one-sided changes
    MaxCrash      \* bound: crashes

Proc == Api \union {"loop", "mqtt"}

ASSUME ConstantsOK ==
    /\ Owner \in [Parcel -> User]
    /\ Holder \in [Card -> User \union {Nobody}]
    /\ Nobody \notin User
    /\ {"loop", "mqtt"} \cap Api = {}
    /\ Colours \in Nat \ {0}
    /\ Addressed \subseteq Parcel
    /\ MaxCard \in Nat /\ MaxQr \in Nat /\ MaxEvent \in Nat /\ MaxCrash \in Nat

(* Every card read and every request is decided once.                      *)
MaxSession == MaxCard + MaxEvent
MaxAuth    == MaxSession + MaxQr

ParcelStatus == {"NONE", "WAITING_PICKUP", "PICKED_UP"}
ServerStatus == ParcelStatus \union {"OTHER"}
TaskStatus   == {"NONE", "PENDING", "RUNNING", "DONE", "FAILED"}
AuthStatus   == {"PENDING", "GRANTED", "DENIED", "EXPIRED"}

(* A wake task belongs to a pickup session, or, with 0, to the server's    *)
(* commands.                                                               *)
TaskId == (0..MaxSession) \X Parcel

(* Events: a parcel put on the shelf with its tag, its pickup, a phone's   *)
(* request for QR code n, or with 0 for none (NFC).  due: the parcels that *)
(* the server had waiting for that user.                                   *)
ParcelEvent(type, p)      == [type |-> type, parcel |-> p]
AuthEvent(u, n, due)      == [type |-> "AUTH", user |-> u, code |-> n, due |-> due]

VARIABLES
    shelf,       \* server: status of each parcel
    events,      \* server: events of this station not pulled yet
    tied,        \* server: parcels with an ACTIVE tag binding
    queued,      \* number of events queued, and of one-sided changes, so far
    parcel,      \* gateway: committed status of each parcel
    bound,       \* gateway: parcels with an ACTIVE tag binding
    staged,      \* what the run loop's session holds and has not flushed
    batch,       \* the events the run loop has still to apply
    missed,      \* history: parcels whose pickup did not come into effect on the gateway
    entered,     \* gateway: what the station's commands have made for a parcel
    uploads,     \* events of the station's commands that the server has not applied
    apart,       \* history: parcels changed at the gateway or on the server only
    pickup,      \* gateway: pickup sessions, all of them ACTIVE
    task,        \* gateway: wake tasks
    reads,       \* number of cards read so far
    commands,    \* number of wake commands so far
    audited,     \* pickup sessions whose audit events are queued
    auth,        \* gateway: gate authentication sessions in order of creation
    past,        \* QR codes that have expired
    proc,        \* the threads
    poll,        \* the reader's poll: 0, or the QR code about to be expired
    overlapped,  \* history: pickup sessions whose colour was chosen meanwhile
    crossed,     \* history: QR codes decided while a poll expired them
    asked,       \* history: QR codes a phone has asked with
    repeated,    \* history: those asked with again
    cut,         \* history: tasks a crash interrupted
    crashes

serverVars == <<shelf, tied, events, queued, asked, repeated>>
parcelVars == <<parcel, bound, staged, batch, missed>>
stationVars == <<entered, uploads, apart>>
accessVars == <<pickup, task, reads, commands, audited, overlapped, cut>>
authVars   == <<auth, past, poll, crossed>>
vars == <<serverVars, parcelVars, stationVars, accessVars, authVars, proc, crashes>>

(* Where a thread is.  todo: parcels whose tag it has still to wake.       *)
Idle == [pc |-> "idle", user |-> Nobody, colour |-> 0, seen |-> 0, todo |-> {}, tag |-> {},
         session |-> 0, code |-> 0, due |-> {}, unflushed |-> {}]

Init ==
    /\ shelf = [p \in Parcel |-> "NONE"] /\ tied = {} /\ events = <<>> /\ queued = 0
    /\ parcel = [p \in Parcel |-> "NONE"] /\ bound = {}
    /\ staged = [p \in Parcel |-> "NONE"] /\ batch = <<>> /\ missed = {}
    /\ entered = [p \in Parcel |-> "NONE"] /\ uploads = {} /\ apart = {}
    /\ pickup = <<>> /\ task = [i \in TaskId |-> "NONE"] /\ reads = 0 /\ commands = 0
    /\ audited = {}
    /\ auth = <<>> /\ past = {} /\ poll = 0
    /\ proc = [x \in Proc |-> Idle]
    /\ overlapped = {} /\ crossed = {} /\ asked = {} /\ repeated = {} /\ cut = {} /\ crashes = 0

-----------------------------------------------------------------------------
(* Server *)

Queue(e) ==
    /\ queued + commands < MaxEvent
    /\ queued' = queued + 1
    /\ events' = Append(events, e)

PutOnShelf(p) ==
    /\ shelf[p] = "NONE" /\ parcel[p] = "NONE"
    /\ shelf' = [shelf EXCEPT ![p] = "WAITING_PICKUP"]
    /\ tied' = tied \union {p}
    /\ Queue(ParcelEvent("PUT", p))
    /\ UNCHANGED <<asked, repeated, parcelVars, accessVars, authVars, proc, stationVars, crashes>>

ConfirmPickup(p) ==
    /\ p \in tied /\ shelf[p] # "PICKED_UP"
    /\ shelf' = [shelf EXCEPT ![p] = "PICKED_UP"]
    /\ tied' = tied \ {p}
    /\ Queue(ParcelEvent("PICKED", p))
    /\ UNCHANGED <<asked, repeated, parcelVars, accessVars, authVars, proc, stationVars, crashes>>

(* Gate authentications that came from a QR code, and the one of code n    *)
QrSessions == {k \in 1..Len(auth) : auth[k].code # 0}
QrSession(n) == CHOOSE k \in QrSessions : auth[k].code = n

(* A user has scanned QR code n, in time, or read the gate's NFC tag (0).  *)
RequestGateAuth(u, n) ==
    /\ n \in (0..Cardinality(QrSessions)) \ past
    /\ Queue(AuthEvent(u, n, {p \in Parcel : Owner[p] = u /\ shelf[p] = "WAITING_PICKUP"}))
    /\ asked' = asked \union ({n} \ {0})
    /\ repeated' = repeated \union ({n} \cap asked)
    /\ UNCHANGED <<shelf, tied, parcelVars, accessVars, authVars, proc, stationVars, crashes>>

-----------------------------------------------------------------------------
(* Gateway: what a commit of the run loop's session makes visible *)

Flushed(p) ==
    IF staged[p] = "NONE" THEN parcel[p] ELSE staged[p]

(* A commit of the run loop's session, which the MQTT thread shares.       *)
Flush ==
    /\ parcel' = [p \in Parcel |-> Flushed(p)]
    /\ bound' = {p \in Parcel : IF staged[p] = "NONE" THEN p \in bound
                                                      ELSE staged[p] = "WAITING_PICKUP"}
    /\ staged' = [p \in Parcel |-> "NONE"]

CommitBy(x) ==
    /\ IF x \in Api THEN UNCHANGED <<parcel, bound, staged>> ELSE Flush
    /\ UNCHANGED <<batch, missed>>

-----------------------------------------------------------------------------
(* Changes on one side only: commands at the station, each a process of    *)
(* its own that commits at once, and the administrator.  The server hears  *)
(* of a command later, and tells the gateway nothing in return.  A parcel  *)
(* entered here that the server has announced is a second row, which is a  *)
(* member of Parcel of its own.                                            *)

OnOneSide(p) ==
    /\ queued + commands < MaxEvent
    /\ queued' = queued + 1
    /\ apart' = apart \union {p}

AtStation(p, status) ==
    /\ OnOneSide(p)
    /\ parcel' = [parcel EXCEPT ![p] = status]
    /\ UNCHANGED <<shelf, tied, events, asked, repeated, staged, batch, missed, accessVars,
                   authVars, proc, crashes>>

(* Neither the server nor the gateway knows the parcel.                    *)
Unheard(p) == shelf[p] = "NONE" /\ parcel[p] = "NONE"

(* inbound-parcel, with the receiver: a picked-up parcel waits again, too. *)
CliInboundParcel(p) ==
    /\ parcel[p] # "NONE" \/ Unheard(p)
    /\ AtStation(p, "WAITING_PICKUP")
    /\ entered' = IF Unheard(p) THEN [entered EXCEPT ![p] = "ROW"] ELSE entered
    /\ uploads' = uploads \union {<<"INBOUND", p>>}
    /\ UNCHANGED bound

CliConfirmPickup(p) ==
    /\ parcel[p] # "NONE"
    /\ AtStation(p, "PICKED_UP")
    /\ bound' = bound \ {p}
    /\ uploads' = uploads \union {<<"PICKUP", p>>}
    /\ UNCHANGED entered

(* seed-demo-gate leaves a row that is there as it is, gives it a binding  *)
(* unless it has had one from this command, and sends nothing.             *)
CliSeedDemoGate(p) ==
    /\ Unheard(p) \/ entered[p] = "ROW"
    /\ AtStation(p, IF Unheard(p) THEN "WAITING_PICKUP" ELSE parcel[p])
    /\ entered' = [entered EXCEPT ![p] = "TAGGED"]
    /\ bound' = bound \union {p}
    /\ UNCHANGED uploads

(* The administrator sets the status on the server.                        *)
PatchParcelStatus(p, s) ==
    /\ shelf[p] # "NONE"
    /\ OnOneSide(p)
    /\ shelf' = [shelf EXCEPT ![p] = s]
    /\ UNCHANGED <<tied, events, asked, repeated, parcelVars, accessVars, authVars, proc,
                   entered, uploads, crashes>>

(* The server applies the event of a command, or does not know the parcel. *)
ApplyGatewayEvent(p) ==
    \E kind \in {"INBOUND", "PICKUP"} :
        /\ <<kind, p>> \in uploads
        /\ uploads' = uploads \ {<<kind, p>>}
        /\ shelf' = [shelf EXCEPT ![p] = IF kind = "INBOUND" THEN "WAITING_PICKUP"
                                         ELSE IF @ = "NONE" THEN @ ELSE "PICKED_UP"]
        /\ UNCHANGED <<tied, events, queued, asked, repeated, parcelVars, accessVars, authVars,
                       proc, entered, apart, crashes>>

-----------------------------------------------------------------------------
(* Gateway: the run loop applies a batch *)

LoopReady == proc["loop"].pc = "idle"

Pull ==
    /\ LoopReady /\ batch = <<>> /\ events # <<>>
    /\ batch' = events /\ events' = <<>>
    /\ UNCHANGED <<shelf, tied, queued, asked, repeated, parcel, bound, staged, missed, accessVars,
                   authVars, proc, stationVars, crashes>>

NextEvent(type) == LoopReady /\ batch # <<>> /\ Head(batch).type = type

(* Neither a new row nor a changed one is flushed before the next commit.  *)
ApplyPut ==
    /\ NextEvent("PUT")
    /\ staged' = [staged EXCEPT ![Head(batch).parcel] = "WAITING_PICKUP"]
    /\ batch' = Tail(batch)
    /\ UNCHANGED <<parcel, bound, missed, serverVars, accessVars, authVars, proc, stationVars,
                   crashes>>

(* The pickup of a parcel whose row is not flushed finds nothing; a row    *)
(* that has the status already is not written.                             *)
ApplyPicked ==
    LET p == Head(batch).parcel IN
    /\ NextEvent("PICKED")
    /\ IF parcel[p] = "NONE"
       THEN missed' = missed \union {p} /\ UNCHANGED staged
       ELSE /\ staged' = [staged EXCEPT ![p] = IF parcel[p] = "PICKED_UP" THEN @ ELSE "PICKED_UP"]
            /\ UNCHANGED missed
    /\ batch' = Tail(batch)
    /\ UNCHANGED <<parcel, bound, serverVars, accessVars, authVars, proc, stationVars, crashes>>

(* The commit at the end of the batch                                      *)
EndBatch ==
    /\ LoopReady /\ batch = <<>> /\ \E p \in Parcel : staged[p] # "NONE"
    /\ Flush
    /\ UNCHANGED <<batch, missed, serverVars, accessVars, authVars, proc, stationVars, crashes>>

-----------------------------------------------------------------------------
(* Gateway: the decision *)

(* Slip: a parcel that has been picked up counts.                          *)
WaitingOrGone(u) == {p \in Parcel : Owner[p] = u /\ parcel[p] # "NONE"}

(* The query sees what is committed.                                       *)
Waiting(u) == {p \in Parcel : Owner[p] = u /\ parcel[p] = "WAITING_PICKUP"}

(* Slips: past the end of the pool; only the sessions whose access is done *)
(* count.                                                                  *)
ColourPastEnd    == Len(pickup)
ColourAmongEnded == Cardinality(audited) % Colours

ChooseColour == Len(pickup) % Colours

(* Those whose pickup the run loop's session has not flushed               *)
Unflushed(u) == {p \in Waiting(u) : staged[p] = "PICKED_UP"}

(* A user without a parcel waiting is denied.                              *)
Decide(x, u, n, due) ==
    proc' = [proc EXCEPT ![x] =
               [pc |-> IF Waiting(u) = {} THEN "denied" ELSE "granted", user |-> u,
                colour |-> ChooseColour, seen |-> Len(pickup), todo |-> Waiting(u), tag |-> {},
                session |-> 0, code |-> n, due |-> due, unflushed |-> Unflushed(u)]]

(* The reader sends a card.                                                *)
HandleAccessCard(x, c) ==
    /\ proc[x].pc = "idle"
    /\ reads < MaxCard
    /\ reads' = reads + 1
    /\ Decide(x, Holder[c], 0, {})
    /\ UNCHANGED <<serverVars, parcelVars, pickup, task, commands, audited, overlapped, cut,
                   authVars, stationVars, crashes>>

HandleGateAuth ==
    /\ NextEvent("AUTH")
    /\ Decide("loop", Head(batch).user, Head(batch).code, Head(batch).due)
    /\ batch' = Tail(batch)
    /\ UNCHANGED <<parcel, bound, staged, missed, serverVars, accessVars, authVars, stationVars,
                   crashes>>

(* Slip: a user whose earlier pickup session is ACTIVE gets it again.      *)
ReuseSession(x) ==
    LET mine == {s \in 1..Len(pickup) : pickup[s].user = proc[x].user} IN
    /\ proc[x].pc = "granted"
    /\ \E s \in IF mine = {} THEN {Len(pickup) + 1} ELSE mine :
          /\ pickup' = IF mine # {} THEN pickup
                       ELSE Append(pickup, [user |-> proc[x].user, colour |-> proc[x].colour])
          /\ proc' = [proc EXCEPT ![x].pc = "waking", ![x].session = s]
    /\ CommitBy(x)
    /\ UNCHANGED <<serverVars, task, reads, commands, audited, overlapped, cut, authVars,
                   stationVars, crashes>>

(* The pickup session is committed.  It overlaps when another one has been *)
(* committed since its colour was chosen.                                  *)
CommitSession(x) ==
    /\ proc[x].pc = "granted"
    /\ pickup' = Append(pickup, [user |-> proc[x].user, colour |-> proc[x].colour])
    /\ overlapped' = IF proc[x].seen # Len(pickup) THEN overlapped \union {Len(pickup) + 1}
                                                   ELSE overlapped
    /\ proc' = [proc EXCEPT ![x].pc = "waking", ![x].session = Len(pickup) + 1]
    /\ CommitBy(x)
    /\ UNCHANGED <<serverVars, task, reads, commands, audited, cut, authVars, stationVars,
                   crashes>>

-----------------------------------------------------------------------------
(* Gateway: wake tasks *)

(* A parcel without an ACTIVE binding is left out.                         *)
SkipUnbound(x) ==
    \E p \in proc[x].todo :
        /\ proc[x].pc = "waking"
        /\ p \notin bound
        /\ proc' = [proc EXCEPT ![x].todo = @ \ {p}]
        /\ UNCHANGED <<serverVars, parcelVars, accessVars, authVars, stationVars, crashes>>

StartTask(x, p) ==
    /\ task' = [task EXCEPT ![<<proc[x].session, p>>] = "PENDING"]
    /\ proc' = [proc EXCEPT ![x].pc = "created", ![x].todo = @ \ {p}, ![x].tag = {p}]
    /\ CommitBy(x)

CreateTask(x) ==
    \E p \in proc[x].todo :
        /\ proc[x].pc = "waking"
        /\ p \in bound
        /\ StartTask(x, p)
        /\ UNCHANGED <<serverVars, pickup, reads, commands, audited, overlapped, cut, authVars,
                       stationVars, crashes>>

MarkRunning(x) ==
    /\ proc[x].pc = "created"
    /\ task' = [i \in TaskId |-> IF i \in {proc[x].session} \X proc[x].tag THEN "RUNNING" ELSE task[i]]
    /\ proc' = [proc EXCEPT ![x].pc = "running"]
    /\ CommitBy(x)
    /\ UNCHANGED <<serverVars, pickup, reads, commands, audited, overlapped, cut, authVars,
                   stationVars, crashes>>

(* Only the local API looks up the address of a tag; the others use its id *)
(* as the address.  A wake may fail in any case.                           *)
Outcome(x) ==
    IF x \in Api \/ proc[x].tag \subseteq Addressed THEN {"DONE", "FAILED"} ELSE {"FAILED"}

(* Slip: the task is left as it is when the tag cannot be reached.         *)
MarkDoneOnly(x) ==
    /\ proc[x].pc = "running"
    /\ \/ task' = [i \in TaskId |-> IF i \in {proc[x].session} \X proc[x].tag THEN "DONE" ELSE task[i]]
       \/ UNCHANGED task
    /\ proc' = [proc EXCEPT ![x] = IF x = "mqtt" THEN Idle ELSE [@ EXCEPT !.pc = "waking", !.tag = {}]]
    /\ CommitBy(x)
    /\ UNCHANGED <<serverVars, pickup, reads, commands, audited, overlapped, cut, authVars,
                   stationVars, crashes>>

(* After the Bluetooth exchange.  A command's task is DONE in any case.    *)
MarkFinished(x) ==
    /\ proc[x].pc = "running"
    /\ \E result \in IF x = "mqtt" THEN {"DONE"} ELSE Outcome(x) :
          task' = [i \in TaskId |-> IF i \in {proc[x].session} \X proc[x].tag THEN result ELSE task[i]]
    /\ proc' = [proc EXCEPT ![x] = IF x = "mqtt" THEN Idle ELSE [@ EXCEPT !.pc = "waking", !.tag = {}]]
    /\ CommitBy(x)
    /\ UNCHANGED <<serverVars, pickup, reads, commands, audited, overlapped, cut, authVars,
                   stationVars, crashes>>

(* A TAG_WAKE command of the server, for a tag it knows a parcel of        *)
HandleServerCommand(p) ==
    /\ shelf[p] # "NONE"
    /\ proc["mqtt"].pc = "idle"
    /\ queued + commands < MaxEvent
    /\ commands' = commands + 1
    /\ StartTask("mqtt", p)
    /\ UNCHANGED <<serverVars, pickup, reads, audited, overlapped, cut, authVars, stationVars,
                   crashes>>

-----------------------------------------------------------------------------
(* Gateway: the record *)

(* The access event and the audit events, for a grant and for a denial     *)
EnqueueAudit(x) ==
    /\ \/ proc[x].pc = "denied"
       \/ proc[x].pc = "waking" /\ proc[x].todo = {}
    /\ audited' = audited \union ({proc[x].session} \ {0})
    /\ proc' = [proc EXCEPT ![x].pc = "audited"]
    /\ CommitBy(x)
    /\ UNCHANGED <<serverVars, pickup, task, reads, commands, overlapped, cut, authVars,
                   stationVars, crashes>>

Row(x) == [code |-> proc[x].code, session |-> proc[x].session,
           status |-> IF proc[x].session = 0 THEN "DENIED" ELSE "GRANTED"]

(* Slip: the reader can see the result before the audit is queued.         *)
RecordFirst(x) ==
    /\ proc[x].pc \in {"waking", "audited"}
    /\ Len(auth) < MaxAuth
    /\ proc[x].code = 0
    /\ auth' = Append(auth, Row(x))
    /\ UNCHANGED crossed

(* Slip: the session that the request names is not looked up.              *)
RecordAnew(x) ==
    /\ proc[x].pc = "audited"
    /\ auth' = Append(auth, [Row(x) EXCEPT !.code = 0])
    /\ UNCHANGED crossed

(* A request with a QR code decides its session, whatever its status; the  *)
(* others and the cards get a new one.                                     *)
RecordResult(x) ==
    /\ proc[x].pc = "audited"
    /\ auth' = IF proc[x].code = 0 THEN Append(auth, Row(x))
               ELSE [auth EXCEPT ![QrSession(proc[x].code)] = Row(x)]
    /\ crossed' = crossed \union (({proc[x].code} \ {0}) \cap {poll})

FinishAccess(x) ==
    /\ x # "mqtt"
    /\ RecordResult(x)
    /\ proc' = [proc EXCEPT ![x] = Idle]
    /\ CommitBy(x)
    /\ UNCHANGED <<serverVars, accessVars, past, poll, stationVars, crashes>>

-----------------------------------------------------------------------------
(* The gate reader and its end points *)

GateQrSession ==
    /\ Cardinality(QrSessions) < MaxQr
    /\ auth' = Append(auth, [code |-> Cardinality(QrSessions) + 1, session |-> 0, status |-> "PENDING"])
    /\ UNCHANGED <<past, poll, crossed, serverVars, parcelVars, accessVars, proc, stationVars,
                   crashes>>

PassExpiry(n) ==
    /\ n \in (1..Cardinality(QrSessions)) \ past
    /\ auth[QrSession(n)].status = "PENDING"
    /\ past' = past \union {n}
    /\ UNCHANGED <<auth, poll, crossed, serverVars, parcelVars, accessVars, proc, stationVars,
                   crashes>>

(* Slip: the age is looked at whatever the status.                         *)
PollByAge(n) ==
    /\ poll = 0 /\ n \in past
    /\ poll' = n
    /\ UNCHANGED <<auth, past, crossed, serverVars, parcelVars, accessVars, proc, stationVars,
                   crashes>>

(* The reader asks for the session it has shown the code of, or for its    *)
(* latest one, and finds it PENDING and too old.                           *)
GateAuthResult(n) ==
    /\ poll = 0 /\ n \in past
    /\ auth[QrSession(n)].status = "PENDING"
    /\ poll' = n
    /\ UNCHANGED <<auth, past, crossed, serverVars, parcelVars, accessVars, proc, stationVars,
                   crashes>>

(* It is written EXPIRED.                                                  *)
ExpireSession ==
    /\ poll # 0
    /\ auth' = [auth EXCEPT ![QrSession(poll)].status = "EXPIRED"]
    /\ poll' = 0
    /\ UNCHANGED <<past, crossed, serverVars, parcelVars, accessVars, proc, stationVars, crashes>>

(* The gateway's process ends, with its threads, and starts again.         *)
Crash ==
    /\ crashes < MaxCrash
    /\ crashes' = crashes + 1
    /\ proc' = [x \in Proc |-> Idle]
    /\ staged' = [p \in Parcel |-> "NONE"]
    /\ batch' = <<>>
    /\ missed' = missed \union
                   {p \in Parcel : \/ staged[p] = "PICKED_UP"
                                   \/ \E i \in DOMAIN batch : batch[i] = ParcelEvent("PICKED", p)}
    /\ cut' = cut \union UNION {{proc[x].session} \X proc[x].tag : x \in Proc}
    /\ poll' = 0
    /\ UNCHANGED <<parcel, bound, serverVars, pickup, task, reads, commands, audited,
                   overlapped, auth, past, crossed, stationVars>>

-----------------------------------------------------------------------------
AccessStep(x) ==
    \/ CommitSession(x) \/ SkipUnbound(x) \/ CreateTask(x) \/ MarkRunning(x) \/ MarkFinished(x)
    \/ EnqueueAudit(x) \/ FinishAccess(x)

LoopStep == Pull \/ ApplyPut \/ ApplyPicked \/ EndBatch \/ HandleGateAuth \/ AccessStep("loop")

Station(p) ==
    \/ CliInboundParcel(p) \/ CliConfirmPickup(p) \/ CliSeedDemoGate(p) \/ ApplyGatewayEvent(p)
    \/ \E s \in ServerStatus \ {"NONE"} : PatchParcelStatus(p, s)

Next ==
    \/ \E p \in Parcel : PutOnShelf(p) \/ ConfirmPickup(p) \/ HandleServerCommand(p) \/ Station(p)
    \/ \E u \in User, n \in 0..MaxQr : RequestGateAuth(u, n)
    \/ \E x \in Api : AccessStep(x) \/ \E c \in Card : HandleAccessCard(x, c)
    \/ LoopStep \/ AccessStep("mqtt")
    \/ GateQrSession \/ ExpireSession
    \/ \E n \in 1..MaxQr : PassExpiry(n) \/ GateAuthResult(n)
    \/ Crash

(* The run loop does not stop, and a Bluetooth exchange ends.              *)
Fairness == WF_vars(LoopStep)

Spec == Init /\ [][Next]_vars /\ Fairness

-----------------------------------------------------------------------------
TypeOK ==
    /\ shelf \in [Parcel -> ServerStatus] /\ tied \subseteq Parcel
    /\ parcel \in [Parcel -> ParcelStatus]
    /\ staged \in [Parcel -> ParcelStatus]
    /\ bound \subseteq Parcel /\ missed \subseteq Parcel /\ apart \subseteq Parcel
    /\ entered \in [Parcel -> {"NONE", "ROW", "TAGGED"}]
    /\ uploads \subseteq {"INBOUND", "PICKUP"} \X Parcel
    /\ queued \in 0..MaxEvent /\ Len(events) <= MaxEvent /\ Len(batch) <= MaxEvent
    /\ task \in [TaskId -> TaskStatus]
    /\ reads \in 0..MaxCard /\ commands \in 0..MaxEvent /\ crashes \in 0..MaxCrash
    /\ Len(pickup) <= MaxSession /\ Len(auth) <= MaxAuth
    /\ \A k \in 1..Len(pickup) : pickup[k] \in [user : User, colour : 0..Colours - 1]
    /\ \A k \in 1..Len(auth) :
          auth[k] \in [code : 0..MaxQr, session : 0..Len(pickup), status : AuthStatus]
    /\ overlapped \subseteq 1..Len(pickup) /\ audited \subseteq 1..Len(pickup)
    /\ past \subseteq 1..MaxQr /\ crossed \subseteq past /\ repeated \subseteq asked
    /\ poll \in {0} \union past

(* Two people in the station at once do not follow the same colour: two    *)
(* pickup sessions of one colour are at least the length of the colour     *)
(* pool apart, unless another session was committed between the choice of  *)
(* the colour and the commit (_choose_session_color counts the committed   *)
(* sessions, of all threads).                                              *)
ColoursDiffer ==
    \A i, j \in 1..Len(pickup) \ overlapped :
        i < j /\ pickup[i].colour = pickup[j].colour => j - i >= Colours

(* When the reader can see GRANTED, the access is complete: its audit      *)
(* event is in the upload queue and each of its wake tasks has ended, so   *)
(* that the door never opens on an access that a crash can still undo.     *)
GrantOnRecord ==
    \A k \in 1..Len(auth) : auth[k].status = "GRANTED" =>
        /\ auth[k].session \in audited
        /\ \A p \in Parcel : task[<<auth[k].session, p>>] \in {"NONE", "DONE", "FAILED"}

(* A wake task that is PENDING or RUNNING is in the hands of a thread, or  *)
(* a crash took it from one: no other path leaves a task behind, though    *)
(* nothing ever resumes one.                                               *)
TaskInHand ==
    \A i \in TaskId : task[i] \in {"PENDING", "RUNNING"} =>
        i \in cut \/ \E x \in Proc : i \in {proc[x].session} \X proc[x].tag

(* The gate opens for a phone's request only if the server had a parcel    *)
(* waiting for its user when it queued the request, unless each parcel it  *)
(* opens for is one whose pickup is in the same batch and not flushed yet, *)
(* or did not reach the gateway, or that a command at the station or the   *)
(* administrator has changed on one side.                                  *)
GrantHadParcel ==
    proc["loop"].pc = "granted" /\ proc["loop"].due = {} =>
        proc["loop"].todo \subseteq proc["loop"].unflushed \union missed \union apart

(* A granted authentication stays granted, unless the phone's request was  *)
(* repeated or the decision fell between the poll that found the session   *)
(* too old and its commit.                                                 *)
GrantStands ==
    [][\A k \in 1..Len(auth) :
          auth[k].status = "GRANTED" => auth'[k].status = "GRANTED" \/ auth[k].code \in crossed \union repeated]_vars

(* Accesses that are complete: audited, and no wake task left              *)
OnRecord == {s \in audited : \A p \in Parcel : task[<<s, p>>] \in {"NONE", "DONE", "FAILED"}}

(* The threads, their commits, the run loop's session and the crashes      *)
(* implement a gate that opens only for accesses on record, once for each, *)
(* and answers a code once and for all, unless a phone has repeated the    *)
(* code or its decision crossed a poll.                                    *)
Door == INSTANCE GateDoor WITH Code <- 1..MaxQr, Access <- 1..MaxSession,
           answers <- auth, record <- OnRecord, excused <- crossed \union repeated

DoorSpec == Door!Spec

Decided(n) == \E k \in QrSessions : auth[k].code = n /\ auth[k].status \in {"GRANTED", "DENIED"}

(* A request that has come with a batch decides the session of its QR      *)
(* code, though the code may have expired meanwhile, unless the gateway's  *)
(* process ends.                                                           *)
RequestDecided ==
    \A n \in 1..MaxQr :
        (\E i \in DOMAIN batch : batch[i].type = "AUTH" /\ batch[i].code = n)
            ~> (Decided(n) \/ crashes > 0)
=============================================================================
