-------------------------- MODULE GateAccess_proofs --------------------------
(***************************************************************************)
(* Proofs about opening the gate, for any number of users, parcels, cards  *)
(* and threads of the local API, any colour pool and any number of cards,  *)
(* requests and crashes.                                                   *)
(***************************************************************************)
EXTENDS GateAccess, Integers, FiniteSetTheorems, SequenceTheorems, TLAPS

Colour == 0..Colours - 1

Event == [type : {"PUT", "PICKED"}, parcel : Parcel]
           \union [type : {"AUTH"}, user : User, code : 0..MaxQr, due : SUBSET Parcel]

Thread == [pc : {"idle", "denied", "granted", "waking", "created", "running", "audited"},
           user : User \union {Nobody}, colour : Colour, seen : Nat, todo : SUBSET Parcel,
           tag : SUBSET Parcel, session : Nat, code : 0..MaxQr, due : SUBSET Parcel,
           unflushed : SUBSET Parcel]

PickupRow == [user : User, colour : Colour]
AuthRow   == [code : 0..MaxQr, session : Nat, status : AuthStatus]

(* The kinds of values the variables hold, in five parts; the server hears *)
(* from the station only of parcels changed there.                         *)
ServerTypes ==
    /\ shelf \in [Parcel -> ServerStatus] /\ tied \subseteq Parcel
    /\ events \in Seq(Event)
    /\ queued \in 0..MaxEvent
    /\ asked \subseteq 1..MaxQr /\ repeated \subseteq asked

StationTypes ==
    /\ entered \in [Parcel -> {"NONE", "ROW", "TAGGED"}]
    /\ apart \subseteq Parcel
    /\ uploads \subseteq {"INBOUND", "PICKUP"} \X apart

GatewayTypes ==
    /\ parcel \in [Parcel -> ParcelStatus] /\ staged \in [Parcel -> ParcelStatus]
    /\ bound \subseteq Parcel /\ missed \subseteq Parcel
    /\ batch \in Seq(Event)
    /\ crashes \in 0..MaxCrash

AccessTypes ==
    /\ pickup \in Seq(PickupRow)
    /\ task \in [TaskId -> TaskStatus]
    /\ reads \in 0..MaxCard /\ commands \in 0..MaxEvent
    /\ proc \in [Proc -> Thread]

AuthTypes ==
    /\ auth \in Seq(AuthRow)
    /\ past \subseteq 1..MaxQr /\ crossed \subseteq past
    /\ poll \in {0} \union past

(* A thread that has granted an access has found a parcel of a user.       *)
GrantedUser == \A x \in Proc : proc[x].pc = "granted" => proc[x].user \in User

TypeInv == ServerTypes /\ StationTypes /\ GatewayTypes /\ AccessTypes /\ AuthTypes /\ GrantedUser

(* Arithmetic of the colour pool                                           *)
LEMMA ColoursInPool == \A n \in Nat : n % Colours \in Colour
  BY ConstantsOK DEF Colour

LEMMA Division == \A n \in Nat : n = Colours * (n \div Colours) + (n % Colours) /\ (n \div Colours) \in Nat
  BY ConstantsOK

LEMMA SameColourFarApart ==
    ASSUME NEW i \in Nat, NEW j \in Nat, i < j, i % Colours = j % Colours
    PROVE  j - i >= Colours
<1> PICK p \in Nat, q \in Nat, r \in Colour : i = Colours * p + r /\ j = Colours * q + r
  BY ColoursInPool, Division
<1>1. j - i = Colours * (q - p)
  BY ConstantsOK DEF Colour
<1>2. q - p \in Int /\ q - p > 0
  BY <1>1, ConstantsOK
<1>3. Colours * (q - p) >= Colours
  BY <1>2, ConstantsOK
<1> QED
  BY <1>1, <1>3

-----------------------------------------------------------------------------
(* What a step does to its thread *)

LEMMA IdleIsThread == Idle \in Thread
  BY ConstantsOK DEF Idle, Thread, Colour

(* A thread goes on: what its step changes of it                           *)
Others(x) == /\ proc' \in [Proc -> Thread]
             /\ \A y \in Proc \ {x} : proc'[y] = proc[y]

Keeps(r, s) == /\ r.user = s.user /\ r.colour = s.colour /\ r.seen = s.seen /\ r.code = s.code
               /\ r.due = s.due /\ r.unflushed = s.unflushed

Becomes(x, pc, session, todo, tag) ==
    /\ Others(x) /\ Keeps(proc'[x], proc[x])
    /\ proc'[x].pc = pc /\ proc'[x].session = session
    /\ proc'[x].todo = todo /\ proc'[x].tag = tag

Decides(x, u, n, due) ==
    /\ Others(x)
    /\ proc'[x].pc = IF Waiting(u) = {} THEN "denied" ELSE "granted"
    /\ proc'[x].user = u /\ proc'[x].todo = Waiting(u) /\ proc'[x].tag = {}
    /\ proc'[x].colour = Len(pickup) % Colours /\ proc'[x].seen = Len(pickup)
    /\ proc'[x].session = 0 /\ proc'[x].code = n /\ proc'[x].due = due
    /\ proc'[x].unflushed = Unflushed(u)

Ends(x) == Others(x) /\ proc'[x] = Idle

LEMMA DecideEffect ==
    ASSUME AccessTypes, NEW x \in Proc, NEW u \in User \union {Nobody}, NEW n \in 0..MaxQr,
           NEW due \in SUBSET Parcel, Decide(x, u, n, due)
    PROVE  Decides(x, u, n, due)
<1> DEFINE pc == IF Waiting(u) = {} THEN "denied" ELSE "granted"
           row == [pc |-> pc, user |-> u, colour |-> ChooseColour, seen |-> Len(pickup),
                   todo |-> Waiting(u), tag |-> {}, session |-> 0, code |-> n, due |-> due,
                   unflushed |-> Unflushed(u)]
<1>1. proc' = [proc EXCEPT ![x] = row]
  BY DEF Decide
<1>2. Len(pickup) \in Nat /\ ChooseColour \in Colour
  BY ColoursInPool DEF AccessTypes, ChooseColour
<1>3. Waiting(u) \subseteq Parcel /\ Unflushed(u) \subseteq Parcel
  BY DEF Waiting, Unflushed
<1>4. row \in Thread
  BY <1>2, <1>3 DEF Thread
<1>5. proc'[x] = row /\ Others(x)
  BY <1>1, <1>4 DEF Others, AccessTypes
<1> QED
  BY <1>5 DEF Decides, ChooseColour

LEMMA CommitSessionEffect ==
    ASSUME AccessTypes, NEW x \in Proc, CommitSession(x)
    PROVE  Becomes(x, "waking", Len(pickup) + 1, proc[x].todo, proc[x].tag)
<1>1. proc[x] \in Thread /\ Len(pickup) + 1 \in Nat
  BY DEF AccessTypes
<1>2. proc' = [proc EXCEPT ![x].pc = "waking", ![x].session = Len(pickup) + 1]
  BY DEF CommitSession
<1>3. Others(x)
  BY <1>1, <1>2 DEF Others, AccessTypes, Thread
<1> QED
  BY <1>1, <1>2, <1>3 DEF Becomes, Keeps, Thread, AccessTypes

LEMMA SkipUnboundEffect ==
    ASSUME AccessTypes, NEW x \in Proc, SkipUnbound(x)
    PROVE  /\ proc[x].pc = "waking"
           /\ \E p \in Parcel : Becomes(x, "waking", proc[x].session, proc[x].todo \ {p}, proc[x].tag)
<1>1. proc[x] \in Thread
  BY DEF AccessTypes
<1>2. PICK p \in proc[x].todo : proc[x].pc = "waking" /\ proc' = [proc EXCEPT ![x].todo = @ \ {p}]
  BY DEF SkipUnbound
<1>3. p \in Parcel
  BY <1>1, <1>2 DEF Thread
<1>4. Others(x)
  BY <1>1, <1>2 DEF Others, AccessTypes, Thread
<1>5. Becomes(x, "waking", proc[x].session, proc[x].todo \ {p}, proc[x].tag)
  BY <1>1, <1>2, <1>4 DEF Becomes, Keeps, Thread, AccessTypes
<1> QED
  BY <1>2, <1>3, <1>5

LEMMA StartTaskEffect ==
    ASSUME AccessTypes, NEW x \in Proc, NEW p \in Parcel, StartTask(x, p)
    PROVE  Becomes(x, "created", proc[x].session, proc[x].todo \ {p}, {p})
<1>1. proc[x] \in Thread
  BY DEF AccessTypes
<1>2. proc' = [proc EXCEPT ![x].pc = "created", ![x].todo = @ \ {p}, ![x].tag = {p}]
  BY DEF StartTask
<1>3. Others(x)
  BY ZenonT(40), <1>1, <1>2 DEF Others, AccessTypes, Thread
<1> QED
  BY <1>1, <1>2, <1>3 DEF Becomes, Keeps, Thread, AccessTypes

LEMMA MarkRunningEffect ==
    ASSUME AccessTypes, NEW x \in Proc, MarkRunning(x)
    PROVE  Becomes(x, "running", proc[x].session, proc[x].todo, proc[x].tag)
<1>1. proc[x] \in Thread
  BY DEF AccessTypes
<1>2. proc' = [proc EXCEPT ![x].pc = "running"]
  BY DEF MarkRunning
<1>3. Others(x)
  BY <1>1, <1>2 DEF Others, AccessTypes, Thread
<1> QED
  BY <1>1, <1>2, <1>3 DEF Becomes, Keeps, Thread, AccessTypes

LEMMA MarkFinishedEffect ==
    ASSUME AccessTypes, NEW x \in Proc, MarkFinished(x)
    PROVE  IF x = "mqtt" THEN Ends(x) ELSE Becomes(x, "waking", proc[x].session, proc[x].todo, {})
<1>1. proc[x] \in Thread
  BY DEF AccessTypes
<1>2. CASE x = "mqtt"
  BY <1>2, IdleIsThread DEF MarkFinished, Ends, Others, AccessTypes
<1>3. CASE x # "mqtt"
  <2>1. proc' = [proc EXCEPT ![x] = [@ EXCEPT !.pc = "waking", !.tag = {}]]
    BY <1>3 DEF MarkFinished
  <2>2. Others(x)
    BY <1>1, <2>1 DEF Others, AccessTypes, Thread
  <2> QED
    BY <1>1, <1>3, <2>1, <2>2 DEF Becomes, Keeps, Thread, AccessTypes
<1> QED
  BY <1>2, <1>3

LEMMA EnqueueAuditEffect ==
    ASSUME AccessTypes, NEW x \in Proc, EnqueueAudit(x)
    PROVE  Becomes(x, "audited", proc[x].session, proc[x].todo, proc[x].tag)
<1>1. proc[x] \in Thread
  BY DEF AccessTypes
<1>2. proc' = [proc EXCEPT ![x].pc = "audited"]
  BY DEF EnqueueAudit
<1>3. Others(x)
  BY <1>1, <1>2 DEF Others, AccessTypes, Thread
<1> QED
  BY <1>1, <1>2, <1>3 DEF Becomes, Keeps, Thread, AccessTypes

LEMMA FinishAccessEffect ==
    ASSUME AccessTypes, NEW x \in Proc, FinishAccess(x)
    PROVE  Ends(x)
  BY IdleIsThread DEF FinishAccess, Ends, Others, AccessTypes

(* A card's decision and a request's                                       *)
LEMMA ReadCardEffect ==
    ASSUME AccessTypes, NEW x \in Proc, NEW c \in Card, HandleAccessCard(x, c)
    PROVE  Decides(x, Holder[c], 0, {})
<1>1. Holder[c] \in User \union {Nobody} /\ 0 \in 0..MaxQr
  BY ConstantsOK
<1> QED
  BY <1>1, DecideEffect DEF HandleAccessCard

LEMMA NextIsEvent ==
    ASSUME GatewayTypes, batch # <<>>
    PROVE  /\ Head(batch) \in Event /\ Tail(batch) \in Seq(Event)
           /\ Head(batch).type # "AUTH" => Head(batch).parcel \in Parcel
           /\ Head(batch).type = "AUTH" =>
                 /\ Head(batch).user \in User /\ Head(batch).code \in 0..MaxQr
                 /\ Head(batch).due \in SUBSET Parcel
<1>1. Head(batch) \in Event /\ Tail(batch) \in Seq(Event)
  BY DEF GatewayTypes
<1> QED
  BY <1>1 DEF Event

LEMMA HandleGateAuthEffect ==
    ASSUME AccessTypes, GatewayTypes, HandleGateAuth
    PROVE  Decides("loop", Head(batch).user, Head(batch).code, Head(batch).due)
<1>1. batch # <<>> /\ Head(batch).type = "AUTH" /\ "loop" \in Proc
  BY DEF HandleGateAuth, NextEvent, Proc
<1> QED
  BY <1>1, NextIsEvent, DecideEffect DEF HandleGateAuth

-----------------------------------------------------------------------------
(* Which steps change what *)

(* A commit of a session, the run loop's or a thread's own                 *)
Commits == /\ UNCHANGED <<batch, missed, events, shelf, queued, crashes>>
           /\ Flush \/ UNCHANGED <<parcel, bound, staged>>

LEMMA CommitByEffect == ASSUME NEW x, CommitBy(x), UNCHANGED <<serverVars, crashes>> PROVE Commits
  BY DEF CommitBy, Commits, serverVars

StationStep == \E p \in Parcel : Station(p)

ServerStep == \/ \E p \in Parcel : PutOnShelf(p) \/ ConfirmPickup(p)
              \/ \E u \in User, n \in 0..MaxQr : RequestGateAuth(u, n)
              \/ StationStep

Steps(x) == x \in Proc /\ AccessStep(x)

ReaderStep == \/ GateQrSession \/ ExpireSession
              \/ \E n \in 1..MaxQr : PassExpiry(n) \/ GateAuthResult(n)

LoopOnly == Pull \/ ApplyPut \/ ApplyPicked \/ EndBatch

Starts == \/ HandleGateAuth
          \/ \E x \in Api, c \in Card : HandleAccessCard(x, c)
          \/ \E p \in Parcel : HandleServerCommand(p)

LEMMA StepKinds ==
    Next => ServerStep \/ LoopOnly \/ Starts \/ (\E x \in Proc : AccessStep(x)) \/ ReaderStep \/ Crash
<1> SUFFICES ASSUME Next
             PROVE  ServerStep \/ LoopOnly \/ Starts \/ (\E x \in Proc : AccessStep(x)) \/ ReaderStep \/ Crash
  OBVIOUS
<1> USE DEF Proc
<1>1. CASE \E p \in Parcel : PutOnShelf(p) \/ ConfirmPickup(p) \/ HandleServerCommand(p) \/ Station(p)
  BY <1>1 DEF ServerStep, StationStep, Starts
<1>2. CASE \E u \in User, n \in 0..MaxQr : RequestGateAuth(u, n)
  BY <1>2 DEF ServerStep
<1>3. CASE \E x \in Api : AccessStep(x) \/ \E c \in Card : HandleAccessCard(x, c)
  BY <1>3 DEF Starts
<1>4. CASE LoopStep \/ AccessStep("mqtt")
  BY <1>4 DEF LoopStep, LoopOnly, Starts
<1>5. CASE GateQrSession \/ ExpireSession \/ \E n \in 1..MaxQr : PassExpiry(n) \/ GateAuthResult(n)
  BY <1>5 DEF ReaderStep
<1>6. CASE Crash
  BY <1>6
<1> QED
  BY <1>1, <1>2, <1>3, <1>4, <1>5, <1>6 DEF Next

LEMMA AccessStepFrame ==
    ASSUME NEW x \in Proc, AccessStep(x)
    PROVE  /\ UNCHANGED serverVars /\ UNCHANGED stationVars
           /\ UNCHANGED <<reads, commands, cut, past, poll>>
           /\ Commits
           /\ ~CommitSession(x) => UNCHANGED <<pickup, overlapped>>
           /\ ~EnqueueAudit(x) => UNCHANGED audited
           /\ ~FinishAccess(x) => UNCHANGED authVars
<1> USE DEF accessVars, authVars, parcelVars
<1>1. CASE CommitSession(x)
  BY <1>1, CommitByEffect DEF CommitSession
<1>2. CASE SkipUnbound(x)
  BY <1>2 DEF SkipUnbound, Commits, serverVars
<1>3. CASE CreateTask(x)
  BY <1>3, CommitByEffect DEF CreateTask, StartTask
<1>4. CASE MarkRunning(x)
  BY <1>4, CommitByEffect DEF MarkRunning
<1>5. CASE MarkFinished(x)
  BY <1>5, CommitByEffect DEF MarkFinished
<1>6. CASE EnqueueAudit(x)
  BY <1>6, CommitByEffect DEF EnqueueAudit
<1>7. CASE FinishAccess(x)
  BY <1>7, CommitByEffect DEF FinishAccess
<1> QED
  BY <1>1, <1>2, <1>3, <1>4, <1>5, <1>6, <1>7 DEF AccessStep

LEMMA StartsFrame ==
    ASSUME Starts
    PROVE  /\ UNCHANGED serverVars /\ UNCHANGED stationVars /\ UNCHANGED authVars
           /\ UNCHANGED <<pickup, audited, overlapped, cut>>
           /\ ~HandleGateAuth => Commits
<1> USE DEF accessVars, Starts
<1>1. CASE HandleGateAuth
  BY <1>1 DEF HandleGateAuth
<1>2. ASSUME NEW x \in Api, NEW c \in Card, HandleAccessCard(x, c)
      PROVE  /\ UNCHANGED serverVars /\ UNCHANGED stationVars /\ UNCHANGED authVars
             /\ UNCHANGED <<pickup, audited, overlapped, cut>>
             /\ Commits
  BY <1>2 DEF HandleAccessCard, Commits, parcelVars, serverVars
<1>3. ASSUME NEW p \in Parcel, HandleServerCommand(p)
      PROVE  /\ UNCHANGED serverVars /\ UNCHANGED stationVars /\ UNCHANGED authVars
             /\ UNCHANGED <<pickup, audited, overlapped, cut>>
             /\ Commits
  BY <1>3, CommitByEffect DEF HandleServerCommand, StartTask
<1> QED
  BY <1>1, <1>2, <1>3

LEMMA StationFrame ==
    ASSUME StationStep
    PROVE  /\ UNCHANGED accessVars /\ UNCHANGED authVars /\ UNCHANGED <<proc, crashes>>
           /\ UNCHANGED <<tied, events, asked, repeated, staged, batch, missed>>
           /\ queued' = queued \/ (queued' = queued + 1 /\ queued + commands < MaxEvent)
<1>1. PICK p \in Parcel : Station(p)
  BY DEF StationStep
<1>2. CASE CliInboundParcel(p) \/ CliConfirmPickup(p) \/ CliSeedDemoGate(p)
  BY <1>2 DEF CliInboundParcel, CliConfirmPickup, CliSeedDemoGate, AtStation, OnOneSide
<1>3. CASE ApplyGatewayEvent(p)
  BY <1>3 DEF ApplyGatewayEvent, parcelVars
<1>4. CASE \E s \in ServerStatus \ {"NONE"} : PatchParcelStatus(p, s)
  BY <1>4 DEF PatchParcelStatus, OnOneSide, parcelVars
<1> QED
  BY <1>1, <1>2, <1>3, <1>4 DEF Station

(* A parcel that the station has not changed keeps its status on both      *)
(* sides.                                                                  *)
LEMMA StationEffect ==
    ASSUME ServerTypes, StationTypes, GatewayTypes, StationStep
    PROVE  /\ StationTypes' /\ apart \subseteq apart'
           /\ shelf' \in [Parcel -> ServerStatus] /\ parcel' \in [Parcel -> ParcelStatus]
           /\ bound' \subseteq Parcel
           /\ \A p \in Parcel \ apart' : shelf'[p] = shelf[p] /\ parcel'[p] = parcel[p]
<1> USE DEF ServerTypes, StationTypes, GatewayTypes, ServerStatus, ParcelStatus
<1>1. PICK q \in Parcel : Station(q)
  BY DEF StationStep
<1>2. CASE CliInboundParcel(q)
  BY <1>2 DEF CliInboundParcel, AtStation, OnOneSide
<1>3. CASE CliConfirmPickup(q)
  BY <1>3 DEF CliConfirmPickup, AtStation, OnOneSide
<1>4. CASE CliSeedDemoGate(q)
  BY <1>4 DEF CliSeedDemoGate, AtStation, OnOneSide
<1>5. CASE ApplyGatewayEvent(q)
  <2>1. q \in apart /\ UNCHANGED <<apart, entered, parcel, bound>> /\ uploads' \subseteq uploads
    BY <1>5 DEF ApplyGatewayEvent, parcelVars
  <2>2. /\ shelf' \in [Parcel -> ServerStatus]
        /\ \A p \in Parcel \ {q} : shelf'[p] = shelf[p]
    BY <1>5 DEF ApplyGatewayEvent
  <2> QED
    BY <2>1, <2>2
<1>6. CASE \E s \in ServerStatus \ {"NONE"} : PatchParcelStatus(q, s)
  BY <1>6 DEF PatchParcelStatus, OnOneSide, parcelVars
<1> QED
  BY <1>1, <1>2, <1>3, <1>4, <1>5, <1>6 DEF Station

LEMMA ServerStepFrame ==
    ASSUME ServerStep
    PROVE  /\ UNCHANGED accessVars /\ UNCHANGED authVars /\ UNCHANGED <<proc, crashes>>
           /\ UNCHANGED <<staged, batch, missed>>
           /\ ~StationStep => UNCHANGED parcelVars /\ UNCHANGED stationVars
  BY StationFrame DEF ServerStep, PutOnShelf, ConfirmPickup, RequestGateAuth, parcelVars

LEMMA LoopOnlyFrame ==
    ASSUME LoopOnly
    PROVE  /\ UNCHANGED accessVars /\ UNCHANGED authVars /\ UNCHANGED <<proc, crashes>>
           /\ UNCHANGED <<shelf, tied, queued, asked, repeated>> /\ UNCHANGED stationVars
  BY DEF LoopOnly, Pull, ApplyPut, ApplyPicked, EndBatch, serverVars

LEMMA ReaderFrame ==
    ASSUME ReaderStep
    PROVE  /\ UNCHANGED serverVars /\ UNCHANGED parcelVars /\ UNCHANGED accessVars /\ UNCHANGED <<proc, crashes>>
           /\ UNCHANGED crossed /\ UNCHANGED stationVars
  BY DEF ReaderStep, GateQrSession, ExpireSession, PassExpiry, GateAuthResult

-----------------------------------------------------------------------------
(* The events on their way to the run loop, from the next one on           *)
Stream == batch \o events

Place == 1..Len(Stream)

LEMMA StreamType ==
    ASSUME ServerTypes, GatewayTypes
    PROVE  /\ Stream \in Seq(Event) /\ Len(Stream) \in Nat /\ Len(Stream) = Len(batch) + Len(events)
           /\ \A i \in Place : Stream[i] \in Event
           /\ \A i \in 1..Len(batch) : Stream[i] = batch[i]
           /\ \A i \in 1..Len(events) : Stream[i + Len(batch)] = events[i]
<1>1. batch \in Seq(Event) /\ events \in Seq(Event)
  BY DEF ServerTypes, GatewayTypes
<1>2. Stream \in Seq(Event) /\ Len(Stream) = Len(batch) + Len(events)
  BY <1>1, ConcatProperties, Zenon DEF Stream
<1>3. \A i \in 1..Len(Stream) : Stream[i] = IF i <= Len(batch) THEN batch[i] ELSE events[i - Len(batch)]
  BY <1>1, ConcatProperties, Zenon DEF Stream
<1>4. Len(batch) \in Nat /\ Len(events) \in Nat
  BY <1>1
<1>5. \A i \in Place : Stream[i] \in Event
  BY <1>2, ElementOfSeq, Zenon DEF Place
<1>6. \A i \in 1..Len(batch) : Stream[i] = batch[i]
  BY <1>2, <1>3, <1>4
<1>7. \A i \in 1..Len(events) : Stream[i + Len(batch)] = events[i]
  BY <1>2, <1>3, <1>4
<1> QED
  BY <1>2, <1>4, <1>5, <1>6, <1>7

(* An event is queued behind the others, or some are taken from the front. *)
Grows(e) == /\ Len(Stream') = Len(Stream) + 1 /\ Stream'[Len(Stream) + 1] = e
            /\ \A i \in Place : Stream'[i] = Stream[i]

Shrinks(n) == /\ n \in 0..Len(Stream) /\ Len(Stream') = Len(Stream) - n
              /\ \A i \in Place' : Stream'[i] = Stream[i + n]

LEMMA AppendEffect ==
    ASSUME NEW S, NEW s \in Seq(S), NEW e \in S, NEW t, t = Append(s, e)
    PROVE  /\ t \in Seq(S) /\ Len(s) \in Nat /\ Len(t) = Len(s) + 1 /\ t[Len(s) + 1] = e
           /\ \A i \in 1..Len(s) : t[i] = s[i]
  BY AppendProperties

LEMMA ExceptEffect ==
    ASSUME NEW S, NEW s \in Seq(S), NEW e \in S, NEW k \in 1..Len(s), NEW t, t = [s EXCEPT ![k] = e]
    PROVE  /\ t \in Seq(S) /\ Len(t) = Len(s) /\ t[k] = e
           /\ \A i \in 1..Len(s) \ {k} : t[i] = s[i]
  BY ExceptSeq

LEMMA JoinEffect ==
    ASSUME NEW S, NEW b \in Seq(S), NEW e \in Seq(S), NEW t, t = b \o e
    PROVE  /\ Len(b) \in Nat /\ Len(e) \in Nat /\ Len(t) = Len(b) + Len(e)
           /\ \A i \in 1..Len(t) : t[i] = IF i <= Len(b) THEN b[i] ELSE e[i - Len(b)]
  BY ConcatProperties

LEMMA QueueEffect ==
    ASSUME ServerTypes, GatewayTypes, commands \in Nat, NEW e \in Event, Queue(e), UNCHANGED batch
    PROVE  events' \in Seq(Event) /\ queued' \in 0..MaxEvent /\ queued' = queued + 1 /\ Grows(e)
<1>1. events \in Seq(Event) /\ events' = Append(events, e) /\ batch \in Seq(Event) /\ batch' = batch
  BY DEF Queue, ServerTypes, GatewayTypes
<1>2. queued' \in 0..MaxEvent /\ queued' = queued + 1
  BY ConstantsOK DEF Queue, ServerTypes
<1> PICK b, v, w, s, t : b = batch /\ v = events /\ w = events' /\ s = Stream /\ t = Stream'
  OBVIOUS
<1>3. b \in Seq(Event) /\ v \in Seq(Event) /\ w = Append(v, e) /\ s = b \o v /\ t = b \o w
  BY <1>1 DEF Stream
<1>4. /\ w \in Seq(Event) /\ Len(v) \in Nat /\ Len(w) = Len(v) + 1 /\ w[Len(v) + 1] = e
      /\ \A i \in 1..Len(v) : w[i] = v[i]
  BY <1>3, AppendEffect
<1>5. /\ Len(b) \in Nat /\ Len(s) = Len(b) + Len(v) /\ Len(t) = Len(b) + Len(w)
      /\ \A i \in 1..Len(s) : s[i] = IF i <= Len(b) THEN b[i] ELSE v[i - Len(b)]
      /\ \A i \in 1..Len(t) : t[i] = IF i <= Len(b) THEN b[i] ELSE w[i - Len(b)]
  <2>1. /\ Len(b) \in Nat /\ Len(s) = Len(b) + Len(v)
        /\ \A i \in 1..Len(s) : s[i] = IF i <= Len(b) THEN b[i] ELSE v[i - Len(b)]
    BY <1>3, JoinEffect
  <2>2. /\ Len(t) = Len(b) + Len(w)
        /\ \A i \in 1..Len(t) : t[i] = IF i <= Len(b) THEN b[i] ELSE w[i - Len(b)]
    <3>1. w \in Seq(Event) /\ b \in Seq(Event) /\ t = b \o w
      BY <1>3, <1>4
    <3> QED
      BY <3>1, JoinEffect
  <2> QED
    BY <2>1, <2>2
<1>6. Len(t) = Len(s) + 1
  BY <1>4, <1>5
<1>7. t[Len(s) + 1] = e
  <2>1. Len(s) + 1 \in 1..Len(t) /\ ~(Len(s) + 1 <= Len(b)) /\ Len(s) + 1 - Len(b) = Len(v) + 1
    BY <1>4, <1>5
  <2> QED
    BY <1>4, <1>5, <2>1
<1>8. ASSUME NEW i \in 1..Len(s) PROVE t[i] = s[i]
  <2>1. i \in 1..Len(t) /\ (~(i <= Len(b)) => i - Len(b) \in 1..Len(v))
    BY <1>4, <1>5
  <2> QED
    BY <1>4, <1>5, <2>1
<1> QED
  BY <1>2, <1>4, <1>6, <1>7, <1>8 DEF Grows, Place

LEMMA PullEffect ==
    ASSUME ServerTypes, GatewayTypes, Pull
    PROVE  Stream' = Stream /\ events' \in Seq(Event) /\ batch' \in Seq(Event)
  BY DEF Pull, Stream, ServerTypes, GatewayTypes

LEMMA TakeEffect ==
    ASSUME ServerTypes, GatewayTypes, batch # <<>>, batch' = Tail(batch), UNCHANGED events
    PROVE  batch' \in Seq(Event) /\ 1 \in Place /\ Stream[1] = Head(batch) /\ Shrinks(1)
<1> PICK b, c, v, s, t : b = batch /\ c = batch' /\ v = events /\ s = Stream /\ t = Stream'
  OBVIOUS
<1>1. /\ b \in Seq(Event) /\ v \in Seq(Event) /\ b # <<>> /\ c = Tail(b) /\ s = b \o v /\ t = c \o v
  BY DEF ServerTypes, GatewayTypes, Stream
<1>2. /\ c \in Seq(Event) /\ Len(c) = Len(b) - 1 /\ Len(b) \in Nat \ {0} /\ b[1] = Head(b)
      /\ \A i \in 1..Len(c) : c[i] = b[i + 1]
  BY <1>1, HeadTailProperties
<1>3. /\ Len(v) \in Nat /\ Len(s) = Len(b) + Len(v) /\ Len(t) = Len(c) + Len(v)
      /\ \A i \in 1..Len(s) : s[i] = IF i <= Len(b) THEN b[i] ELSE v[i - Len(b)]
      /\ \A i \in 1..Len(t) : t[i] = IF i <= Len(c) THEN c[i] ELSE v[i - Len(c)]
  BY <1>1, <1>2, JoinEffect
<1>4. Len(t) = Len(s) - 1 /\ Len(s) \in Nat \ {0} /\ s[1] = Head(b)
  BY <1>2, <1>3
<1>5. ASSUME NEW i \in 1..Len(t) PROVE t[i] = s[i + 1]
  <2>1. i + 1 \in 1..Len(s) /\ (i <= Len(c) <=> i + 1 <= Len(b)) /\ (i + 1) - Len(b) = i - Len(c)
    BY <1>2, <1>3
  <2>2. i <= Len(c) => i \in 1..Len(c)
    BY <1>2, <1>3
  <2> QED
    BY SMTT(30), <1>2, <1>3, <2>1, <2>2
<1> QED
  BY <1>2, <1>4, <1>5 DEF Shrinks, Place

LEMMA LoseEffect ==
    ASSUME ServerTypes, GatewayTypes, batch' = <<>>, UNCHANGED events
    PROVE  batch' \in Seq(Event) /\ Shrinks(Len(batch))
<1>1. Stream' = events
  BY DEF Stream, ServerTypes
<1>2. Len(batch) \in Nat /\ Len(events) \in Nat
  BY DEF ServerTypes, GatewayTypes
<1> QED
  BY <1>1, <1>2, StreamType DEF Shrinks, Place

-----------------------------------------------------------------------------
(* The sessions of QR codes: code n is that of one of them, for each n up  *)
(* to their number, and codes that are used are codes that were shown.     *)
CodesShown ==
    /\ \A n \in 1..Cardinality(QrSessions) : \E k \in QrSessions : auth[k].code = n
    /\ \A k \in QrSessions : auth[k].code \in 1..Cardinality(QrSessions)
    /\ \A k, l \in QrSessions : auth[k].code = auth[l].code => k = l
    /\ past \subseteq 1..Cardinality(QrSessions) /\ asked \subseteq 1..Cardinality(QrSessions)

CodesAsked ==
    /\ \A x \in Proc : proc[x].code \in {0} \union asked
    /\ \A i \in Place : Stream[i].type = "AUTH" => Stream[i].code \in {0} \union asked

LEMMA QrSessionsFinite ==
    ASSUME AuthTypes
    PROVE  /\ IsFiniteSet(QrSessions) /\ Cardinality(QrSessions) \in Nat
           /\ QrSessions \subseteq 1..Len(auth) /\ Len(auth) \in Nat
<1>1. Len(auth) \in Nat /\ QrSessions \subseteq 1..Len(auth)
  BY DEF AuthTypes, QrSessions
<1>2. IsFiniteSet(1..Len(auth))
  BY <1>1, FS_Interval
<1>3. IsFiniteSet(QrSessions)
  BY <1>1, <1>2, FS_Subset
<1> QED
  BY <1>1, <1>3, FS_CardinalityType

LEMMA QrSessionFound ==
    ASSUME AuthTypes, CodesShown, NEW n \in 1..Cardinality(QrSessions)
    PROVE  /\ QrSession(n) \in QrSessions /\ QrSession(n) \in 1..Len(auth)
           /\ auth[QrSession(n)].code = n
           /\ \A k \in QrSessions : auth[k].code = n => k = QrSession(n)
<1>1. \E k \in QrSessions : auth[k].code = n
  BY DEF CodesShown
<1>2. QrSession(n) \in QrSessions /\ auth[QrSession(n)].code = n
  BY <1>1 DEF QrSession
<1> QED
  BY <1>2 DEF CodesShown, QrSessions

(* The authentication sessions keep their codes; one is added or one gets  *)
(* a new result.                                                           *)
Adds(row) == /\ auth' \in Seq(AuthRow) /\ Len(auth') = Len(auth) + 1 /\ auth'[Len(auth) + 1] = row
             /\ \A k \in 1..Len(auth) : auth'[k] = auth[k]

Sets(n, row) == /\ auth' \in Seq(AuthRow) /\ Len(auth') = Len(auth)
                /\ auth'[QrSession(n)] = row
                /\ \A k \in 1..Len(auth) \ {QrSession(n)} : auth'[k] = auth[k]

SameCodes == QrSessions' = QrSessions /\ \A k \in QrSessions : auth'[k].code = auth[k].code

LEMMA AddEffect ==
    ASSUME AuthTypes, NEW row \in AuthRow, auth' = Append(auth, row)
    PROVE  /\ Adds(row)
           /\ row.code = 0 => SameCodes
           /\ row.code # 0 => /\ QrSessions' = QrSessions \union {Len(auth) + 1}
                              /\ Cardinality(QrSessions') = Cardinality(QrSessions) + 1
<1>1. Adds(row)
  BY AppendEffect DEF AuthTypes, Adds
<1>2. Len(auth) \in Nat /\ QrSessions \subseteq 1..Len(auth) /\ IsFiniteSet(QrSessions)
  BY QrSessionsFinite
<1>3. QrSessions' = {k \in 1..Len(auth) + 1 : auth'[k].code # 0}
  BY <1>1 DEF QrSessions, Adds
<1>4. \A k \in 1..Len(auth) : auth'[k] = auth[k]
  BY <1>1 DEF Adds
<1>5. auth'[Len(auth) + 1] = row
  BY <1>1 DEF Adds
<1>6. row.code = 0 => SameCodes
  BY <1>2, <1>3, <1>4, <1>5 DEF SameCodes, QrSessions
<1>7. row.code # 0 => QrSessions' = QrSessions \union {Len(auth) + 1}
  BY <1>2, <1>3, <1>4, <1>5 DEF QrSessions
<1>8. Len(auth) + 1 \notin QrSessions
  BY <1>2
<1> QED
  BY <1>1, <1>2, <1>6, <1>7, <1>8, FS_AddElement

LEMMA SetEffect ==
    ASSUME AuthTypes, CodesShown, NEW n \in 1..Cardinality(QrSessions), NEW row \in AuthRow, row.code = n,
           auth' = [auth EXCEPT ![QrSession(n)] = row]
    PROVE  Sets(n, row) /\ SameCodes
<1>1. QrSession(n) \in 1..Len(auth) /\ auth[QrSession(n)].code = n /\ QrSession(n) \in QrSessions
  BY QrSessionFound
<1>2. Sets(n, row)
  BY <1>1, ExceptEffect DEF AuthTypes, Sets
<1>3. \A k \in 1..Len(auth) : auth'[k].code = auth[k].code
  BY <1>1, <1>2 DEF Sets
<1> QED
  BY <1>2, <1>3 DEF SameCodes, QrSessions, Sets

-----------------------------------------------------------------------------
(* Types *)

LEMMA TypeInit == Init => TypeInv
<1> SUFFICES ASSUME Init PROVE TypeInv
  OBVIOUS
<1>1. /\ 0 \in 0..MaxEvent /\ 0 \in 0..MaxCrash /\ 0 \in 0..MaxCard
  BY ConstantsOK
<1>2. ServerTypes
  BY <1>1 DEF Init, ServerTypes, ServerStatus, ParcelStatus
<1>3. GatewayTypes
  BY <1>1 DEF Init, GatewayTypes, ParcelStatus
<1>4. AccessTypes
  BY <1>1, IdleIsThread DEF Init, AccessTypes, TaskStatus
<1>5. AuthTypes
  BY DEF Init, AuthTypes
<1>6. GrantedUser
  BY DEF Init, GrantedUser, Idle
<1>7. StationTypes
  BY DEF Init, StationTypes
<1> QED
  BY <1>2, <1>3, <1>4, <1>5, <1>6, <1>7 DEF TypeInv

(* An event the server queues                                              *)
Queues == \E e \in Event : Queue(e)

LEMMA EventsAreEvents ==
    /\ \A p \in Parcel : ParcelEvent("PUT", p) \in Event /\ ParcelEvent("PICKED", p) \in Event
    /\ \A u \in User, n \in 0..MaxQr, due \in SUBSET Parcel : AuthEvent(u, n, due) \in Event
  BY DEF Event, ParcelEvent, AuthEvent

Due(u) == {p \in Parcel : Owner[p] = u /\ shelf[p] = "WAITING_PICKUP"}

LEMMA ServerTypesStep ==
    ASSUME ServerTypes, StationTypes, GatewayTypes, AccessTypes, AuthTypes, Next
    PROVE  ServerTypes' /\ StationTypes'
<1>0. commands \in Nat
  BY ConstantsOK DEF AccessTypes
<1>1. ASSUME NEW p \in Parcel, PutOnShelf(p) PROVE ServerTypes' /\ StationTypes'
  <2>1. events' \in Seq(Event) /\ queued' \in 0..MaxEvent
    BY <1>0, <1>1, EventsAreEvents, QueueEffect DEF PutOnShelf, parcelVars
  <2> QED
    BY <1>1, <2>1 DEF PutOnShelf, ServerTypes, StationTypes, stationVars, ServerStatus, ParcelStatus
<1>2. ASSUME NEW p \in Parcel, ConfirmPickup(p) PROVE ServerTypes' /\ StationTypes'
  <2>1. events' \in Seq(Event) /\ queued' \in 0..MaxEvent
    BY <1>0, <1>2, EventsAreEvents, QueueEffect DEF ConfirmPickup, parcelVars
  <2> QED
    BY <1>2, <2>1 DEF ConfirmPickup, ServerTypes, StationTypes, stationVars, ServerStatus, ParcelStatus
<1>3. ASSUME NEW u \in User, NEW n \in 0..MaxQr, RequestGateAuth(u, n)
      PROVE  ServerTypes' /\ StationTypes'
  <2>0. AuthEvent(u, n, Due(u)) \in Event
    BY EventsAreEvents DEF Due
  <2>1. events' \in Seq(Event) /\ queued' \in 0..MaxEvent
    BY <1>0, <1>3, <2>0, QueueEffect DEF RequestGateAuth, parcelVars, Due
  <2>2. asked' \subseteq 1..MaxQr /\ repeated' \subseteq asked'
    BY <1>3, ConstantsOK DEF RequestGateAuth, ServerTypes
  <2> QED
    BY <1>3, <2>1, <2>2 DEF RequestGateAuth, ServerTypes, StationTypes, stationVars
<1>4. CASE LoopOnly
  <2>1. events' \in Seq(Event)
    BY <1>4, PullEffect DEF LoopOnly, ApplyPut, ApplyPicked, EndBatch, serverVars, ServerTypes
  <2> QED
    BY <1>4, <2>1, LoopOnlyFrame DEF ServerTypes, StationTypes, stationVars
<1>5. CASE UNCHANGED serverVars /\ UNCHANGED stationVars
  BY <1>5 DEF serverVars, stationVars, ServerTypes, StationTypes
<1>6. Starts \/ (\E x \in Proc : AccessStep(x)) \/ ReaderStep \/ Crash
        => UNCHANGED serverVars /\ UNCHANGED stationVars
  BY StartsFrame, AccessStepFrame, ReaderFrame DEF Crash
<1>7. CASE StationStep
  <2>1. queued' \in 0..MaxEvent
    BY <1>0, <1>7, StationFrame, ConstantsOK DEF ServerTypes
  <2> QED
    BY <1>7, <2>1, StationFrame, StationEffect DEF ServerTypes
<1> QED
  BY <1>1, <1>2, <1>3, <1>4, <1>5, <1>6, <1>7, StepKinds DEF ServerStep

LEMMA FlushTypes ==
    ASSUME GatewayTypes, Flush \/ UNCHANGED <<parcel, bound, staged>>
    PROVE  /\ parcel' \in [Parcel -> ParcelStatus] /\ staged' \in [Parcel -> ParcelStatus]
           /\ bound' \subseteq Parcel
  BY DEF GatewayTypes, Flush, Flushed, ParcelStatus

LEMMA GatewayTypesStep ==
    ASSUME ServerTypes, StationTypes, GatewayTypes, Next
    PROVE  GatewayTypes'
<1>1. CASE Commits
  BY <1>1, FlushTypes DEF Commits, GatewayTypes
<1>2. CASE Pull
  BY <1>2, PullEffect DEF Pull, GatewayTypes
<1>3. CASE ApplyPut
  <2>1. Head(batch).parcel \in Parcel /\ batch' \in Seq(Event)
    BY <1>3, NextIsEvent DEF ApplyPut, NextEvent
  <2> QED
    BY <1>3, <2>1 DEF ApplyPut, GatewayTypes, ParcelStatus
<1>4. CASE ApplyPicked
  <2>1. Head(batch).parcel \in Parcel /\ batch' \in Seq(Event)
    BY <1>4, NextIsEvent DEF ApplyPicked, NextEvent
  <2> QED
    BY <1>4, <2>1 DEF ApplyPicked, GatewayTypes, ParcelStatus
<1>5. CASE EndBatch
  BY <1>5, FlushTypes DEF EndBatch, GatewayTypes
<1>6. CASE HandleGateAuth
  BY <1>6, NextIsEvent DEF HandleGateAuth, NextEvent, GatewayTypes
<1>7. CASE Crash
  <2>1. crashes' \in 0..MaxCrash
    BY <1>7, ConstantsOK DEF Crash, GatewayTypes
  <2>2. missed' \subseteq Parcel
    BY <1>7 DEF Crash, GatewayTypes
  <2> QED
    BY <1>7, <2>1, <2>2 DEF Crash, GatewayTypes, ParcelStatus
<1>8. CASE UNCHANGED parcelVars /\ UNCHANGED crashes
  BY <1>8 DEF parcelVars, GatewayTypes
<1>9. CASE StationStep
  BY <1>9, StationFrame, StationEffect DEF GatewayTypes
<1> QED
  BY <1>1, <1>2, <1>3, <1>4, <1>5, <1>6, <1>7, <1>8, <1>9, StepKinds, AccessStepFrame, StartsFrame,
     ServerStepFrame, ReaderFrame DEF LoopOnly

LEMMA AuthTypesStep ==
    ASSUME ServerTypes, GatewayTypes, AuthTypes, AccessTypes, CodesShown, CodesAsked, Next
    PROVE  AuthTypes'
<1>1. CASE UNCHANGED authVars
  BY <1>1 DEF authVars, AuthTypes
<1>2. Cardinality(QrSessions) \in Nat
  BY QrSessionsFinite
<1>3. CASE GateQrSession
  <2> DEFINE row == [code |-> Cardinality(QrSessions) + 1, session |-> 0, status |-> "PENDING"]
  <2>1. row \in AuthRow
    BY <1>2, <1>3, ConstantsOK DEF GateQrSession, AuthRow, AuthStatus
  <2>2. auth' \in Seq(AuthRow)
    BY <1>3, <2>1, AddEffect DEF GateQrSession, Adds
  <2> QED
    BY <1>3, <2>2 DEF GateQrSession, AuthTypes
<1>4. ASSUME NEW n \in 1..MaxQr, PassExpiry(n) PROVE AuthTypes'
  BY <1>4 DEF PassExpiry, AuthTypes
<1>5. ASSUME NEW n \in 1..MaxQr, GateAuthResult(n) PROVE AuthTypes'
  BY <1>5 DEF GateAuthResult, AuthTypes
<1>6. CASE ExpireSession
  <2>1. poll \in 1..Cardinality(QrSessions)
    BY <1>6 DEF ExpireSession, AuthTypes, CodesShown
  <2>2. QrSession(poll) \in 1..Len(auth) /\ auth[QrSession(poll)].code = poll
    BY <2>1, QrSessionFound
  <2>3. auth[QrSession(poll)] \in AuthRow
    BY <2>2 DEF AuthTypes
  <2>4. PICK row : row = [auth[QrSession(poll)] EXCEPT !.status = "EXPIRED"]
    OBVIOUS
  <2>5. row \in AuthRow
    BY <2>3, <2>4 DEF AuthRow, AuthStatus
  <2>6. auth' = [auth EXCEPT ![QrSession(poll)] = row]
    BY <1>6, <2>4 DEF ExpireSession
  <2>7. auth' \in Seq(AuthRow)
    BY <2>2, <2>5, <2>6, ExceptEffect DEF AuthTypes
  <2> QED
    BY <1>6, <2>7 DEF ExpireSession, AuthTypes
<1>7. ASSUME NEW x \in Proc, FinishAccess(x) PROVE AuthTypes'
  <2>1. proc[x] \in Thread
    BY DEF AccessTypes
  <2>2. Row(x) \in AuthRow
    BY <2>1 DEF Row, AuthRow, AuthStatus, Thread
  <2>3. CASE proc[x].code = 0
    BY <1>7, <2>2, <2>3, AddEffect DEF FinishAccess, RecordResult, Adds, AuthTypes
  <2>4. CASE proc[x].code # 0
    <3>1. proc[x].code \in 1..Cardinality(QrSessions)
      BY <2>4 DEF CodesShown, CodesAsked
    <3>2. QrSession(proc[x].code) \in 1..Len(auth)
      BY <3>1, QrSessionFound
    <3>3. auth' \in Seq(AuthRow)
      BY <1>7, <2>2, <2>4, <3>2, ExceptEffect DEF FinishAccess, RecordResult, AuthTypes
    <3>4. crossed' \subseteq past
      BY <1>7 DEF FinishAccess, RecordResult, AuthTypes
    <3> QED
      BY <1>7, <3>3, <3>4 DEF FinishAccess, AuthTypes
  <2> QED
    BY <2>3, <2>4
<1>8. CASE Crash
  BY <1>8 DEF Crash, AuthTypes
<1>9. Starts \/ ServerStep \/ LoopOnly => UNCHANGED authVars
  BY StartsFrame, ServerStepFrame, LoopOnlyFrame
<1>10. \A x \in Proc : AccessStep(x) /\ ~FinishAccess(x) => UNCHANGED authVars
  BY AccessStepFrame
<1> QED
  BY <1>1, <1>3, <1>4, <1>5, <1>6, <1>7, <1>8, <1>9, <1>10, StepKinds DEF ReaderStep

LEMMA PickupAppends ==
    ASSUME AccessTypes, GrantedUser, NEW x \in Proc, CommitSession(x)
    PROVE  /\ pickup' \in Seq(PickupRow) /\ Len(pickup) \in Nat /\ Len(pickup') = Len(pickup) + 1
           /\ pickup'[Len(pickup) + 1] = [user |-> proc[x].user, colour |-> proc[x].colour]
           /\ \A k \in 1..Len(pickup) : pickup'[k] = pickup[k]
<1> DEFINE row == [user |-> proc[x].user, colour |-> proc[x].colour]
<1>1. proc[x].user \in User /\ proc[x] \in Thread
  BY DEF AccessTypes, GrantedUser, CommitSession
<1>2. row \in PickupRow
  BY <1>1 DEF PickupRow, Thread
<1>3. pickup' = Append(pickup, row) /\ pickup \in Seq(PickupRow)
  BY DEF CommitSession, AccessTypes
<1> QED
  BY <1>2, <1>3, AppendEffect

LEMMA AccessStepTypes ==
    ASSUME AccessTypes, GrantedUser, NEW x \in Proc, AccessStep(x)
    PROVE  AccessTypes' /\ GrantedUser'
<1>0. UNCHANGED <<reads, commands>> /\ (~CommitSession(x) => UNCHANGED pickup)
  BY AccessStepFrame
<1> DEFINE Fine == Others(x) /\ task' \in [TaskId -> TaskStatus] /\ proc'[x].pc # "granted"
<1>1. CASE CommitSession(x)
  <2>1. Fine
    BY <1>1, CommitSessionEffect DEF Becomes, CommitSession, AccessTypes
  <2> QED
    BY <1>0, <1>1, <2>1, PickupAppends DEF AccessTypes, GrantedUser, Others
<1>2. CASE SkipUnbound(x)
  <2>1. Fine
    BY <1>2, SkipUnboundEffect DEF Becomes, SkipUnbound, AccessTypes, accessVars
  <2> QED
    BY <1>0, <1>2, <2>1 DEF AccessTypes, GrantedUser, Others, SkipUnbound, accessVars
<1>3. CASE CreateTask(x)
  <2>1. PICK p \in proc[x].todo : StartTask(x, p) /\ UNCHANGED pickup
    BY <1>3 DEF CreateTask
  <2>2. p \in Parcel
    BY <2>1 DEF AccessTypes, Thread
  <2>3. Fine
    BY <2>1, <2>2, StartTaskEffect DEF Becomes, StartTask, AccessTypes, TaskStatus
  <2> QED
    BY <1>0, <2>1, <2>3 DEF AccessTypes, GrantedUser, Others
<1>4. CASE MarkRunning(x)
  <2>1. Fine /\ UNCHANGED pickup
    BY <1>4, MarkRunningEffect DEF Becomes, MarkRunning, AccessTypes, TaskStatus
  <2> QED
    BY <1>0, <2>1 DEF AccessTypes, GrantedUser, Others
<1>5. CASE MarkFinished(x)
  <2>1. PICK result \in {"DONE", "FAILED"} :
           task' = [i \in TaskId |-> IF i \in {proc[x].session} \X proc[x].tag THEN result ELSE task[i]]
    BY <1>5 DEF MarkFinished, Outcome
  <2>2. Others(x) /\ proc'[x].pc # "granted"
    BY <1>5, MarkFinishedEffect DEF Becomes, Ends, Idle
  <2>3. Fine /\ UNCHANGED pickup
    BY <1>5, <2>1, <2>2 DEF MarkFinished, AccessTypes, TaskStatus
  <2> QED
    BY <1>0, <2>3 DEF AccessTypes, GrantedUser, Others
<1>6. CASE EnqueueAudit(x)
  <2>1. Fine /\ UNCHANGED pickup
    BY <1>6, EnqueueAuditEffect DEF Becomes, EnqueueAudit, AccessTypes
  <2> QED
    BY <1>0, <2>1 DEF AccessTypes, GrantedUser, Others
<1>7. CASE FinishAccess(x)
  <2>1. Fine /\ UNCHANGED pickup
    BY <1>7, FinishAccessEffect DEF Ends, Idle, FinishAccess, AccessTypes, accessVars
  <2> QED
    BY <1>0, <2>1 DEF AccessTypes, GrantedUser, Others
<1> QED
  BY <1>1, <1>2, <1>3, <1>4, <1>5, <1>6, <1>7 DEF AccessStep

LEMMA WaitingForUser == ASSUME NEW u, Waiting(u) # {} PROVE u \in User
  BY ConstantsOK DEF Waiting

LEMMA StartsTypes ==
    ASSUME ServerTypes, GatewayTypes, AccessTypes, GrantedUser, Starts
    PROVE  AccessTypes' /\ GrantedUser'
<1>0. UNCHANGED pickup
  BY StartsFrame
<1>1. ASSUME HandleGateAuth PROVE AccessTypes' /\ GrantedUser'
  <2>1. "loop" \in Proc /\ UNCHANGED <<pickup, task, reads, commands>>
    BY <1>1 DEF HandleGateAuth, Proc, accessVars
  <2>2. Others("loop") /\ (proc'["loop"].pc = "granted" => proc'["loop"].user \in User)
    BY <1>1, HandleGateAuthEffect, WaitingForUser DEF Decides
  <2> QED
    BY <2>1, <2>2 DEF AccessTypes, GrantedUser, Others
<1>2. ASSUME NEW x \in Api, NEW c \in Card, HandleAccessCard(x, c) PROVE AccessTypes' /\ GrantedUser'
  <2>1. x \in Proc /\ UNCHANGED <<pickup, task, commands>> /\ reads' \in 0..MaxCard
    BY <1>2, ConstantsOK DEF HandleAccessCard, Proc, AccessTypes
  <2>2. Others(x) /\ (proc'[x].pc = "granted" => proc'[x].user \in User)
    BY <1>2, <2>1, ReadCardEffect, WaitingForUser DEF Decides
  <2> QED
    BY <2>1, <2>2 DEF AccessTypes, GrantedUser, Others
<1>3. ASSUME NEW p \in Parcel, HandleServerCommand(p) PROVE AccessTypes' /\ GrantedUser'
  <2>1. "mqtt" \in Proc /\ UNCHANGED <<pickup, reads>> /\ commands' \in 0..MaxEvent /\ StartTask("mqtt", p)
    BY <1>3, ConstantsOK DEF HandleServerCommand, Proc, AccessTypes, ServerTypes
  <2>2. Others("mqtt") /\ proc'["mqtt"].pc # "granted"
    BY <2>1, StartTaskEffect DEF Becomes
  <2>3. task' \in [TaskId -> TaskStatus]
    BY <2>1 DEF StartTask, AccessTypes, TaskStatus
  <2> QED
    BY <2>1, <2>2, <2>3 DEF AccessTypes, GrantedUser, Others
<1> QED
  BY <1>1, <1>2, <1>3 DEF Starts

LEMMA AccessTypesStep ==
    ASSUME ServerTypes, GatewayTypes, AccessTypes, GrantedUser, Next
    PROVE  AccessTypes' /\ GrantedUser'
<1>1. CASE UNCHANGED accessVars /\ UNCHANGED proc
  BY <1>1 DEF accessVars, AccessTypes, GrantedUser
<1>2. CASE Crash
  BY <1>2, IdleIsThread DEF Crash, AccessTypes, GrantedUser, Idle
<1> QED
  BY <1>1, <1>2, StepKinds, StartsTypes, AccessStepTypes, ServerStepFrame, LoopOnlyFrame, ReaderFrame

-----------------------------------------------------------------------------
(* Codes *)

LEMMA CodesShownKept ==
    ASSUME CodesShown, SameCodes, past' \subseteq 1..Cardinality(QrSessions),
           asked' \subseteq 1..Cardinality(QrSessions)
    PROVE  CodesShown'
  BY DEF CodesShown, SameCodes

LEMMA CodesShownStep ==
    ASSUME ServerTypes, GatewayTypes, AuthTypes, AccessTypes, CodesShown, CodesAsked, Next
    PROVE  CodesShown'
<1>0. UNCHANGED auth => SameCodes
  BY DEF SameCodes, QrSessions
<1>1. CASE ServerStep
  <2>1. asked' \subseteq 1..Cardinality(QrSessions)
    <3>1. ASSUME NEW u \in User, NEW n \in 0..MaxQr, RequestGateAuth(u, n)
          PROVE  asked' \subseteq 1..Cardinality(QrSessions)
      <4>1. asked' = asked \union ({n} \ {0}) /\ n \in 0..Cardinality(QrSessions)
        BY <3>1 DEF RequestGateAuth
      <4> QED
        BY <4>1, QrSessionsFinite DEF CodesShown
    <3>2. ASSUME NEW p \in Parcel, PutOnShelf(p) \/ ConfirmPickup(p)
          PROVE  asked' \subseteq 1..Cardinality(QrSessions)
      BY <3>2 DEF PutOnShelf, ConfirmPickup, CodesShown
    <3>3. CASE StationStep
      BY <3>3, StationFrame DEF CodesShown
    <3> QED
      BY <1>1, <3>1, <3>2, <3>3 DEF ServerStep
  <2> QED
    BY <1>0, <1>1, <2>1, ServerStepFrame, CodesShownKept DEF authVars, CodesShown
<1>2. CASE LoopOnly \/ Starts \/ Crash
  BY <1>0, <1>2, LoopOnlyFrame, StartsFrame, CodesShownKept DEF authVars, CodesShown, serverVars, Crash
<1>3. CASE GateQrSession
  <2> PICK n, row : /\ n = Cardinality(QrSessions)
                    /\ row = [code |-> n + 1, session |-> 0, status |-> "PENDING"]
    OBVIOUS
  <2>1. n \in Nat /\ n + 1 \in 0..MaxQr /\ Len(auth) \in Nat /\ QrSessions \subseteq 1..Len(auth)
    BY <1>3, QrSessionsFinite, ConstantsOK DEF GateQrSession
  <2>2. row \in AuthRow /\ row.code = n + 1 /\ auth' = Append(auth, row)
    BY <1>3, <2>1 DEF GateQrSession, AuthRow, AuthStatus
  <2>3. Adds(row) /\ QrSessions' = QrSessions \union {Len(auth) + 1} /\ Cardinality(QrSessions') = n + 1
    BY <2>1, <2>2, AddEffect
  <2>4. auth'[Len(auth) + 1].code = n + 1 /\ \A k \in QrSessions : auth'[k].code = auth[k].code
    BY <2>1, <2>2, <2>3 DEF Adds
  <2>5. UNCHANGED <<past, asked>>
    BY <1>3 DEF GateQrSession, serverVars
  <2>6. \A k \in QrSessions : auth[k].code \in 1..n
    BY DEF CodesShown
  <2>7. \A m \in 1..n + 1 : \E k \in QrSessions' : auth'[k].code = m
    <3>1. ASSUME NEW m \in 1..n PROVE \E k \in QrSessions' : auth'[k].code = m
      BY <2>3, <2>4 DEF CodesShown
    <3> QED
      BY <2>1, <2>3, <2>4, <3>1
  <2>8. \A k \in QrSessions' : auth'[k].code \in 1..n + 1
    BY <2>1, <2>3, <2>4, <2>6
  <2>9. \A k, l \in QrSessions' : auth'[k].code = auth'[l].code => k = l
    BY <2>1, <2>3, <2>4, <2>6 DEF CodesShown
  <2>10. past' \subseteq 1..n + 1 /\ asked' \subseteq 1..n + 1
    BY <2>1, <2>5 DEF CodesShown
  <2> QED
    BY <2>3, <2>7, <2>8, <2>9, <2>10 DEF CodesShown
<1>4. ASSUME NEW n \in 1..MaxQr, PassExpiry(n) PROVE CodesShown'
  BY <1>0, <1>4, CodesShownKept DEF PassExpiry, CodesShown, serverVars
<1>5. ASSUME NEW n \in 1..MaxQr, GateAuthResult(n) PROVE CodesShown'
  BY <1>0, <1>5, CodesShownKept DEF GateAuthResult, CodesShown, serverVars
<1>6. CASE ExpireSession
  <2>1. poll \in 1..Cardinality(QrSessions)
    BY <1>6 DEF ExpireSession, AuthTypes, CodesShown
  <2>2. auth[QrSession(poll)] \in AuthRow /\ auth[QrSession(poll)].code = poll
    BY <2>1, QrSessionFound DEF AuthTypes
  <2>3. PICK row : row = [auth[QrSession(poll)] EXCEPT !.status = "EXPIRED"]
    OBVIOUS
  <2>4. row \in AuthRow /\ row.code = poll
    BY <2>2, <2>3 DEF AuthRow, AuthStatus
  <2>5. auth' = [auth EXCEPT ![QrSession(poll)] = row]
    BY <1>6, <2>3 DEF ExpireSession
  <2>6. SameCodes
    BY <2>1, <2>4, <2>5, SetEffect
  <2> QED
    BY <1>6, <2>6, CodesShownKept DEF ExpireSession, CodesShown, serverVars
<1>7. ASSUME NEW x \in Proc, AccessStep(x) PROVE CodesShown'
  <2>1. UNCHANGED <<past, asked>> /\ (~FinishAccess(x) => UNCHANGED auth)
    BY <1>7, AccessStepFrame DEF serverVars, authVars
  <2>2. ASSUME FinishAccess(x) PROVE SameCodes
    <3>1. proc[x] \in Thread
      BY DEF AccessTypes
    <3>2. Row(x) \in AuthRow /\ Row(x).code = proc[x].code
      BY <3>1 DEF Row, AuthRow, AuthStatus, Thread
    <3>3. CASE proc[x].code = 0
      BY <2>2, <3>2, <3>3, AddEffect DEF FinishAccess, RecordResult
    <3>4. CASE proc[x].code # 0
      <4>1. proc[x].code \in 1..Cardinality(QrSessions)
        BY <3>4 DEF CodesShown, CodesAsked
      <4> QED
        BY <2>2, <3>2, <3>4, <4>1, SetEffect DEF FinishAccess, RecordResult
    <3> QED
      BY <3>3, <3>4
  <2> QED
    BY <1>0, <2>1, <2>2, CodesShownKept DEF CodesShown
<1> QED
  BY <1>1, <1>2, <1>3, <1>4, <1>5, <1>6, <1>7, StepKinds DEF ReaderStep

(* What a step does to the events on their way                             *)
StreamSame == Stream' = Stream

LEMMA CommitsStream == Commits => StreamSame
  BY DEF Commits, StreamSame, Stream

LEMMA AppliesOne ==
    ASSUME ServerTypes, GatewayTypes, ApplyPut \/ ApplyPicked \/ HandleGateAuth
    PROVE  Shrinks(1) /\ 1 \in Place /\ Stream[1] = Head(batch)
<1>1. batch # <<>> /\ batch' = Tail(batch) /\ UNCHANGED events
  BY DEF ApplyPut, ApplyPicked, HandleGateAuth, NextEvent, serverVars
<1> QED
  BY <1>1, TakeEffect

LEMMA StreamKinds ==
    ASSUME ServerTypes, GatewayTypes, AccessTypes, Next
    PROVE  \/ StreamSame
           \/ \E p \in Parcel : \/ PutOnShelf(p) /\ Grows(ParcelEvent("PUT", p))
                                \/ ConfirmPickup(p) /\ Grows(ParcelEvent("PICKED", p))
           \/ \E u \in User, n \in 0..MaxQr : RequestGateAuth(u, n) /\ Grows(AuthEvent(u, n, Due(u)))
           \/ Shrinks(1) /\ (ApplyPut \/ ApplyPicked \/ HandleGateAuth)
           \/ Shrinks(Len(batch)) /\ Crash
<1>0. commands \in Nat
  BY ConstantsOK DEF AccessTypes
<1>1. ASSUME NEW p \in Parcel, PutOnShelf(p) PROVE Grows(ParcelEvent("PUT", p))
  BY <1>0, <1>1, EventsAreEvents, QueueEffect DEF PutOnShelf, parcelVars
<1>2. ASSUME NEW p \in Parcel, ConfirmPickup(p) PROVE Grows(ParcelEvent("PICKED", p))
  BY <1>0, <1>2, EventsAreEvents, QueueEffect DEF ConfirmPickup, parcelVars
<1>3. ASSUME NEW u \in User, NEW n \in 0..MaxQr, RequestGateAuth(u, n) PROVE Grows(AuthEvent(u, n, Due(u)))
  <2>1. AuthEvent(u, n, Due(u)) \in Event
    BY EventsAreEvents DEF Due
  <2> QED
    BY <1>0, <1>3, <2>1, QueueEffect DEF RequestGateAuth, parcelVars, Due
<1>4. CASE Pull \/ EndBatch
  BY <1>4, PullEffect DEF StreamSame, EndBatch, Stream, serverVars
<1>5. CASE ApplyPut \/ ApplyPicked \/ HandleGateAuth
  BY <1>5, AppliesOne
<1>6. CASE Crash
  BY <1>6, LoseEffect DEF Crash, serverVars
<1>7. CASE Commits
  BY <1>7, CommitsStream
<1>8. CASE ReaderStep
  BY <1>8, ReaderFrame DEF StreamSame, Stream, serverVars, parcelVars
<1>9. CASE StationStep
  BY <1>9, StationFrame DEF StreamSame, Stream
<1> QED
  BY <1>1, <1>2, <1>3, <1>4, <1>5, <1>6, <1>7, <1>8, <1>9, StepKinds, AccessStepFrame, StartsFrame
     DEF ServerStep, LoopOnly

(* What a step does to the codes of the threads                            *)
LEMMA ThreadCodes ==
    ASSUME ServerTypes, GatewayTypes, AccessTypes, Next, NEW x \in Proc
    PROVE  \/ proc'[x].code \in {0, proc[x].code}
           \/ /\ x = "loop" /\ HandleGateAuth /\ proc'[x].code = Head(batch).code
<1>1. ASSUME NEW y \in Proc, AccessStep(y) PROVE proc'[x].code \in {0, proc[x].code}
  <2> USE DEF Becomes, Others, Keeps, Ends, Idle
  <2>1. CASE CommitSession(y)
    BY <2>1, CommitSessionEffect
  <2>2. CASE SkipUnbound(y)
    BY <2>2, SkipUnboundEffect
  <2>3. CASE CreateTask(y)
    <3>1. PICK p \in proc[y].todo : StartTask(y, p)
      BY <2>3 DEF CreateTask
    <3>2. p \in Parcel
      BY <3>1 DEF AccessTypes, Thread
    <3> QED
      BY <3>1, <3>2, StartTaskEffect
  <2>4. CASE MarkRunning(y)
    BY <2>4, MarkRunningEffect
  <2>5. CASE MarkFinished(y)
    BY <2>5, MarkFinishedEffect
  <2>6. CASE EnqueueAudit(y)
    BY <2>6, EnqueueAuditEffect
  <2>7. CASE FinishAccess(y)
    BY <2>7, FinishAccessEffect
  <2> QED
    BY <1>1, <2>1, <2>2, <2>3, <2>4, <2>5, <2>6, <2>7 DEF AccessStep
<1>2. CASE HandleGateAuth
  <2>1. Decides("loop", Head(batch).user, Head(batch).code, Head(batch).due)
    BY <1>2, HandleGateAuthEffect
  <2> QED
    BY <1>2, <2>1 DEF Decides, Others
<1>3. ASSUME NEW y \in Api, NEW c \in Card, HandleAccessCard(y, c) PROVE proc'[x].code \in {0, proc[x].code}
  BY <1>3, ReadCardEffect DEF Decides, Others, Proc
<1>4. ASSUME NEW p \in Parcel, HandleServerCommand(p) PROVE proc'[x].code \in {0, proc[x].code}
  <2>1. StartTask("mqtt", p) /\ "mqtt" \in Proc
    BY <1>4 DEF HandleServerCommand, Proc
  <2> QED
    BY <2>1, StartTaskEffect DEF Becomes, Others, Keeps
<1>5. CASE Crash
  BY <1>5 DEF Crash, Idle
<1>6. CASE UNCHANGED proc
  BY <1>6
<1> QED
  BY <1>1, <1>2, <1>3, <1>4, <1>5, <1>6, StepKinds, ServerStepFrame, LoopOnlyFrame, ReaderFrame DEF Starts

LEMMA CodesAskedStep ==
    ASSUME ServerTypes, GatewayTypes, AccessTypes, CodesAsked, Next
    PROVE  CodesAsked'
<1>1. asked \subseteq asked' /\ (\A u \in User, n \in 0..MaxQr : RequestGateAuth(u, n) => n \in {0} \union asked')
  <2>1. UNCHANGED asked \/ (\E u \in User, n \in 0..MaxQr : RequestGateAuth(u, n))
    BY StepKinds, LoopOnlyFrame, StartsFrame, AccessStepFrame, ReaderFrame, StationFrame
       DEF ServerStep, PutOnShelf, ConfirmPickup, Crash, serverVars
  <2> QED
    BY <2>1 DEF RequestGateAuth
<1>2. ASSUME NEW x \in Proc PROVE proc'[x].code \in {0} \union asked'
  <2>1. CASE proc'[x].code \in {0, proc[x].code}
    BY <1>1, <2>1 DEF CodesAsked
  <2>2. CASE HandleGateAuth /\ proc'[x].code = Head(batch).code
    <3>1. 1 \in Place /\ Stream[1] = Head(batch) /\ Head(batch).type = "AUTH"
      BY <2>2, AppliesOne DEF HandleGateAuth, NextEvent
    <3> QED
      BY <1>1, <2>2, <3>1 DEF CodesAsked
  <2> QED
    BY <2>1, <2>2, ThreadCodes
<1>3. ASSUME NEW i \in Place', Stream'[i].type = "AUTH" PROVE Stream'[i].code \in {0} \union asked'
  <2>0. Len(Stream) \in Nat /\ Len(batch) \in Nat
    BY StreamType DEF GatewayTypes
  <2>1. CASE StreamSame
    BY <1>1, <1>3, <2>1 DEF StreamSame, CodesAsked, Place
  <2>2. ASSUME NEW p \in Parcel, NEW type \in {"PUT", "PICKED"}, Grows(ParcelEvent(type, p))
        PROVE  Stream'[i].code \in {0} \union asked'
    <3>1. i \in Place
      BY <1>3, <2>0, <2>2 DEF Grows, Place, ParcelEvent
    <3> QED
      BY <1>1, <1>3, <2>2, <3>1 DEF Grows, CodesAsked
  <2>3. ASSUME NEW u \in User, NEW n \in 0..MaxQr, RequestGateAuth(u, n), Grows(AuthEvent(u, n, Due(u)))
        PROVE  Stream'[i].code \in {0} \union asked'
    <3>1. CASE i \in Place
      BY <1>1, <1>3, <2>3, <3>1 DEF Grows, CodesAsked
    <3>2. CASE i \notin Place
      <4>1. i = Len(Stream) + 1
        BY <2>0, <2>3, <3>2 DEF Grows, Place
      <4>2. Stream'[i].code = n
        BY <2>3, <4>1 DEF Grows, AuthEvent
      <4> QED
        BY <1>1, <2>3, <4>2
    <3> QED
      BY <3>1, <3>2
  <2>4. ASSUME NEW k \in Nat, Shrinks(k) PROVE Stream'[i].code \in {0} \union asked'
    <3>1. i + k \in Place /\ Stream'[i] = Stream[i + k]
      BY <2>0, <2>4 DEF Shrinks, Place
    <3> QED
      BY <1>1, <1>3, <3>1 DEF CodesAsked
  <2> QED
    BY <2>0, <2>1, <2>2, <2>3, <2>4, StreamKinds
<1> QED
  BY <1>2, <1>3 DEF CodesAsked

-----------------------------------------------------------------------------
(* Threads: a pickup session is in the hands of one thread, from its       *)
(* commit until it is recorded; a tag, while its task is.                  *)
ThreadOK(x) ==
    /\ proc[x].session \in 0..Len(pickup)
    /\ proc[x].pc \in {"idle", "denied", "granted"} => proc[x].session = 0
    /\ proc[x].pc \notin {"created", "running"} => proc[x].tag = {}
    /\ x = "mqtt" => proc[x].session = 0 /\ proc[x].pc \in {"idle", "created", "running"}
    /\ x # "loop" => proc[x].code = 0
    /\ x # "mqtt" /\ proc[x].pc \in {"waking", "created", "running"} => proc[x].session # 0
    /\ proc[x].pc = "audited" => proc[x].session \in {0} \union audited
    /\ proc[x].pc = "granted" => proc[x].colour = proc[x].seen % Colours

ThreadsOK == \A x \in Proc : ThreadOK(x)

LEMMA ThreadOKKept ==
    ASSUME AccessTypes, NEW x \in Proc, ThreadOK(x), proc'[x] = proc[x], Len(pickup') \in Nat,
           Len(pickup) <= Len(pickup'), audited \subseteq audited'
    PROVE  ThreadOK(x)'
  BY DEF ThreadOK, AccessTypes

LEMMA ThreadsKept ==
    ASSUME AccessTypes, NEW x \in Proc, ThreadsOK, Others(x), Len(pickup') \in Nat,
           Len(pickup) <= Len(pickup'), audited \subseteq audited', ThreadOK(x)'
    PROVE  ThreadsOK'
<1>1. ASSUME NEW y \in Proc \ {x} PROVE ThreadOK(y)'
  BY ThreadOKKept DEF ThreadsOK, Others
<1> QED
  BY <1>1 DEF ThreadsOK

LEMMA PickupGrows ==
    ASSUME AccessTypes, GrantedUser, Next
    PROVE  /\ Len(pickup) \in Nat /\ Len(pickup') \in Nat /\ Len(pickup) <= Len(pickup')
           /\ audited \subseteq audited' /\ overlapped \subseteq overlapped'
<1>1. Len(pickup) \in Nat
  BY DEF AccessTypes
<1>2. ASSUME NEW x \in Proc, CommitSession(x) PROVE Len(pickup') = Len(pickup) + 1
  BY <1>2, PickupAppends
<1>3. (\E x \in Proc : CommitSession(x)) \/ UNCHANGED pickup
  BY StepKinds, AccessStepFrame, StartsFrame, ServerStepFrame, LoopOnlyFrame, ReaderFrame DEF accessVars, Crash
<1>4. audited \subseteq audited'
  BY StepKinds, AccessStepFrame, StartsFrame, ServerStepFrame, LoopOnlyFrame, ReaderFrame
     DEF accessVars, Crash, EnqueueAudit
<1>5. overlapped \subseteq overlapped'
  BY StepKinds, AccessStepFrame, StartsFrame, ServerStepFrame, LoopOnlyFrame, ReaderFrame
     DEF accessVars, Crash, CommitSession
<1> QED
  BY <1>1, <1>2, <1>3, <1>4, <1>5

LEMMA AccessStepThreads ==
    ASSUME AccessTypes, GrantedUser, ThreadsOK, NEW x \in Proc, AccessStep(x), Next
    PROVE  ThreadsOK'
<1>0. ThreadOK(x) /\ proc[x] \in Thread
  BY DEF ThreadsOK, AccessTypes
<1> USE DEF ThreadOK
<1>1. CASE CommitSession(x)
  <2>1. Becomes(x, "waking", Len(pickup) + 1, proc[x].todo, proc[x].tag)
    BY <1>1, CommitSessionEffect
  <2>2. Len(pickup') = Len(pickup) + 1 /\ Len(pickup) \in Nat /\ proc[x].pc = "granted"
    BY <1>1, PickupAppends DEF CommitSession
  <2>3. ThreadOK(x)'
    BY <1>0, <2>1, <2>2 DEF Becomes, Keeps
  <2> QED
    BY <2>1, <2>3, PickupGrows, ThreadsKept DEF Becomes
<1>2. CASE SkipUnbound(x)
  <2>1. PICK todo : Becomes(x, "waking", proc[x].session, todo, proc[x].tag) /\ proc[x].pc = "waking"
    BY <1>2, SkipUnboundEffect
  <2>2. ThreadOK(x)'
    BY <1>0, <2>1, PickupGrows DEF Becomes, Keeps
  <2> QED
    BY <2>1, <2>2, PickupGrows, ThreadsKept DEF Becomes
<1>3. CASE CreateTask(x)
  <2>1. PICK p \in proc[x].todo : StartTask(x, p) /\ proc[x].pc = "waking"
    BY <1>3 DEF CreateTask
  <2>2. p \in Parcel
    BY <1>0, <2>1 DEF Thread
  <2>3. Becomes(x, "created", proc[x].session, proc[x].todo \ {p}, {p})
    BY <2>1, <2>2, StartTaskEffect
  <2>4. ThreadOK(x)'
    BY <1>0, <2>1, <2>3, PickupGrows DEF Becomes, Keeps
  <2> QED
    BY <2>3, <2>4, PickupGrows, ThreadsKept DEF Becomes
<1>4. CASE MarkRunning(x)
  <2>1. Becomes(x, "running", proc[x].session, proc[x].todo, proc[x].tag) /\ proc[x].pc = "created"
    BY <1>4, MarkRunningEffect DEF MarkRunning
  <2>2. ThreadOK(x)'
    BY <1>0, <2>1, PickupGrows DEF Becomes, Keeps
  <2> QED
    BY <2>1, <2>2, PickupGrows, ThreadsKept DEF Becomes
<1>5. CASE MarkFinished(x)
  <2>0. IF x = "mqtt" THEN Ends(x) ELSE Becomes(x, "waking", proc[x].session, proc[x].todo, {})
    BY <1>5, MarkFinishedEffect
  <2>1. CASE x = "mqtt"
    <3>1. ThreadOK(x)'
      BY <2>0, <2>1, PickupGrows DEF Ends, Idle
    <3> QED
      BY <2>0, <2>1, <3>1, PickupGrows, ThreadsKept DEF Ends
  <2>2. CASE x # "mqtt"
    <3>1. ThreadOK(x)'
      BY <1>0, <1>5, <2>0, <2>2, PickupGrows DEF Becomes, Keeps, MarkFinished
    <3> QED
      BY <2>0, <2>2, <3>1, PickupGrows, ThreadsKept DEF Becomes
  <2> QED
    BY <2>1, <2>2
<1>6. CASE EnqueueAudit(x)
  <2>1. Becomes(x, "audited", proc[x].session, proc[x].todo, proc[x].tag) /\ proc[x].pc \in {"denied", "waking"}
    BY <1>6, EnqueueAuditEffect DEF EnqueueAudit
  <2>2. audited' = audited \union ({proc[x].session} \ {0})
    BY <1>6 DEF EnqueueAudit
  <2>3. ThreadOK(x)'
    BY <1>0, <2>1, <2>2, PickupGrows DEF Becomes, Keeps
  <2> QED
    BY <2>1, <2>3, PickupGrows, ThreadsKept DEF Becomes
<1>7. CASE FinishAccess(x)
  <2>1. Ends(x) /\ x # "mqtt"
    BY <1>7, FinishAccessEffect DEF FinishAccess
  <2>2. ThreadOK(x)'
    BY <2>1, PickupGrows DEF Ends, Idle
  <2> QED
    BY <2>1, <2>2, PickupGrows, ThreadsKept DEF Ends
<1> QED
  BY <1>1, <1>2, <1>3, <1>4, <1>5, <1>6, <1>7 DEF AccessStep

LEMMA DecidedThread ==
    ASSUME NEW x \in Proc, NEW u, NEW n, NEW due, Decides(x, u, n, due), x # "mqtt", x # "loop" => n = 0,
           Len(pickup') \in Nat
    PROVE  ThreadOK(x)'
  BY DEF Decides, ThreadOK

LEMMA ThreadsOKStep ==
    ASSUME GatewayTypes, AccessTypes, GrantedUser, ThreadsOK, Next
    PROVE  ThreadsOK'
<1>0. UNCHANGED <<proc, pickup, audited>> => ThreadsOK'
  BY DEF ThreadsOK, ThreadOK
<1>1. CASE HandleGateAuth
  <2>1. Decides("loop", Head(batch).user, Head(batch).code, Head(batch).due) /\ "loop" \in Proc
    BY <1>1, HandleGateAuthEffect DEF Proc
  <2>2. ThreadOK("loop")'
    BY <2>1, DecidedThread, PickupGrows
  <2> QED
    BY <2>1, <2>2, PickupGrows, ThreadsKept DEF Decides
<1>2. ASSUME NEW x \in Api, NEW c \in Card, HandleAccessCard(x, c) PROVE ThreadsOK'
  <2>1. Decides(x, Holder[c], 0, {}) /\ x \in Proc /\ x # "mqtt"
    BY <1>2, ReadCardEffect, ConstantsOK DEF Proc
  <2>2. ThreadOK(x)'
    BY <2>1, DecidedThread, PickupGrows
  <2> QED
    BY <2>1, <2>2, PickupGrows, ThreadsKept DEF Decides
<1>3. ASSUME NEW p \in Parcel, HandleServerCommand(p) PROVE ThreadsOK'
  <2>1. StartTask("mqtt", p) /\ "mqtt" \in Proc /\ proc["mqtt"].pc = "idle"
    BY <1>3 DEF HandleServerCommand, Proc
  <2>2. Becomes("mqtt", "created", proc["mqtt"].session, proc["mqtt"].todo \ {p}, {p}) /\ ThreadOK("mqtt")
    BY <2>1, StartTaskEffect DEF ThreadsOK
  <2>3. ThreadOK("mqtt")'
    BY <2>1, <2>2, PickupGrows DEF ThreadOK, Becomes, Keeps
  <2> QED
    BY <2>1, <2>2, <2>3, PickupGrows, ThreadsKept DEF Becomes
<1>4. CASE Crash
  BY <1>4, PickupGrows DEF Crash, ThreadsOK, ThreadOK, Idle
<1> QED
  BY <1>0, <1>1, <1>2, <1>3, <1>4, StepKinds, AccessStepThreads, ServerStepFrame, LoopOnlyFrame, ReaderFrame
     DEF Starts, accessVars

-----------------------------------------------------------------------------
(* Pickup sessions: whose they are, and what is on record of them          *)
Numbers ==
    /\ audited \subseteq 1..Len(pickup) /\ overlapped \subseteq 1..Len(pickup)
    /\ cut \subseteq (0..Len(pickup)) \X Parcel
    /\ \A k \in 1..Len(auth) : auth[k].session \in 0..Len(pickup)

OwnSessions == \A x, y \in Proc : proc[x].session = proc[y].session /\ proc[x].session # 0 => x = y

(* A session that is neither recorded nor cut off                          *)
Open(s) == /\ \A k \in 1..Len(auth) : auth[k].session # s
           /\ \A p \in Parcel : <<s, p>> \notin cut

OpenNext(s) == /\ \A k \in 1..Len(auth') : auth'[k].session # s
               /\ \A p \in Parcel : <<s, p>> \notin cut'

HeldOpen == \A x \in Proc : proc[x].session # 0 => Open(proc[x].session)

Uncut(s) == \A p \in Parcel : <<s, p>> \notin cut

UncutNext(s) == \A p \in Parcel : <<s, p>> \notin cut'

Recorded ==
    \A k \in 1..Len(auth) : /\ auth[k].session # 0 => auth[k].session \in audited /\ Uncut(auth[k].session)
                            /\ auth[k].status = "GRANTED" => auth[k].session # 0

SessionInv == Numbers /\ OwnSessions /\ HeldOpen /\ Recorded

(* What a step does to the sessions of the threads                         *)
SameSessions == \A x \in Proc : proc'[x].session \in {0, proc[x].session}

LEMMA SessionsAfter ==
    ASSUME GatewayTypes, AccessTypes, ThreadsOK, Next
    PROVE  \/ SameSessions
           \/ \E x \in Proc : /\ CommitSession(x) /\ proc'[x].session = Len(pickup) + 1
                              /\ \A y \in Proc \ {x} : proc'[y].session = proc[y].session
<1>1. ASSUME NEW x \in Proc, Others(x), proc'[x].session \in {0, proc[x].session} PROVE SameSessions
  BY <1>1 DEF Others, SameSessions
<1>2. ASSUME NEW x \in Proc, AccessStep(x), ~CommitSession(x) PROVE SameSessions
  <2> USE DEF Becomes, Ends, Idle
  <2>1. CASE SkipUnbound(x)
    BY <1>1, <2>1, SkipUnboundEffect
  <2>2. CASE CreateTask(x)
    <3>1. PICK p \in proc[x].todo : StartTask(x, p)
      BY <2>2 DEF CreateTask
    <3>2. p \in Parcel
      BY <3>1 DEF AccessTypes, Thread
    <3> QED
      BY <1>1, <3>1, <3>2, StartTaskEffect
  <2>3. CASE MarkRunning(x)
    BY <1>1, <2>3, MarkRunningEffect
  <2>4. CASE MarkFinished(x)
    BY <1>1, <2>4, MarkFinishedEffect
  <2>5. CASE EnqueueAudit(x)
    BY <1>1, <2>5, EnqueueAuditEffect
  <2>6. CASE FinishAccess(x)
    BY <1>1, <2>6, FinishAccessEffect
  <2> QED
    BY <1>2, <2>1, <2>2, <2>3, <2>4, <2>5, <2>6 DEF AccessStep
<1>3. ASSUME NEW x \in Proc, CommitSession(x)
      PROVE  /\ proc'[x].session = Len(pickup) + 1
             /\ \A y \in Proc \ {x} : proc'[y].session = proc[y].session
  BY <1>3, CommitSessionEffect DEF Becomes, Others
<1>4. CASE Starts
  <2>1. ASSUME HandleGateAuth PROVE SameSessions
    BY <1>1, <2>1, HandleGateAuthEffect DEF Decides, Proc
  <2>2. ASSUME NEW x \in Api, NEW c \in Card, HandleAccessCard(x, c) PROVE SameSessions
    BY <1>1, <2>2, ReadCardEffect DEF Decides, Proc
  <2>3. ASSUME NEW p \in Parcel, HandleServerCommand(p) PROVE SameSessions
    <3>1. StartTask("mqtt", p) /\ "mqtt" \in Proc
      BY <2>3 DEF HandleServerCommand, Proc
    <3> QED
      BY <1>1, <3>1, StartTaskEffect DEF Becomes
  <2> QED
    BY <1>4, <2>1, <2>2, <2>3 DEF Starts
<1>5. CASE Crash
  BY <1>5 DEF Crash, Idle, SameSessions
<1>6. CASE UNCHANGED proc
  BY <1>6 DEF SameSessions
<1> QED
  BY <1>2, <1>3, <1>4, <1>5, <1>6, StepKinds, ServerStepFrame, LoopOnlyFrame, ReaderFrame

(* What a step does to the recorded results                                *)
Expired(k) == /\ ExpireSession /\ k \in 1..Len(auth) /\ auth[k].code = poll /\ auth'[k].code = poll
              /\ auth'[k].session = auth[k].session /\ auth'[k].status = "EXPIRED"

Shown(k) == /\ GateQrSession /\ k = Len(auth) + 1 /\ auth'[k].status = "PENDING"
            /\ auth'[k].session = 0 /\ auth'[k].code = Cardinality(QrSessions) + 1

Result(k, x) == /\ FinishAccess(x) /\ auth'[k] = Row(x)
                /\ k \in 1..Len(auth) => auth[k].code = proc[x].code /\ auth[k].code # 0

Stays(k) == k \in 1..Len(auth) /\ auth'[k] = auth[k]

LEMMA RowsAfter ==
    ASSUME ServerTypes, GatewayTypes, AuthTypes, AccessTypes, CodesShown, CodesAsked, Next
    PROVE  /\ Len(auth) \in Nat /\ Len(auth') \in Nat /\ Len(auth) <= Len(auth')
           /\ \A k \in 1..Len(auth') : Stays(k) \/ Expired(k) \/ Shown(k) \/ \E x \in Proc : Result(k, x)
<1>0. Len(auth) \in Nat
  BY DEF AuthTypes
<1>1. CASE UNCHANGED auth
  BY <1>0, <1>1 DEF Stays
<1>2. CASE GateQrSession
  <2> PICK row : row = [code |-> Cardinality(QrSessions) + 1, session |-> 0, status |-> "PENDING"]
    OBVIOUS
  <2>1. /\ row \in AuthRow /\ auth' = Append(auth, row) /\ row.session = 0 /\ row.status = "PENDING"
        /\ row.code = Cardinality(QrSessions) + 1
    BY <1>2, QrSessionsFinite, ConstantsOK DEF GateQrSession, AuthRow, AuthStatus
  <2>2. Adds(row)
    BY <2>1, AddEffect
  <2> QED
    BY <1>0, <1>2, <2>1, <2>2 DEF Adds, Stays, Shown
<1>3. CASE ExpireSession
  <2>1. poll \in 1..Cardinality(QrSessions)
    BY <1>3 DEF ExpireSession, AuthTypes, CodesShown
  <2>2. QrSession(poll) \in 1..Len(auth) /\ auth[QrSession(poll)] \in AuthRow /\ auth[QrSession(poll)].code = poll
    BY <2>1, QrSessionFound DEF AuthTypes
  <2>3. PICK row : row = [auth[QrSession(poll)] EXCEPT !.status = "EXPIRED"]
    OBVIOUS
  <2>4. row \in AuthRow /\ row.code = poll /\ row.session = auth[QrSession(poll)].session /\ row.status = "EXPIRED"
    BY <2>2, <2>3 DEF AuthRow, AuthStatus
  <2>5. auth' = [auth EXCEPT ![QrSession(poll)] = row]
    BY <1>3, <2>3 DEF ExpireSession
  <2>6. Sets(poll, row)
    BY <2>1, <2>4, <2>5, SetEffect
  <2> QED
    BY <1>0, <1>3, <2>2, <2>4, <2>6 DEF Sets, Stays, Expired
<1>4. ASSUME NEW x \in Proc, FinishAccess(x)
      PROVE  /\ Len(auth') \in Nat /\ Len(auth) <= Len(auth')
             /\ \A k \in 1..Len(auth') : Stays(k) \/ Result(k, x)
  <2>1. proc[x] \in Thread
    BY DEF AccessTypes
  <2>2. Row(x) \in AuthRow /\ Row(x).code = proc[x].code
    BY <2>1 DEF Row, AuthRow, AuthStatus, Thread
  <2>3. CASE proc[x].code = 0
    <3>1. Adds(Row(x))
      BY <1>4, <2>2, <2>3, AddEffect DEF FinishAccess, RecordResult
    <3> QED
      BY <1>0, <1>4, <3>1 DEF Adds, Stays, Result
  <2>4. CASE proc[x].code # 0
    <3>1. proc[x].code \in 1..Cardinality(QrSessions)
      BY <2>4 DEF CodesShown, CodesAsked
    <3>2. Sets(proc[x].code, Row(x)) /\ auth[QrSession(proc[x].code)].code = proc[x].code
      BY <1>4, <2>2, <2>4, <3>1, SetEffect, QrSessionFound DEF FinishAccess, RecordResult
    <3> QED
      BY <1>0, <1>4, <2>4, <3>2 DEF Sets, Stays, Result
  <2> QED
    BY <2>3, <2>4
<1>5. UNCHANGED auth \/ GateQrSession \/ ExpireSession \/ \E x \in Proc : FinishAccess(x)
  BY StepKinds, ServerStepFrame, LoopOnlyFrame, StartsFrame, AccessStepFrame
     DEF authVars, ReaderStep, PassExpiry, GateAuthResult, Crash
<1> QED
  BY <1>1, <1>2, <1>3, <1>4, <1>5

LEMMA RecordsAfter ==
    ASSUME ServerTypes, GatewayTypes, AuthTypes, AccessTypes, CodesShown, CodesAsked, Next,
           NEW k \in 1..Len(auth')
    PROVE  \/ /\ k \in 1..Len(auth) /\ auth'[k].session = auth[k].session
              /\ auth'[k].status = "GRANTED" => auth[k].status = "GRANTED"
           \/ auth'[k].session = 0 /\ auth'[k].status # "GRANTED"
           \/ \E x \in Proc : FinishAccess(x) /\ auth'[k] = Row(x)
  BY RowsAfter DEF Stays, Expired, Shown, Result

LEMMA SessionInvStep ==
    ASSUME ServerTypes, GatewayTypes, AuthTypes, AccessTypes, GrantedUser, CodesShown, CodesAsked, ThreadsOK,
           SessionInv, Next
    PROVE  SessionInv'
<1>0. Len(pickup) \in Nat /\ Len(pickup') \in Nat /\ Len(pickup) <= Len(pickup')
  BY PickupGrows
<1>1. \A x \in Proc : /\ proc[x].session \in 0..Len(pickup)
                      /\ proc[x].session # 0 => Open(proc[x].session)
                      /\ proc[x].pc = "audited" => proc[x].session \in {0} \union audited
  BY DEF ThreadsOK, ThreadOK, SessionInv, HeldOpen
<1>2. UNCHANGED cut \/ Crash
  BY StepKinds, ServerStepFrame, LoopOnlyFrame, StartsFrame, AccessStepFrame, ReaderFrame DEF accessVars
<1>3. Crash => cut' = cut \union UNION {{proc[x].session} \X proc[x].tag : x \in Proc}
  BY DEF Crash
<1>4. \A x \in Proc : proc[x].tag \subseteq Parcel
  BY DEF AccessTypes, Thread
<1>5. \A x \in Proc : FinishAccess(x) => /\ Row(x).session = proc[x].session /\ proc[x].pc = "audited"
                                         /\ Row(x).status = "GRANTED" => proc[x].session # 0
                                         /\ proc'[x].session = 0
  <2> SUFFICES ASSUME NEW x \in Proc, FinishAccess(x)
               PROVE  /\ Row(x).session = proc[x].session /\ proc[x].pc = "audited"
                      /\ Row(x).status = "GRANTED" => proc[x].session # 0
                      /\ proc'[x].session = 0
    OBVIOUS
  <2>1. proc[x].pc = "audited"
    BY DEF FinishAccess, RecordResult
  <2>2. proc'[x].session = 0
    BY FinishAccessEffect DEF Ends, Idle
  <2> QED
    BY <2>1, <2>2 DEF Row
<1>6. Numbers'
  <2>1. audited' \subseteq 1..Len(pickup')
    <3>1. UNCHANGED audited \/ \E x \in Proc : EnqueueAudit(x)
      BY StepKinds, ServerStepFrame, LoopOnlyFrame, StartsFrame, AccessStepFrame, ReaderFrame DEF accessVars, Crash
    <3> QED
      BY <1>0, <1>1, <3>1 DEF EnqueueAudit, SessionInv, Numbers
  <2>2. overlapped' \subseteq 1..Len(pickup')
    <3>1. UNCHANGED overlapped \/ \E x \in Proc : CommitSession(x)
      BY StepKinds, ServerStepFrame, LoopOnlyFrame, StartsFrame, AccessStepFrame, ReaderFrame DEF accessVars, Crash
    <3>2. ASSUME NEW x \in Proc, CommitSession(x) PROVE overlapped' \subseteq 1..Len(pickup')
      <4>1. /\ Len(pickup') = Len(pickup) + 1
            /\ overlapped' \subseteq overlapped \union {Len(pickup) + 1}
        BY <3>2, PickupAppends DEF CommitSession
      <4>2. overlapped \subseteq 1..Len(pickup)
        BY DEF SessionInv, Numbers
      <4>3. 1..Len(pickup) \subseteq 1..Len(pickup') /\ Len(pickup) + 1 \in 1..Len(pickup')
        BY <1>0, <4>1
      <4> QED
        BY <4>1, <4>2, <4>3
    <3>3. UNCHANGED overlapped => overlapped' \subseteq 1..Len(pickup')
      BY <1>0 DEF SessionInv, Numbers
    <3> QED
      BY <3>1, <3>2, <3>3
  <2>3. cut' \subseteq (0..Len(pickup')) \X Parcel
    BY <1>0, <1>1, <1>2, <1>3, <1>4 DEF SessionInv, Numbers
  <2>4. ASSUME NEW k \in 1..Len(auth') PROVE auth'[k].session \in 0..Len(pickup')
    BY <1>0, <1>1, <1>5, RecordsAfter DEF SessionInv, Numbers
  <2> QED
    BY <2>1, <2>2, <2>3, <2>4 DEF Numbers
<1>7. OwnSessions'
  <2>1. CASE SameSessions
    BY <2>1 DEF SameSessions, OwnSessions, SessionInv
  <2>2. ASSUME NEW x \in Proc, proc'[x].session = Len(pickup) + 1,
               \A y \in Proc \ {x} : proc'[y].session = proc[y].session
        PROVE  OwnSessions'
    <3>1. \A y \in Proc \ {x} : proc'[y].session # proc'[x].session
      BY <1>0, <1>1, <2>2
    <3> QED
      BY <2>2, <3>1 DEF OwnSessions, SessionInv
  <2> QED
    BY <2>1, <2>2, SessionsAfter
<1>8. HeldOpen'
  <2>1. ASSUME NEW x \in Proc, NEW s, s # 0, s = proc'[x].session, s = proc[x].session
        PROVE  OpenNext(s)
    <3>1. Open(s)
      BY <1>1, <2>1
    <3>2. ASSUME NEW k \in 1..Len(auth') PROVE auth'[k].session # s
      <4>1. ASSUME NEW y \in Proc, FinishAccess(y), auth'[k] = Row(y) PROVE auth'[k].session # s
        BY <1>5, <2>1, <4>1 DEF SessionInv, OwnSessions
      <4> QED
        BY <2>1, <3>1, <4>1, RecordsAfter DEF Open
    <3>3. UNCHANGED cut
      <4>1. Crash => proc'[x].session = 0
        BY DEF Crash, Idle
      <4> QED
        BY <1>2, <2>1, <4>1
    <3> QED
      BY <3>1, <3>2, <3>3 DEF Open, OpenNext
  <2>2. ASSUME NEW x \in Proc, CommitSession(x) PROVE OpenNext(Len(pickup) + 1)
    <3>1. UNCHANGED <<auth, cut>>
      BY <2>2 DEF CommitSession, authVars
    <3>2. Len(pickup) + 1 \notin 0..Len(pickup)
      BY <1>0
    <3> QED
      BY <3>1, <3>2 DEF OpenNext, SessionInv, Numbers
  <2>3. ASSUME NEW x \in Proc, proc'[x].session # 0 PROVE OpenNext(proc'[x].session)
    <3>1. CASE proc'[x].session = proc[x].session
      BY <2>1, <2>3, <3>1
    <3>2. CASE proc'[x].session # proc[x].session
      <4>1. PICK y \in Proc : CommitSession(y) /\ proc'[y].session = Len(pickup) + 1 /\ x = y
        BY <2>3, <3>2, SessionsAfter DEF SameSessions
      <4> QED
        BY <2>2, <4>1
    <3> QED
      BY <3>1, <3>2
  <2> QED
    BY <2>3 DEF HeldOpen, Open, OpenNext
<1>9. Recorded'
  <2>1. ASSUME NEW s \in 1..Len(pickup), Uncut(s), Crash => \A x \in Proc : proc[x].session # s
        PROVE  UncutNext(s)
    BY <1>2, <1>3, <1>4, <2>1 DEF Uncut, UncutNext
  <2>2. ASSUME NEW k \in 1..Len(auth), NEW s, s = auth[k].session, s # 0
        PROVE  s \in audited' /\ UncutNext(s)
    <3>1. s \in audited /\ Uncut(s) /\ s \in 1..Len(pickup)
      BY <2>2 DEF SessionInv, Recorded, Numbers
    <3>2. \A x \in Proc : proc[x].session # s
      BY <1>1, <2>2 DEF Open
    <3> QED
      BY <2>1, <3>1, <3>2, PickupGrows
  <2>3. ASSUME NEW x \in Proc, FinishAccess(x), NEW s, s = proc[x].session, s # 0
        PROVE  s \in audited' /\ UncutNext(s)
    <3>1. UNCHANGED cut
      BY <2>3 DEF FinishAccess, accessVars
    <3>2. s \in audited /\ Open(s)
      BY <1>1, <1>5, <2>3
    <3> QED
      BY <3>1, <3>2, PickupGrows DEF Open, UncutNext
  <2>4. ASSUME NEW k \in 1..Len(auth')
        PROVE  /\ auth'[k].session # 0 => auth'[k].session \in audited' /\ UncutNext(auth'[k].session)
               /\ auth'[k].status = "GRANTED" => auth'[k].session # 0
    <3> PICK s : s = auth'[k].session
      OBVIOUS
    <3>1. CASE /\ k \in 1..Len(auth) /\ auth'[k].session = auth[k].session
               /\ auth'[k].status = "GRANTED" => auth[k].status = "GRANTED"
      BY <2>2, <3>1 DEF SessionInv, Recorded
    <3>2. CASE auth'[k].session = 0 /\ auth'[k].status # "GRANTED"
      BY <3>2
    <3>3. ASSUME NEW x \in Proc, FinishAccess(x), auth'[k] = Row(x)
          PROVE  /\ auth'[k].session # 0 => auth'[k].session \in audited' /\ UncutNext(auth'[k].session)
                 /\ auth'[k].status = "GRANTED" => auth'[k].session # 0
      BY <1>5, <2>3, <3>3
    <3> QED
      BY <3>1, <3>2, <3>3, RecordsAfter
  <2> QED
    BY <2>4 DEF Recorded, Uncut, UncutNext
<1> QED
  BY <1>6, <1>7, <1>8, <1>9 DEF SessionInv

-----------------------------------------------------------------------------
(* An access is audited by the thread that has its pickup session, which   *)
(* from then on starts no task for it and only records its result.         *)
AtWork == \A x \in Proc : proc[x].pc # "audited" => proc[x].session \notin audited

LEMMA AtWorkStep ==
    ASSUME GatewayTypes, AccessTypes, GrantedUser, ThreadsOK, SessionInv, AtWork, Next
    PROVE  AtWork'
<1> SUFFICES ASSUME NEW x \in Proc, proc'[x].pc # "audited" PROVE proc'[x].session \notin audited'
  BY DEF AtWork
<1>0. /\ Len(pickup) \in Nat /\ audited \subseteq 1..Len(pickup) /\ 0 \notin audited
      /\ proc[x].pc # "audited" => proc[x].session \notin audited
  BY DEF AccessTypes, SessionInv, Numbers, AtWork
<1>1. ASSUME NEW y \in Proc, AccessStep(y), ~EnqueueAudit(y) PROVE proc'[x].session \notin audited'
  <2>0. UNCHANGED audited
    BY <1>1, AccessStepFrame
  <2> USE DEF Becomes, Ends, Others, Idle
  <2>1. CASE CommitSession(y)
    <3>1. Len(pickup) + 1 \notin audited
      BY <1>0
    <3> QED
      BY <1>0, <2>0, <2>1, <3>1, CommitSessionEffect
  <2>2. CASE SkipUnbound(y)
    BY <1>0, <2>0, <2>2, SkipUnboundEffect
  <2>3. CASE CreateTask(y)
    <3>1. PICK p \in proc[y].todo : StartTask(y, p) /\ proc[y].pc = "waking"
      BY <2>3 DEF CreateTask
    <3>2. p \in Parcel
      BY <3>1 DEF AccessTypes, Thread
    <3> QED
      BY <1>0, <2>0, <3>1, <3>2, StartTaskEffect
  <2>4. CASE MarkRunning(y)
    <3>1. proc[y].pc = "created"
      BY <2>4 DEF MarkRunning
    <3> QED
      BY <1>0, <2>0, <2>4, <3>1, MarkRunningEffect
  <2>5. CASE MarkFinished(y)
    <3>1. proc[y].pc = "running"
      BY <2>5 DEF MarkFinished
    <3> QED
      BY <1>0, <2>0, <2>5, <3>1, MarkFinishedEffect
  <2>6. CASE FinishAccess(y)
    BY <1>0, <2>0, <2>6, FinishAccessEffect
  <2> QED
    BY <1>1, <2>1, <2>2, <2>3, <2>4, <2>5, <2>6 DEF AccessStep
<1>2. ASSUME NEW y \in Proc, EnqueueAudit(y) PROVE proc'[x].session \notin audited'
  <2>1. x # y /\ proc'[x] = proc[x]
    BY <1>2, EnqueueAuditEffect DEF Becomes, Others
  <2>2. proc[x].session \notin {proc[y].session} \ {0}
    BY <2>1 DEF SessionInv, OwnSessions
  <2> QED
    BY <1>0, <1>2, <2>1, <2>2 DEF EnqueueAudit
<1>3. ASSUME HandleGateAuth PROVE proc'[x].session \notin audited'
  <2>1. "loop" \in Proc /\ proc["loop"].pc = "idle" /\ UNCHANGED audited
    BY <1>3 DEF HandleGateAuth, NextEvent, LoopReady, Proc, accessVars
  <2> QED
    BY <1>0, <1>3, <2>1, HandleGateAuthEffect DEF Decides, Others
<1>4. ASSUME NEW y \in Api, NEW c \in Card, HandleAccessCard(y, c) PROVE proc'[x].session \notin audited'
  <2>1. y \in Proc /\ UNCHANGED audited
    BY <1>4 DEF HandleAccessCard, Proc
  <2> QED
    BY <1>0, <1>4, <2>1, ReadCardEffect DEF Decides, Others
<1>5. ASSUME NEW p \in Parcel, HandleServerCommand(p) PROVE proc'[x].session \notin audited'
  <2>1. "mqtt" \in Proc /\ proc["mqtt"].pc = "idle" /\ StartTask("mqtt", p) /\ UNCHANGED audited
    BY <1>5 DEF HandleServerCommand, Proc
  <2> QED
    BY <1>0, <2>1, StartTaskEffect DEF Becomes, Others
<1>6. CASE Crash
  BY <1>0, <1>6 DEF Crash, Idle
<1>7. CASE UNCHANGED <<proc, audited>>
  BY <1>0, <1>7
<1> QED
  BY <1>1, <1>2, <1>3, <1>4, <1>5, <1>6, <1>7, StepKinds, ServerStepFrame, LoopOnlyFrame, ReaderFrame
     DEF Starts, accessVars

-----------------------------------------------------------------------------
(* Tasks *)
InHand(i) == \E x \in Proc : i \in {proc[x].session} \X proc[x].tag

Live(i) == task[i] \in {"PENDING", "RUNNING"}

LEMMA TaskKept ==
    ASSUME NEW i \in TaskId, Live(i)' => Live(i), TaskInHand, UNCHANGED cut,
           \A x \in Proc : i \in {proc[x].session} \X proc[x].tag =>
              i \in {proc'[x].session} \X proc'[x].tag \/ ~Live(i)'
    PROVE  Live(i)' => i \in cut' \/ InHand(i)'
  BY DEF TaskInHand, Live, InHand

LEMMA TaskInHandStep ==
    ASSUME GatewayTypes, AccessTypes, GrantedUser, ThreadsOK, TaskInHand, Next
    PROVE  TaskInHand'
<1> SUFFICES ASSUME NEW i \in TaskId PROVE Live(i)' => i \in cut' \/ InHand(i)'
  BY DEF TaskInHand, Live, InHand
<1> DEFINE Held(x) == i \in {proc[x].session} \X proc[x].tag
<1>0. \A x \in Proc : proc[x].pc \notin {"created", "running"} => ~Held(x)
  BY DEF ThreadsOK, ThreadOK
<1>1. ASSUME NEW x \in Proc, Others(x), UNCHANGED <<task, cut>>,
             ~Held(x) \/ (proc'[x].session = proc[x].session /\ proc'[x].tag = proc[x].tag)
      PROVE  Live(i)' => i \in cut' \/ InHand(i)'
  BY <1>1, TaskKept DEF Others, Live
<1>2. ASSUME NEW x \in Proc, NEW p \in Parcel, StartTask(x, p), ~Held(x), UNCHANGED cut
      PROVE  Live(i)' => i \in cut' \/ InHand(i)'
  <2>1. Becomes(x, "created", proc[x].session, proc[x].todo \ {p}, {p})
    BY <1>2, StartTaskEffect
  <2>2. CASE i = <<proc[x].session, p>>
    BY <2>1, <2>2 DEF Becomes, InHand
  <2>3. CASE i # <<proc[x].session, p>>
    <3>1. task'[i] = task[i]
      BY <1>2, <2>3 DEF StartTask, AccessTypes
    <3> QED
      BY <1>2, <2>1, <3>1, TaskKept DEF Becomes, Others, Live
  <2> QED
    BY <2>2, <2>3
<1>3. ASSUME NEW x \in Proc, AccessStep(x) PROVE Live(i)' => i \in cut' \/ InHand(i)'
  <2>0. UNCHANGED cut
    BY <1>3, AccessStepFrame
  <2>1. CASE CommitSession(x)
    BY <1>0, <1>1, <2>0, <2>1, CommitSessionEffect DEF Becomes, CommitSession
  <2>2. CASE SkipUnbound(x)
    BY <1>1, <2>0, <2>2, SkipUnboundEffect DEF Becomes, SkipUnbound, accessVars
  <2>3. CASE CreateTask(x)
    <3>1. PICK p \in proc[x].todo : StartTask(x, p) /\ proc[x].pc = "waking"
      BY <2>3 DEF CreateTask
    <3>2. p \in Parcel
      BY <3>1 DEF AccessTypes, Thread
    <3> QED
      BY <1>0, <1>2, <2>0, <3>1, <3>2
  <2>4. CASE MarkRunning(x)
    <3>1. Becomes(x, "running", proc[x].session, proc[x].todo, proc[x].tag)
      BY <2>4, MarkRunningEffect
    <3>2. CASE Held(x)
      BY <3>1, <3>2 DEF Becomes, InHand
    <3>3. CASE ~Held(x)
      <4>1. task'[i] = task[i]
        BY <2>4, <3>3 DEF MarkRunning, AccessTypes
      <4> QED
        BY <2>0, <3>1, <3>3, <4>1, TaskKept DEF Becomes, Others, Live
    <3> QED
      BY <3>2, <3>3
  <2>5. CASE MarkFinished(x)
    <3>1. Others(x)
      BY <2>5, MarkFinishedEffect DEF Becomes, Ends
    <3>2. Held(x) => task'[i] \in {"DONE", "FAILED"}
      BY <2>5 DEF MarkFinished, Outcome
    <3>3. ~Held(x) => task'[i] = task[i]
      BY <2>5 DEF MarkFinished
    <3> QED
      BY <2>0, <3>1, <3>2, <3>3, TaskKept DEF Others, Live
  <2>6. CASE EnqueueAudit(x)
    BY <1>1, <2>0, <2>6, EnqueueAuditEffect DEF Becomes, EnqueueAudit
  <2>7. CASE FinishAccess(x)
    <3>1. proc[x].pc = "audited" /\ UNCHANGED task
      BY <2>7 DEF FinishAccess, RecordResult, accessVars
    <3> QED
      BY <1>0, <1>1, <2>0, <2>7, <3>1, FinishAccessEffect DEF Ends
  <2> QED
    BY <1>3, <2>1, <2>2, <2>3, <2>4, <2>5, <2>6, <2>7 DEF AccessStep
<1>4. ASSUME HandleGateAuth PROVE Live(i)' => i \in cut' \/ InHand(i)'
  <2>1. "loop" \in Proc /\ proc["loop"].pc = "idle" /\ UNCHANGED <<task, cut>>
    BY <1>4 DEF HandleGateAuth, NextEvent, LoopReady, Proc, accessVars
  <2> QED
    BY <1>0, <1>1, <1>4, <2>1, HandleGateAuthEffect DEF Decides
<1>5. ASSUME NEW x \in Api, NEW c \in Card, HandleAccessCard(x, c)
      PROVE  Live(i)' => i \in cut' \/ InHand(i)'
  <2>1. x \in Proc /\ proc[x].pc = "idle" /\ UNCHANGED <<task, cut>>
    BY <1>5 DEF HandleAccessCard, Proc
  <2> QED
    BY <1>0, <1>1, <1>5, <2>1, ReadCardEffect DEF Decides
<1>6. ASSUME NEW p \in Parcel, HandleServerCommand(p) PROVE Live(i)' => i \in cut' \/ InHand(i)'
  <2>1. "mqtt" \in Proc /\ proc["mqtt"].pc = "idle" /\ StartTask("mqtt", p) /\ UNCHANGED cut
    BY <1>6 DEF HandleServerCommand, Proc
  <2> QED
    BY <1>0, <1>2, <2>1
<1>7. CASE Crash
  <2>1. UNCHANGED task /\ cut' = cut \union UNION {{proc[x].session} \X proc[x].tag : x \in Proc}
    BY <1>7 DEF Crash
  <2> QED
    BY <2>1 DEF TaskInHand, Live
<1>8. CASE UNCHANGED <<proc, task, cut>>
  BY <1>8, TaskKept DEF Live
<1> QED
  BY <1>3, <1>4, <1>5, <1>6, <1>7, <1>8, StepKinds, ServerStepFrame, LoopOnlyFrame, ReaderFrame
     DEF Starts, accessVars

-----------------------------------------------------------------------------
(* Colours *)
PooledColours ==
    \A k \in 1..Len(pickup) : k \notin overlapped => pickup[k].colour = (k - 1) % Colours

LEMMA PooledColoursStep ==
    ASSUME GatewayTypes, AccessTypes, GrantedUser, ThreadsOK, PooledColours, Next
    PROVE  PooledColours'
<1>1. (UNCHANGED <<pickup, overlapped>>) \/ \E x \in Proc : CommitSession(x)
  BY StepKinds, ServerStepFrame, LoopOnlyFrame, StartsFrame, AccessStepFrame, ReaderFrame DEF accessVars, Crash
<1>2. ASSUME NEW x \in Proc, CommitSession(x), NEW k \in 1..Len(pickup'), k \notin overlapped'
      PROVE  pickup'[k].colour = (k - 1) % Colours
  <2>1. /\ Len(pickup) \in Nat /\ Len(pickup') = Len(pickup) + 1
        /\ pickup'[Len(pickup) + 1].colour = proc[x].colour
        /\ \A j \in 1..Len(pickup) : pickup'[j] = pickup[j]
    <3>1. /\ Len(pickup) \in Nat /\ Len(pickup') = Len(pickup) + 1
          /\ pickup'[Len(pickup) + 1] = [user |-> proc[x].user, colour |-> proc[x].colour]
          /\ \A j \in 1..Len(pickup) : pickup'[j] = pickup[j]
      BY <1>2, PickupAppends
    <3> QED
      BY <3>1
  <2>2. k \notin overlapped
    BY <1>2, PickupGrows
  <2>3. CASE k \in 1..Len(pickup)
    BY <2>1, <2>2, <2>3 DEF PooledColours
  <2>4. CASE k = Len(pickup) + 1
    <3>1. proc[x].pc = "granted" /\ proc[x].seen = Len(pickup)
      BY <1>2, <2>4 DEF CommitSession
    <3>2. proc[x].colour = Len(pickup) % Colours
      BY <3>1 DEF ThreadsOK, ThreadOK
    <3>3. k - 1 = Len(pickup)
      BY <2>1, <2>4
    <3> QED
      BY <2>1, <2>4, <3>2, <3>3
  <2> QED
    BY <1>2, <2>1, <2>3, <2>4
<1> QED
  BY <1>1, <1>2 DEF PooledColours

-----------------------------------------------------------------------------
(* Every pickup session and every authentication that came with no QR code *)
(* uses up a card read or an event: there are never more of them, those    *)
(* the threads have in hand included, than were read or have come.         *)
Granted == {x \in Proc : proc[x].pc = "granted"}
Busy    == {x \in Proc \ {"mqtt"} : proc[x].pc # "idle"}

Used == reads + queued - Len(Stream)

CountInv ==
    /\ IsFiniteSet(Granted) /\ IsFiniteSet(Busy)
    /\ Len(Stream) <= queued
    /\ Len(pickup) + Cardinality(Granted) <= Used
    /\ Len(auth) + Cardinality(Busy) <= Used + Cardinality(QrSessions)
    /\ Cardinality(QrSessions) <= MaxQr

LEMMA CountAdd ==
    ASSUME NEW S, IsFiniteSet(S), NEW x, NEW T, T \subseteq S \union {x}
    PROVE  /\ IsFiniteSet(T) /\ Cardinality(T) \in Nat /\ Cardinality(S) \in Nat
           /\ Cardinality(T) <= Cardinality(S) + 1
<1>1. /\ IsFiniteSet(S \union {x}) /\ Cardinality(S) \in Nat
      /\ Cardinality(S \union {x}) \in {Cardinality(S), Cardinality(S) + 1}
  BY FS_AddElement, FS_CardinalityType
<1>2. IsFiniteSet(T) /\ Cardinality(T) <= Cardinality(S \union {x}) /\ Cardinality(T) \in Nat
  BY <1>1, FS_Subset, FS_CardinalityType
<1> QED
  BY <1>1, <1>2

LEMMA CountRemove ==
    ASSUME NEW S, IsFiniteSet(S), NEW x \in S, NEW T, T \subseteq S \ {x}
    PROVE  /\ IsFiniteSet(T) /\ Cardinality(T) \in Nat /\ Cardinality(S) \in Nat
           /\ Cardinality(T) <= Cardinality(S) - 1
<1>1. /\ IsFiniteSet(S \ {x}) /\ Cardinality(S) \in Nat
      /\ Cardinality(S \ {x}) = Cardinality(S) - 1
  BY FS_RemoveElement, FS_CardinalityType
<1>2. IsFiniteSet(T) /\ Cardinality(T) <= Cardinality(S \ {x}) /\ Cardinality(T) \in Nat
  BY <1>1, FS_Subset, FS_CardinalityType
<1> QED
  BY <1>1, <1>2

LEMMA CountKeep ==
    ASSUME NEW S, IsFiniteSet(S), NEW T, T \subseteq S
    PROVE  /\ IsFiniteSet(T) /\ Cardinality(T) \in Nat /\ Cardinality(S) \in Nat
           /\ Cardinality(T) <= Cardinality(S)
  BY FS_Subset, FS_CardinalityType

(* What a step of an access does to the phases of the threads              *)
LEMMA PhasesAfter ==
    ASSUME AccessTypes, NEW x \in Proc, AccessStep(x)
    PROVE  /\ \A y \in Proc \ {x} : proc'[y] = proc[y]
           /\ proc'[x].pc # "granted" /\ proc[x].pc # "idle"
           /\ FinishAccess(x) => proc'[x].pc = "idle" /\ x # "mqtt"
           /\ CommitSession(x) => proc[x].pc = "granted"
<1> USE DEF Becomes, Others, Ends, Idle
<1>1. CASE CommitSession(x)
  BY <1>1, CommitSessionEffect DEF CommitSession, FinishAccess, RecordResult
<1>2. CASE SkipUnbound(x)
  BY <1>2, SkipUnboundEffect DEF CommitSession, FinishAccess, RecordResult
<1>3. CASE CreateTask(x)
  <2>1. PICK p \in proc[x].todo : StartTask(x, p) /\ proc[x].pc = "waking"
    BY <1>3 DEF CreateTask
  <2>2. p \in Parcel
    BY <2>1 DEF AccessTypes, Thread
  <2> QED
    BY <2>1, <2>2, StartTaskEffect DEF CommitSession, FinishAccess, RecordResult
<1>4. CASE MarkRunning(x)
  BY <1>4, MarkRunningEffect DEF MarkRunning, CommitSession, FinishAccess, RecordResult
<1>5. CASE MarkFinished(x)
  BY <1>5, MarkFinishedEffect DEF MarkFinished, CommitSession, FinishAccess, RecordResult
<1>6. CASE EnqueueAudit(x)
  BY <1>6, EnqueueAuditEffect DEF EnqueueAudit, CommitSession, FinishAccess, RecordResult
<1>7. CASE FinishAccess(x)
  BY <1>7, FinishAccessEffect DEF FinishAccess, RecordResult, CommitSession
<1> QED
  BY <1>1, <1>2, <1>3, <1>4, <1>5, <1>6, <1>7 DEF AccessStep

LEMMA NothingCounted ==
    ASSUME ServerTypes, GatewayTypes, AccessTypes, AuthTypes, CountInv
    PROVE  /\ Len(pickup) \in Nat /\ Len(auth) \in Nat /\ Len(Stream) \in Nat /\ queued \in Nat /\ reads \in Nat
           /\ Cardinality(Granted) \in Nat /\ Cardinality(Busy) \in Nat /\ Cardinality(QrSessions) \in Nat
           /\ MaxQr \in Nat /\ Used \in Int
<1>1. Len(pickup) \in Nat /\ Len(auth) \in Nat /\ queued \in Nat /\ reads \in Nat /\ MaxQr \in Nat
  BY ConstantsOK DEF ServerTypes, AccessTypes, AuthTypes
<1>2. Len(Stream) \in Nat
  BY StreamType
<1>3. Cardinality(Granted) \in Nat /\ Cardinality(Busy) \in Nat /\ Cardinality(QrSessions) \in Nat
  BY QrSessionsFinite, FS_CardinalityType DEF CountInv
<1> QED
  BY <1>1, <1>2, <1>3 DEF Used

(* Threads that go on or end, while as many events and cards are used up   *)
LEMMA CountKept ==
    ASSUME ServerTypes, GatewayTypes, AccessTypes, AuthTypes, CountInv,
           Granted' \subseteq Granted, Busy' \subseteq Busy, Len(pickup') = Len(pickup),
           Len(auth') = Len(auth), Cardinality(QrSessions') = Cardinality(QrSessions),
           Used' \in Int, Used <= Used', Len(Stream') <= queued'
    PROVE  CountInv'
<1>1. /\ IsFiniteSet(Granted') /\ Cardinality(Granted') \in Nat /\ Cardinality(Granted') <= Cardinality(Granted)
  BY CountKeep DEF CountInv
<1>2. /\ IsFiniteSet(Busy') /\ Cardinality(Busy') \in Nat /\ Cardinality(Busy') <= Cardinality(Busy)
  BY CountKeep DEF CountInv
<1>3. Len(pickup') + Cardinality(Granted') <= Used'
  BY SMTT(30), <1>1, NothingCounted DEF CountInv
<1>4. Len(auth') + Cardinality(Busy') <= Used' + Cardinality(QrSessions')
  BY SMTT(30), <1>2, NothingCounted DEF CountInv
<1>5. Cardinality(QrSessions') <= MaxQr
  BY DEF CountInv
<1> QED
  BY <1>1, <1>2, <1>3, <1>4, <1>5 DEF CountInv

LEMMA CountDecided ==
    ASSUME ServerTypes, GatewayTypes, AccessTypes, AuthTypes, CountInv, NEW x \in Proc, Others(x),
           Len(pickup') = Len(pickup), Len(auth') = Len(auth),
           Cardinality(QrSessions') = Cardinality(QrSessions),
           Used' = Used + 1, Len(Stream') <= queued'
    PROVE  CountInv'
<1>1. Granted' \subseteq Granted \union {x} /\ Busy' \subseteq Busy \union {x}
  BY DEF Granted, Busy, Others
<1>2. /\ IsFiniteSet(Granted') /\ Cardinality(Granted') \in Nat /\ Cardinality(Granted') <= Cardinality(Granted) + 1
  BY <1>1, CountAdd DEF CountInv
<1>3. /\ IsFiniteSet(Busy') /\ Cardinality(Busy') \in Nat /\ Cardinality(Busy') <= Cardinality(Busy) + 1
  BY <1>1, CountAdd DEF CountInv
<1>4. Len(pickup') + Cardinality(Granted') <= Used'
  BY SMTT(30), <1>2, NothingCounted DEF CountInv
<1>5. Len(auth') + Cardinality(Busy') <= Used' + Cardinality(QrSessions')
  <2>1. PICK a, b, c \in Nat, d \in Int :
          a = Len(auth) /\ b = Cardinality(Busy) /\ c = Cardinality(QrSessions) /\ d = Used /\ a + b <= d + c
    BY NothingCounted DEF CountInv
  <2>2. /\ Len(auth') = a /\ Used' = d + 1 /\ Cardinality(QrSessions') = c
        /\ Cardinality(Busy') \in Nat /\ Cardinality(Busy') <= b + 1
    BY <1>3, <2>1
  <2> QED
    BY SMTT(30), <2>1, <2>2
<1>6. Cardinality(QrSessions') <= MaxQr
  BY DEF CountInv
<1> QED
  BY <1>2, <1>3, <1>4, <1>5, <1>6 DEF CountInv

LEMMA CountAccessStep ==
    ASSUME TypeInv, CodesShown, CodesAsked, ThreadsOK, CountInv, NEW x \in Proc, AccessStep(x), Next
    PROVE  CountInv'
<1>0. ServerTypes /\ GatewayTypes /\ AccessTypes /\ AuthTypes /\ GrantedUser
  BY DEF TypeInv
<1>1. /\ UNCHANGED reads /\ queued' = queued /\ Len(Stream') = Len(Stream) /\ Used' = Used
      /\ ~FinishAccess(x) => UNCHANGED <<auth, QrSessions>>
      /\ ~CommitSession(x) => UNCHANGED pickup
  BY AccessStepFrame, CommitsStream DEF serverVars, authVars, StreamSame, Used, QrSessions
<1>2. Granted' \subseteq Granted \ {x} /\ Busy' \subseteq Busy
  <2>1. /\ \A y \in Proc \ {x} : proc'[y] = proc[y]
        /\ proc'[x].pc # "granted" /\ proc[x].pc # "idle"
    BY <1>0, PhasesAfter
  <2>2. ASSUME NEW y \in Granted' PROVE y \in Granted \ {x}
    BY <2>1 DEF Granted
  <2>3. ASSUME NEW y \in Busy' PROVE y \in Busy
    BY <2>1 DEF Busy
  <2> QED
    BY <2>2, <2>3
<1>3. CASE CommitSession(x)
  <2>1. ~FinishAccess(x) /\ x \in Granted
    BY <1>3 DEF CommitSession, FinishAccess, RecordResult, Granted
  <2>2. Len(pickup') = Len(pickup) + 1
    BY <1>0, <1>3, PickupAppends
  <2>3. /\ IsFiniteSet(Granted') /\ Cardinality(Granted') \in Nat /\ Cardinality(Granted') <= Cardinality(Granted) - 1
    BY <1>2, <2>1, CountRemove DEF CountInv
  <2>4. /\ IsFiniteSet(Busy') /\ Cardinality(Busy') \in Nat /\ Cardinality(Busy') <= Cardinality(Busy)
    BY <1>2, CountKeep DEF CountInv
  <2> QED
    BY SMTT(30), <1>0, <1>1, <2>1, <2>2, <2>3, <2>4, NothingCounted DEF CountInv
<1>4. CASE FinishAccess(x)
  <2>1. ~CommitSession(x) /\ x \in Busy /\ Busy' \subseteq Busy \ {x}
    <3>1. ~CommitSession(x) /\ proc[x].pc # "idle" /\ proc'[x].pc = "idle" /\ x # "mqtt"
      BY <1>0, <1>4, PhasesAfter DEF CommitSession, FinishAccess, RecordResult
    <3>2. x \in Busy /\ x \notin Busy'
      BY <3>1 DEF Busy
    <3> QED
      BY <1>2, <3>1, <3>2
  <2>2. /\ IsFiniteSet(Granted') /\ Cardinality(Granted') \in Nat /\ Cardinality(Granted') <= Cardinality(Granted)
    BY <1>2, CountKeep DEF CountInv
  <2>3. /\ IsFiniteSet(Busy') /\ Cardinality(Busy') \in Nat /\ Cardinality(Busy') <= Cardinality(Busy) - 1
    BY <2>1, CountRemove DEF CountInv
  <2>4. /\ Len(auth') \in {Len(auth), Len(auth) + 1} /\ Cardinality(QrSessions') = Cardinality(QrSessions)
    <3>1. proc[x] \in Thread
      BY <1>0 DEF AccessTypes
    <3>2. Row(x) \in AuthRow /\ Row(x).code = proc[x].code
      BY <3>1 DEF Row, AuthRow, AuthStatus, Thread
    <3>3. CASE proc[x].code = 0
      BY <1>0, <1>4, <3>2, <3>3, AddEffect DEF FinishAccess, RecordResult, Adds, SameCodes
    <3>4. CASE proc[x].code # 0
      <4>1. proc[x].code \in 1..Cardinality(QrSessions)
        BY <3>4 DEF CodesShown, CodesAsked
      <4> QED
        BY <1>0, <1>4, <3>2, <3>4, <4>1, SetEffect DEF FinishAccess, RecordResult, Sets, SameCodes
    <3> QED
      BY <3>3, <3>4
  <2>5. Len(pickup') + Cardinality(Granted') <= Used'
    BY SMTT(30), <1>0, <1>1, <2>1, <2>2, NothingCounted DEF CountInv
  <2>6. Len(auth') + Cardinality(Busy') <= Used' + Cardinality(QrSessions')
    <3>1. /\ Len(auth') <= Len(auth) + 1 /\ Len(auth') \in Nat
      BY <1>0, <2>4, NothingCounted
    <3> QED
      BY SMTT(30), <1>0, <1>1, <2>3, <2>4, <3>1, NothingCounted DEF CountInv
  <2> QED
    BY <1>1, <2>2, <2>3, <2>4, <2>5, <2>6 DEF CountInv
<1>5. CASE ~CommitSession(x) /\ ~FinishAccess(x)
  BY <1>0, <1>1, <1>2, <1>5, CountKept, NothingCounted DEF CountInv
<1> QED
  BY <1>3, <1>4, <1>5

LEMMA ServerQueues ==
    ASSUME ServerTypes, GatewayTypes, AccessTypes, ServerStep, ~StationStep
    PROVE  queued' = queued + 1 /\ Len(Stream') = Len(Stream) + 1
<1>0. commands \in Nat
  BY ConstantsOK DEF AccessTypes
<1>1. \E e \in Event : Queue(e) /\ UNCHANGED batch
  <2>1. ASSUME NEW u \in User, NEW n \in 0..MaxQr, RequestGateAuth(u, n)
        PROVE  Queue(AuthEvent(u, n, Due(u))) /\ AuthEvent(u, n, Due(u)) \in Event /\ UNCHANGED batch
    BY <2>1, EventsAreEvents DEF RequestGateAuth, Due, parcelVars
  <2>2. ASSUME NEW p \in Parcel, PutOnShelf(p)
        PROVE  Queue(ParcelEvent("PUT", p)) /\ ParcelEvent("PUT", p) \in Event /\ UNCHANGED batch
    BY <2>2, EventsAreEvents DEF PutOnShelf, parcelVars
  <2>3. ASSUME NEW p \in Parcel, ConfirmPickup(p)
        PROVE  Queue(ParcelEvent("PICKED", p)) /\ ParcelEvent("PICKED", p) \in Event /\ UNCHANGED batch
    BY <2>3, EventsAreEvents DEF ConfirmPickup, parcelVars
  <2> QED
    BY <2>1, <2>2, <2>3 DEF ServerStep
<1> QED
  BY <1>0, <1>1, QueueEffect DEF Grows

LEMMA CountStep ==
    ASSUME TypeInv, CodesShown, CodesAsked, ThreadsOK, CountInv, Next
    PROVE  CountInv'
<1>0. ServerTypes /\ GatewayTypes /\ AccessTypes /\ AuthTypes /\ GrantedUser
  BY DEF TypeInv
<1>00. UNCHANGED proc => UNCHANGED <<Granted, Busy>>
  BY DEF Granted, Busy
<1>000. UNCHANGED auth => UNCHANGED QrSessions
  BY DEF QrSessions
<1>1. CASE ServerStep /\ ~StationStep
  <2>1. queued' = queued + 1 /\ Len(Stream') = Len(Stream) + 1
    BY <1>0, <1>1, ServerQueues
  <2>2. Used' = Used /\ Len(Stream') <= queued'
    <3>1. reads' = reads
      BY <1>1, ServerStepFrame DEF accessVars
    <3>2. PICK a, b, c \in Nat : a = reads /\ b = queued /\ c = Len(Stream) /\ c <= b
      BY <1>0, NothingCounted DEF CountInv
    <3>3. reads' = a /\ queued' = b + 1 /\ Len(Stream') = c + 1
      BY <2>1, <3>1, <3>2
    <3>4. Used = a + b - c /\ Used' = a + (b + 1) - (c + 1)
      BY <3>2, <3>3 DEF Used
    <3> QED
      BY <3>2, <3>3, <3>4
  <2> QED
    BY <1>0, <1>00, <1>000, <1>1, <2>2, ServerStepFrame, NothingCounted, CountKept DEF accessVars, authVars
<1>2. CASE LoopOnly
  <2>1. Len(Stream') \in Nat /\ Len(Stream') <= Len(Stream)
    BY SMTT(30), <1>0, <1>2, PullEffect, AppliesOne, NothingCounted DEF LoopOnly, EndBatch, Stream, Shrinks, Place, serverVars
  <2>2. Used' \in Int /\ Used <= Used' /\ Len(Stream') <= queued'
    BY SMTT(30), <1>0, <1>2, <2>1, LoopOnlyFrame, NothingCounted DEF Used, accessVars, CountInv
  <2> QED
    BY <1>0, <1>00, <1>000, <1>2, <2>2, LoopOnlyFrame, NothingCounted, CountKept DEF accessVars, authVars
<1>3. CASE HandleGateAuth
  <2>1. Len(Stream') = Len(Stream) - 1 /\ UNCHANGED <<reads, queued, pickup, auth>>
    BY <1>0, <1>3, AppliesOne DEF Shrinks, HandleGateAuth, serverVars, authVars, accessVars
  <2>2. Used' = Used + 1 /\ Len(Stream') <= queued'
    BY SMTT(30), <1>0, <2>1, NothingCounted DEF Used, CountInv
  <2>3. "loop" \in Proc /\ Others("loop")
    BY <1>0, <1>3, HandleGateAuthEffect DEF Decides, Proc
  <2> QED
    BY <1>0, <1>000, <2>1, <2>2, <2>3, CountDecided
<1>4. ASSUME NEW x \in Api, NEW c \in Card, HandleAccessCard(x, c) PROVE CountInv'
  <2>1. Len(Stream') = Len(Stream) /\ reads' = reads + 1 /\ UNCHANGED <<queued, pickup, auth>>
    BY <1>4 DEF HandleAccessCard, serverVars, authVars, parcelVars, Stream
  <2>2. Used' = Used + 1 /\ Len(Stream') <= queued'
    BY SMTT(30), <1>0, <2>1, NothingCounted DEF Used, CountInv
  <2>3. x \in Proc /\ Others(x)
    BY <1>0, <1>4, ReadCardEffect DEF Decides, Proc
  <2> QED
    BY <1>0, <1>000, <2>1, <2>2, <2>3, CountDecided
<1>5. ASSUME NEW p \in Parcel, HandleServerCommand(p) PROVE CountInv'
  <2>1. /\ "mqtt" \in Proc /\ StartTask("mqtt", p) /\ UNCHANGED <<queued, reads, pickup, auth>>
        /\ Len(Stream') = Len(Stream)
    BY <1>5, CommitByEffect, CommitsStream DEF HandleServerCommand, Proc, StartTask, StreamSame, serverVars, authVars
  <2>2. Granted' \subseteq Granted /\ Busy' \subseteq Busy
    BY <1>0, <2>1, StartTaskEffect DEF Becomes, Others, Granted, Busy
  <2>3. Used' = Used /\ Len(Stream') <= queued'
    BY <2>1 DEF Used, CountInv
  <2> QED
    BY <1>0, <1>000, <2>1, <2>2, <2>3, CountKept, NothingCounted
<1>6. CASE GateQrSession
  <2> PICK row : row = [code |-> Cardinality(QrSessions) + 1, session |-> 0, status |-> "PENDING"]
    OBVIOUS
  <2>1. row \in AuthRow /\ auth' = Append(auth, row) /\ row.code # 0
    BY <1>0, <1>6, NothingCounted DEF GateQrSession, AuthRow, AuthStatus
  <2>2. Len(auth') = Len(auth) + 1 /\ Cardinality(QrSessions') = Cardinality(QrSessions) + 1
    BY <1>0, <2>1, AddEffect DEF Adds
  <2>3. /\ Cardinality(QrSessions) < MaxQr /\ UNCHANGED <<pickup, Granted, Busy, queued>>
        /\ Used' = Used /\ Len(Stream') = Len(Stream)
    BY <1>6, <1>00 DEF GateQrSession, Used, Stream, serverVars, parcelVars, accessVars
  <2> QED
    BY SMTT(30), <1>0, <2>2, <2>3, NothingCounted DEF CountInv
<1>7. CASE ReaderStep /\ ~GateQrSession
  <2>1. Len(auth') = Len(auth) /\ Cardinality(QrSessions') = Cardinality(QrSessions)
    <3>1. CASE UNCHANGED auth
      BY <1>000, <3>1
    <3>2. CASE ExpireSession
      <4>1. poll \in 1..Cardinality(QrSessions)
        BY <1>0, <3>2 DEF ExpireSession, AuthTypes, CodesShown
      <4>2. auth[QrSession(poll)] \in AuthRow /\ auth[QrSession(poll)].code = poll
        BY <1>0, <4>1, QrSessionFound DEF AuthTypes
      <4>3. PICK row : row = [auth[QrSession(poll)] EXCEPT !.status = "EXPIRED"]
        OBVIOUS
      <4>4. row \in AuthRow /\ row.code = poll
        BY <4>2, <4>3 DEF AuthRow, AuthStatus
      <4>5. auth' = [auth EXCEPT ![QrSession(poll)] = row]
        BY <3>2, <4>3 DEF ExpireSession
      <4> QED
        BY <1>0, <4>1, <4>4, <4>5, SetEffect DEF Sets, SameCodes
    <3> QED
      BY <1>7, <3>1, <3>2 DEF ReaderStep, PassExpiry, GateAuthResult
  <2>2. /\ UNCHANGED <<pickup, Granted, Busy, queued>> /\ Used' = Used /\ Len(Stream') = Len(Stream)
    BY <1>7, <1>00, ReaderFrame DEF Used, Stream, serverVars, parcelVars, accessVars
  <2> QED
    BY <1>0, <2>1, <2>2, CountKept, NothingCounted DEF CountInv
<1>8. CASE Crash
  <2>1. /\ Granted' = {} /\ Busy' = {} /\ UNCHANGED <<pickup, auth, reads, queued>>
    BY <1>8 DEF Crash, Granted, Busy, Idle, serverVars
  <2>2. Len(Stream') \in Nat /\ Len(Stream') <= Len(Stream)
    BY <1>0, <1>8, LoseEffect, NothingCounted DEF Crash, Shrinks, serverVars
  <2>3. Used' \in Int /\ Used <= Used' /\ Len(Stream') <= queued'
    BY SMTT(30), <1>0, <2>1, <2>2, NothingCounted DEF Used, CountInv
  <2> QED
    BY <1>0, <1>000, <2>1, <2>3, CountKept, NothingCounted
<1>9. CASE StationStep
  <2>1. /\ UNCHANGED <<proc, pickup, auth, reads>> /\ Len(Stream') = Len(Stream)
        /\ queued' \in {queued, queued + 1}
    BY <1>9, StationFrame DEF Stream, accessVars, authVars
  <2>2. Used' \in Int /\ Used <= Used' /\ Len(Stream') <= queued'
    BY SMTT(30), <1>0, <2>1, NothingCounted DEF Used, CountInv
  <2> QED
    BY <1>0, <1>00, <1>000, <2>1, <2>2, CountKept, NothingCounted
<1> QED
  BY <1>1, <1>2, <1>3, <1>4, <1>5, <1>6, <1>7, <1>8, <1>9, CountAccessStep, StepKinds DEF Starts

-----------------------------------------------------------------------------
(* A poll that is about to expire a session has found it undecided, unless *)
(* a decision has crossed it.                                              *)
PollInv == \A k \in QrSessions : auth[k].code = poll => poll \in crossed \/ auth[k].status = "PENDING"

LEMMA PollInvStep ==
    ASSUME ServerTypes, GatewayTypes, AuthTypes, AccessTypes, CodesShown, CodesAsked, PollInv, Next
    PROVE  PollInv'
<1> SUFFICES ASSUME NEW k \in QrSessions', auth'[k].code = poll'
             PROVE  poll' \in crossed' \/ auth'[k].status = "PENDING"
  BY DEF PollInv
<1>0. k \in 1..Len(auth') /\ auth'[k].code # 0
  BY DEF QrSessions
<1>1. crossed \subseteq crossed'
  BY StepKinds, ServerStepFrame, LoopOnlyFrame, StartsFrame, AccessStepFrame, ReaderFrame
     DEF authVars, FinishAccess, RecordResult, Crash
<1>2. CASE \E n \in 1..MaxQr : GateAuthResult(n)
  <2>1. PICK n \in 1..MaxQr : GateAuthResult(n)
    BY <1>2
  <2>2. /\ poll' = n /\ n \in past /\ auth[QrSession(n)].status = "PENDING" /\ UNCHANGED auth
    BY <2>1 DEF GateAuthResult
  <2>3. n \in 1..Cardinality(QrSessions) /\ k \in QrSessions /\ auth[k].code = n
    BY <1>0, <2>2 DEF CodesShown, QrSessions
  <2> QED
    BY <2>2, <2>3, QrSessionFound
<1>3. CASE ExpireSession \/ Crash
  BY <1>0, <1>3 DEF ExpireSession, Crash
<1>4. ASSUME UNCHANGED poll PROVE poll' \in crossed' \/ auth'[k].status = "PENDING"
  <2>1. CASE Stays(k)
    BY <1>0, <1>1, <1>4, <2>1 DEF Stays, PollInv, QrSessions
  <2>2. CASE Shown(k)
    BY <2>2 DEF Shown
  <2>3. CASE Expired(k)
    BY <1>0, <1>3, <2>3 DEF Expired
  <2>4. ASSUME NEW x \in Proc, Result(k, x) PROVE poll' \in crossed'
    <3>1. /\ auth'[k].code = proc[x].code
          /\ crossed' = crossed \union (({proc[x].code} \ {0}) \cap {poll})
      <4>1. FinishAccess(x) /\ auth'[k] = Row(x) /\ Row(x).code = proc[x].code
        BY <2>4 DEF Result, Row
      <4> QED
        BY <4>1 DEF FinishAccess, RecordResult
    <3> QED
      BY <1>0, <1>4, <3>1
  <2> QED
    BY <1>0, <2>1, <2>2, <2>3, <2>4, RowsAfter
<1> QED
  BY <1>2, <1>3, <1>4, StepKinds, ServerStepFrame, LoopOnlyFrame, StartsFrame, AccessStepFrame
     DEF authVars, ReaderStep, GateQrSession, PassExpiry

(* A QR code that no phone has repeated is the code of one request: it is  *)
(* on its way, in the hands of the run loop, or answered.                  *)
Asks(i, n) == i \in Place /\ Stream[i].type = "AUTH" /\ Stream[i].code = n

AsksNext(i, n) == i \in Place' /\ Stream'[i].type = "AUTH" /\ Stream'[i].code = n

Slide(s, n) == \A i \in Place' : AsksNext(i, n) => Asks(i + s, n)

OnItsWay(n) == \E i \in Place : Asks(i, n)

InLoop(n) == proc["loop"].code = n

AnsweredFor(n) == \E k \in 1..Len(auth) : auth[k].code = n /\ auth[k].status \in {"GRANTED", "DENIED"}

AskedOnce(n) ==
    /\ \A i, j \in Place : Asks(i, n) /\ Asks(j, n) => i = j
    /\ InLoop(n) => ~OnItsWay(n)
    /\ AnsweredFor(n) => n \in asked /\ ~OnItsWay(n) /\ ~InLoop(n)

AskInv == \A n \in 1..MaxQr \ repeated : AskedOnce(n)

(* What a step does to the requests with a code that are on their way      *)
LEMMA AsksAfter ==
    ASSUME ServerTypes, GatewayTypes, AccessTypes, Next, NEW n
    PROVE  \/ \E u \in User : /\ RequestGateAuth(u, n)
                             /\ \A i \in Place' : AsksNext(i, n) => Asks(i, n) \/ i = Len(Stream) + 1
           \/ \E s \in Nat : Slide(s, n) /\ (HandleGateAuth => s = 1)
<1>0. Len(Stream) \in Nat /\ Len(batch) \in Nat
  BY StreamType DEF GatewayTypes
<1>1. ASSUME NEW e, Grows(e), NEW i \in Place' PROVE i \in Place \/ i = Len(Stream) + 1
  BY <1>0, <1>1 DEF Grows, Place
<1>2. ASSUME NEW e, Grows(e), NEW i \in Place', AsksNext(i, n)
      PROVE  \/ Asks(i, n)
             \/ i = Len(Stream) + 1 /\ e.type = "AUTH" /\ e.code = n
  BY <1>1, <1>2 DEF Grows, Asks, AsksNext
<1>3. StreamSame => \A i \in Place' : AsksNext(i, n) => Asks(i, n)
  BY DEF StreamSame, Asks, AsksNext, Place
<1>4. ASSUME NEW p \in Parcel, NEW type \in {"PUT", "PICKED"}, Grows(ParcelEvent(type, p))
      PROVE  \A i \in Place' : AsksNext(i, n) => Asks(i, n)
  BY <1>2, <1>4 DEF ParcelEvent
<1>5. ASSUME NEW u \in User, NEW m \in 0..MaxQr, RequestGateAuth(u, m), Grows(AuthEvent(u, m, Due(u)))
      PROVE  \/ \A i \in Place' : AsksNext(i, n) => Asks(i, n)
             \/ /\ m = n
                /\ \A i \in Place' : AsksNext(i, n) => Asks(i, n) \/ i = Len(Stream) + 1
  BY <1>2, <1>5 DEF AuthEvent
<1>6. ASSUME NEW s \in Nat, Shrinks(s) PROVE Slide(s, n)
  <2>1. ASSUME NEW i \in Place', AsksNext(i, n) PROVE Asks(i + s, n)
    <3>1. i + s \in Place /\ Stream'[i] = Stream[i + s]
      BY <1>0, <1>6 DEF Shrinks, Place
    <3> QED
      BY <2>1, <3>1 DEF Asks, AsksNext
  <2> QED
    BY <2>1 DEF Slide
<1>7. HandleGateAuth => Shrinks(1)
  BY AppliesOne
<1>8. CASE HandleGateAuth
  BY <1>6, <1>7, <1>8
<1>9. CASE ~HandleGateAuth
  <2>1. (\A i \in Place' : AsksNext(i, n) => Asks(i, n)) => Slide(0, n)
    BY DEF Place, Slide
  <2> QED
    BY <1>0, <1>3, <1>4, <1>5, <1>6, <1>9, <2>1, StreamKinds
<1> QED
  BY <1>8, <1>9

LEMMA AnsweredAfter ==
    ASSUME ServerTypes, GatewayTypes, AuthTypes, AccessTypes, CodesShown, CodesAsked, ThreadsOK, Next,
           NEW n \in 1..MaxQr, AnsweredFor(n)'
    PROVE  \/ AnsweredFor(n)
           \/ FinishAccess("loop") /\ InLoop(n) /\ ~InLoop(n)'
<1>1. PICK k \in 1..Len(auth') : auth'[k].code = n /\ auth'[k].status \in {"GRANTED", "DENIED"}
  BY DEF AnsweredFor
<1>2. CASE \E x \in Proc : Result(k, x)
  <2>1. PICK x \in Proc : FinishAccess(x) /\ auth'[k] = Row(x)
    BY <1>2 DEF Result
  <2>2. proc[x].code = n /\ x = "loop"
    BY <1>1, <2>1 DEF Row, ThreadsOK, ThreadOK
  <2>3. proc'["loop"] = Idle
    BY <2>1, <2>2, FinishAccessEffect DEF Ends
  <2> QED
    BY <2>1, <2>2, <2>3 DEF InLoop, Idle
<1>3. CASE Stays(k)
  BY <1>1, <1>3 DEF Stays, AnsweredFor
<1> QED
  BY <1>1, <1>2, <1>3, RowsAfter DEF Expired, Shown

LEMMA AskInvStep ==
    ASSUME ServerTypes, GatewayTypes, AuthTypes, AccessTypes, CodesShown, CodesAsked, ThreadsOK, AskInv, Next
    PROVE  AskInv'
<1>0. asked \subseteq asked' /\ repeated \subseteq repeated'
  BY StepKinds, LoopOnlyFrame, StartsFrame, AccessStepFrame, ReaderFrame, StationFrame
     DEF ServerStep, PutOnShelf, ConfirmPickup, RequestGateAuth, Crash, serverVars
<1> SUFFICES ASSUME NEW n \in 1..MaxQr, n \notin repeated' PROVE AskedOnce(n)'
  BY DEF AskInv
<1>1. AskedOnce(n) /\ n # 0
  BY <1>0 DEF AskInv
<1>2. \A i : OnItsWay(n) <=> \E j \in Place : Asks(j, n)
  BY DEF OnItsWay
<1>3. OnItsWay(n) \/ InLoop(n) \/ AnsweredFor(n) => n \in asked
  <2>1. "loop" \in Proc
    BY DEF Proc
  <2> QED
    BY <1>1, <2>1 DEF CodesAsked, OnItsWay, Asks, InLoop, AskedOnce
<1>4. ASSUME NEW u \in User, RequestGateAuth(u, n),
             \A i \in Place' : AsksNext(i, n) => Asks(i, n) \/ i = Len(Stream) + 1
      PROVE  AskedOnce(n)'
  <2>1. n \notin asked /\ UNCHANGED proc /\ UNCHANGED auth
    BY <1>4 DEF RequestGateAuth, authVars
  <2>2. ~OnItsWay(n) /\ ~InLoop(n) /\ ~AnsweredFor(n)
    BY <1>3, <2>1
  <2>3. ~InLoop(n)' /\ ~AnsweredFor(n)'
    BY <2>1, <2>2 DEF InLoop, AnsweredFor
  <2>4. ASSUME NEW i \in Place', NEW j \in Place', AsksNext(i, n), AsksNext(j, n) PROVE i = j
    BY <1>4, <2>2, <2>4 DEF OnItsWay, Asks
  <2> QED
    BY <2>3, <2>4 DEF AskedOnce, Asks, AsksNext
<1>5. ASSUME NEW s \in Nat, Slide(s, n), HandleGateAuth => s = 1
      PROVE  AskedOnce(n)'
  <2>0. Place' \subseteq Int
    BY DEF Place
  <2>1. ASSUME NEW i \in Place', NEW j \in Place', AsksNext(i, n), AsksNext(j, n) PROVE i = j
    <3>1. Asks(i + s, n) /\ Asks(j + s, n) /\ i + s \in Place /\ j + s \in Place
      BY <1>5, <2>1 DEF Slide, Asks
    <3>2. i + s = j + s
      BY <1>1, <3>1 DEF AskedOnce
    <3> QED
      BY <2>0, <3>2
  <2>2. OnItsWay(n)' => OnItsWay(n)
    BY <1>5 DEF Slide, OnItsWay, Asks, AsksNext
  <2>3. CASE HandleGateAuth /\ Head(batch).code = n
    <3>1. /\ 1 \in Place /\ Stream[1] = Head(batch) /\ Head(batch).type = "AUTH" /\ UNCHANGED auth
      BY <2>3, AppliesOne DEF HandleGateAuth, NextEvent, authVars
    <3>2. Asks(1, n) /\ OnItsWay(n)
      BY <2>3, <3>1 DEF Asks, OnItsWay
    <3>3. ASSUME NEW i \in Place', AsksNext(i, n) PROVE FALSE
      <4>1. Asks(i + 1, n) /\ i + 1 \in Place /\ i \in 1..Len(Stream')
        BY <1>5, <2>3, <3>3 DEF Slide, Asks, Place
      <4>2. i + 1 = 1
        BY <1>1, <3>1, <3>2, <4>1 DEF AskedOnce
      <4> QED
        BY <4>1, <4>2
    <3>4. ~OnItsWay(n)'
      BY <3>3 DEF OnItsWay, Asks, AsksNext
    <3>5. ~AnsweredFor(n)'
      BY <1>1, <3>1, <3>2 DEF AskedOnce, AnsweredFor
    <3> QED
      BY <2>1, <3>4, <3>5 DEF AskedOnce, Asks, AsksNext
  <2>4. CASE ~(HandleGateAuth /\ Head(batch).code = n)
    <3>1. InLoop(n)' => InLoop(n)
      <4>1. "loop" \in Proc
        BY DEF Proc
      <4> QED
        BY <1>1, <2>4, <4>1, ThreadCodes DEF InLoop
    <3>2. CASE AnsweredFor(n)' => AnsweredFor(n)
      BY <1>0, <1>1, <2>1, <2>2, <3>1, <3>2 DEF AskedOnce, Asks, AsksNext
    <3>3. CASE InLoop(n) /\ ~InLoop(n)'
      BY <1>0, <1>1, <1>3, <2>1, <2>2, <3>3 DEF AskedOnce, Asks, AsksNext
    <3> QED
      BY <3>2, <3>3, AnsweredAfter
  <2> QED
    BY <2>3, <2>4
<1>6. \/ \E u \in User : /\ RequestGateAuth(u, n)
                       /\ \A i \in Place' : AsksNext(i, n) => Asks(i, n) \/ i = Len(Stream) + 1
      \/ \E s \in Nat : Slide(s, n) /\ (HandleGateAuth => s = 1)
  BY AsksAfter
<1> QED
  BY <1>4, <1>5, <1>6

-----------------------------------------------------------------------------
(* Parcels: what the gateway holds of one, and its events on their way     *)
Put(p)    == ParcelEvent("PUT", p)
Picked(p) == ParcelEvent("PICKED", p)

LEMMA EventsDiffer ==
    ASSUME NEW p, NEW q
    PROVE  /\ Put(p) = Put(q) => p = q
           /\ Picked(p) = Picked(q) => p = q
           /\ Put(p) # Picked(q)
           /\ Put(p).type = "PUT" /\ Picked(p).type = "PICKED"
           /\ \A u, n, due : /\ Put(p) # AuthEvent(u, n, due) /\ Picked(p) # AuthEvent(u, n, due)
                            /\ AuthEvent(u, n, due).type = "AUTH"
                            /\ AuthEvent(u, n, due).user = u /\ AuthEvent(u, n, due).due = due
<1>1. Put(p).parcel = p /\ Put(q).parcel = q /\ Picked(p).parcel = p /\ Picked(q).parcel = q
  BY DEF Put, Picked, ParcelEvent
<1>2. /\ Put(p).type = "PUT" /\ Put(q).type = "PUT" /\ Picked(p).type = "PICKED" /\ Picked(q).type = "PICKED"
  BY DEF Put, Picked, ParcelEvent
<1>3. ASSUME NEW u, NEW n, NEW due
      PROVE  /\ AuthEvent(u, n, due).type = "AUTH"
             /\ AuthEvent(u, n, due).user = u /\ AuthEvent(u, n, due).due = due
  BY DEF AuthEvent
<1> QED
  BY <1>1, <1>2, <1>3

(* A parcel that is not on the shelf yet has left no trace, and until the  *)
(* run loop applies its one PUT the gateway holds nothing of it.           *)
OneTrace(p) ==
    /\ shelf[p] = "NONE" => /\ parcel[p] = "NONE" /\ staged[p] = "NONE"
                            /\ \A j \in Place : Stream[j] # Put(p)
    /\ \A j \in Place : Stream[j] = Put(p) =>
          /\ parcel[p] = "NONE" /\ staged[p] = "NONE"
          /\ \A k \in Place : Stream[k] = Put(p) => k = j
    /\ staged[p] = "WAITING_PICKUP" => parcel[p] = "NONE"

(* By the time the run loop comes to place i, the parcel does not count as *)
(* waiting, or its pickup is not flushed, or it was missed.                *)
GoneBy(p, i) ==
    \/ p \in missed
    \/ staged[p] = "PICKED_UP"
    \/ \E j \in Place : j < i /\ Stream[j] = Picked(p)
    \/ /\ parcel[p] # "WAITING_PICKUP" /\ staged[p] # "WAITING_PICKUP"
       /\ \A j \in Place : j < i => Stream[j] # Put(p)

GoneNext(p, i) ==
    \/ p \in missed'
    \/ staged'[p] = "PICKED_UP"
    \/ \E j \in Place' : j < i /\ Stream'[j] = Picked(p)
    \/ /\ parcel'[p] # "WAITING_PICKUP" /\ staged'[p] # "WAITING_PICKUP"
       /\ \A j \in Place' : j < i => Stream'[j] # Put(p)

(* A request of a user for whom nothing was waiting                        *)
Empty(e, p) == e.type = "AUTH" /\ e.due = {} /\ e.user = Owner[p]

GoneInTime(p) ==
    /\ shelf[p] # "WAITING_PICKUP" => GoneBy(p, Len(Stream) + 1)
    /\ \A i \in Place : Empty(Stream[i], p) => GoneBy(p, i)

(* The first n events are applied or lost.                                 *)
Moves(n) ==
    /\ n \in Nat /\ n <= Len(Stream) /\ Len(Stream) - n <= Len(Stream') /\ Len(Stream') \in Nat
    /\ \A i \in 1..Len(Stream) - n : Stream'[i] = Stream[i + n]

Untouched(n, p) ==
    /\ parcel'[p] = parcel[p] /\ staged'[p] = staged[p]
    /\ \A j \in 1..n : Stream[j] # Put(p) /\ Stream[j] # Picked(p)

FlushedNow(n, p) == n = 0 /\ parcel'[p] = Flushed(p) /\ staged'[p] = "NONE"

PutNow(n, p) ==
    n = 1 /\ Len(Stream) # 0 /\ Stream[1] = Put(p) /\ parcel'[p] = parcel[p] /\ staged'[p] = "WAITING_PICKUP"

PickedNow(n, p) ==
    /\ n = 1 /\ Len(Stream) # 0 /\ Stream[1] = Picked(p) /\ parcel'[p] = parcel[p]
    /\ IF parcel[p] = "NONE" THEN p \in missed' /\ staged'[p] = staged[p]
                             ELSE \/ staged'[p] = "PICKED_UP"
                                  \/ parcel[p] = "PICKED_UP" /\ staged'[p] = staged[p]

LostNow(n, p) ==
    /\ parcel'[p] = parcel[p] /\ staged'[p] = "NONE"
    /\ staged[p] = "PICKED_UP" => p \in missed'
    /\ \A j \in 1..n : Stream[j] = Picked(p) => p \in missed'

Touches(n, p) == Untouched(n, p) \/ FlushedNow(n, p) \/ PutNow(n, p) \/ PickedNow(n, p) \/ LostNow(n, p)

(* At most one event is new.                                               *)
New(e) ==
    \/ \E p \in Parcel : (e = Put(p) /\ PutOnShelf(p)) \/ (e = Picked(p) /\ ConfirmPickup(p))
    \/ \E u \in User, n \in 0..MaxQr : e = AuthEvent(u, n, Due(u)) /\ RequestGateAuth(u, n)

LEMMA MovesByKind ==
    ASSUME ServerTypes, GatewayTypes
    PROVE  /\ StreamSame => Moves(0) /\ Len(Stream') = Len(Stream)
           /\ \A e : Grows(e) => Moves(0)
           /\ \A n : Shrinks(n) => Moves(n) /\ Len(Stream') = Len(Stream) - n
<1>0. Len(Stream) \in Nat
  BY StreamType
<1>1. StreamSame => Moves(0)
  BY <1>0 DEF StreamSame, Moves
<1>2. ASSUME NEW e, Grows(e) PROVE Moves(0)
  BY <1>0, <1>2 DEF Grows, Moves, Place
<1>3. ASSUME NEW n, Shrinks(n) PROVE Moves(n) /\ Len(Stream') = Len(Stream) - n
  BY <1>0, <1>3 DEF Shrinks, Moves, Place
<1> QED
  BY <1>1, <1>2, <1>3 DEF StreamSame

LEMMA ParcelsAfter ==
    ASSUME ServerTypes, StationTypes, GatewayTypes, AccessTypes, Next
    PROVE  \E n \in Nat : /\ Moves(n) /\ missed \subseteq missed' /\ apart \subseteq apart'
                         /\ \A p \in Parcel \ apart' : Touches(n, p)
                         /\ \/ Len(Stream') = Len(Stream) - n
                            \/ n = 0 /\ \E e : New(e) /\ Grows(e)
<1> USE DEF Touches
<1>0. Len(Stream) \in Nat /\ 0 \in Nat /\ 1 \in Nat /\ Len(Stream) - 0 = Len(Stream) /\ 1..0 = {}
  BY StreamType
<1>00. commands \in Nat
  BY ConstantsOK DEF AccessTypes
<1>01. ~StationStep => apart' = apart
  BY StepKinds, AccessStepFrame, StartsFrame, ServerStepFrame, LoopOnlyFrame, ReaderFrame
     DEF stationVars, Crash
<1>1. CASE ServerStep /\ ~StationStep
  <2>1. \E e : New(e) /\ Grows(e)
    <3>1. ASSUME NEW p \in Parcel, PutOnShelf(p) PROVE New(Put(p)) /\ Grows(Put(p))
      BY <1>00, <3>1, EventsAreEvents, QueueEffect DEF PutOnShelf, parcelVars, New, Put
    <3>2. ASSUME NEW p \in Parcel, ConfirmPickup(p) PROVE New(Picked(p)) /\ Grows(Picked(p))
      BY <1>00, <3>2, EventsAreEvents, QueueEffect DEF ConfirmPickup, parcelVars, New, Picked
    <3>3. ASSUME NEW u \in User, NEW n \in 0..MaxQr, RequestGateAuth(u, n)
          PROVE  New(AuthEvent(u, n, Due(u))) /\ Grows(AuthEvent(u, n, Due(u)))
      <4>1. AuthEvent(u, n, Due(u)) \in Event
        BY EventsAreEvents DEF Due
      <4> QED
        BY <1>00, <3>3, <4>1, QueueEffect DEF RequestGateAuth, parcelVars, Due, New
    <3> QED
      BY <1>1, <3>1, <3>2, <3>3 DEF ServerStep
  <2>2. UNCHANGED <<parcel, staged, missed>>
    BY <1>1, ServerStepFrame DEF parcelVars
  <2>3. Moves(0) /\ \A p \in Parcel : Untouched(0, p)
    BY <1>0, <2>1, <2>2, MovesByKind DEF Untouched
  <2> QED
    BY <1>0, <1>01, <1>1, <2>1, <2>2, <2>3
<1>2. CASE StreamSame /\ UNCHANGED <<missed, apart>> /\ (Flush \/ UNCHANGED <<parcel, staged>>)
  <2>1. \A p \in Parcel : Untouched(0, p) \/ FlushedNow(0, p)
    BY <1>0, <1>2 DEF Untouched, FlushedNow, Flush
  <2> QED
    BY <1>0, <1>2, <2>1, MovesByKind
<1>3. CASE ApplyPut \/ ApplyPicked \/ HandleGateAuth
  <2>0. UNCHANGED apart
    BY <1>3 DEF ApplyPut, ApplyPicked, HandleGateAuth, stationVars
  <2>1. /\ Shrinks(1) /\ 1 \in Place /\ Stream[1] = Head(batch) /\ Len(Stream) # 0 /\ Head(batch) \in Event
    BY <1>0, <1>3, AppliesOne, NextIsEvent DEF Place, ApplyPut, ApplyPicked, HandleGateAuth, NextEvent
  <2>2. Moves(1) /\ Len(Stream') = Len(Stream) - 1
    BY <2>1, MovesByKind
  <2>3. ASSUME NEW q \in Parcel, Stream[1] = Put(q) \/ Stream[1] = Picked(q), NEW p \in Parcel, p # q,
               parcel'[p] = parcel[p], staged'[p] = staged[p]
        PROVE  Untouched(1, p)
    <3>1. Stream[1] # Put(p) /\ Stream[1] # Picked(p)
      BY <2>3, EventsDiffer
    <3> QED
      BY <2>3, <3>1 DEF Untouched
  <2>4. CASE ApplyPut
    <3>1. PICK q \in Parcel : q = Head(batch).parcel /\ Head(batch) = Put(q)
      BY <2>1, <2>4 DEF ApplyPut, NextEvent, Event, Put, ParcelEvent
    <3>2. staged' = [staged EXCEPT ![q] = "WAITING_PICKUP"] /\ UNCHANGED <<parcel, missed>>
      BY <2>4, <3>1 DEF ApplyPut
    <3>3. PutNow(1, q)
      BY <2>1, <3>1, <3>2 DEF PutNow, GatewayTypes
    <3>4. ASSUME NEW p \in Parcel, p # q PROVE Untouched(1, p)
      BY <2>1, <2>3, <3>1, <3>2, <3>4 DEF GatewayTypes
    <3> QED
      BY <1>0, <2>0, <2>2, <3>2, <3>3, <3>4
  <2>5. CASE ApplyPicked
    <3>1. PICK q \in Parcel : q = Head(batch).parcel /\ Head(batch) = Picked(q)
      BY <2>1, <2>5 DEF ApplyPicked, NextEvent, Event, Picked, ParcelEvent
    <3>2. /\ IF parcel[q] = "NONE"
             THEN missed' = missed \union {q} /\ UNCHANGED staged
             ELSE /\ staged' = [staged EXCEPT ![q] = IF parcel[q] = "PICKED_UP" THEN @ ELSE "PICKED_UP"]
                  /\ UNCHANGED missed
          /\ UNCHANGED parcel
      BY <2>5, <3>1 DEF ApplyPicked
    <3>3. PickedNow(1, q) /\ missed \subseteq missed'
      BY <2>1, <3>1, <3>2 DEF PickedNow, GatewayTypes
    <3>4. ASSUME NEW p \in Parcel, p # q PROVE Untouched(1, p)
      BY <2>1, <2>3, <3>1, <3>2, <3>4 DEF GatewayTypes
    <3> QED
      BY <1>0, <2>0, <2>2, <3>3, <3>4
  <2>6. CASE HandleGateAuth
    <3>1. Stream[1].type = "AUTH" /\ UNCHANGED <<parcel, staged, missed>>
      BY <2>1, <2>6 DEF HandleGateAuth, NextEvent
    <3>2. ASSUME NEW p \in Parcel PROVE Untouched(1, p)
      <4>1. Stream[1] # Put(p) /\ Stream[1] # Picked(p)
        BY <3>1, EventsDiffer
      <4> QED
        BY <3>1, <4>1 DEF Untouched
    <3> QED
      BY <1>0, <2>0, <2>2, <3>1, <3>2
  <2> QED
    BY <1>3, <2>4, <2>5, <2>6
<1>4. CASE Crash
  <2>1. Len(batch) \in Nat /\ Shrinks(Len(batch)) /\ (\A j \in 1..Len(batch) : Stream[j] = batch[j]) /\ DOMAIN batch = 1..Len(batch)
    BY <1>4, LoseEffect, StreamType DEF Crash, serverVars, GatewayTypes
  <2>2. ASSUME NEW p \in Parcel PROVE LostNow(Len(batch), p)
    BY <1>4, <2>1 DEF Crash, LostNow, Picked
  <2>3. missed \subseteq missed' /\ apart' = apart
    BY <1>4 DEF Crash, stationVars
  <2> QED
    BY <2>1, <2>2, <2>3, MovesByKind
<1>5. CASE Commits /\ UNCHANGED apart
  BY <1>2, <1>5, CommitsStream DEF Commits
<1>6. CASE Pull \/ EndBatch
  BY <1>2, <1>6, PullEffect DEF StreamSame, Pull, EndBatch, Stream, serverVars, stationVars
<1>7. CASE ReaderStep
  BY <1>2, <1>7, ReaderFrame DEF StreamSame, Stream, serverVars, parcelVars, stationVars
<1>8. CASE StationStep
  <2>1. StreamSame /\ UNCHANGED missed /\ \A p \in Parcel \ apart' : Untouched(0, p)
    BY <1>0, <1>8, StationFrame, StationEffect DEF StreamSame, Stream, Untouched
  <2> QED
    BY <1>0, <1>8, <2>1, StationEffect, MovesByKind
<1> QED
  BY <1>1, <1>3, <1>4, <1>5, <1>6, <1>7, <1>8, StepKinds, AccessStepFrame, StartsFrame
     DEF LoopOnly, stationVars

(* The places that are left, before and after                              *)
LEMMA Places ==
    ASSUME ServerTypes, GatewayTypes, NEW n \in Nat, Moves(n)
    PROVE  /\ Len(Stream) \in Nat /\ Len(Stream') \in Nat
           /\ \A j \in Place' : j \in Nat
           /\ \A j \in Place' : j <= Len(Stream) - n => j + n \in Place /\ Stream'[j] = Stream[j + n]
           /\ \A j \in Place : j > n => j - n \in Place' /\ Stream'[j - n] = Stream[j]
<1>1. Len(Stream) \in Nat
  BY StreamType
<1>2. PICK a, b, s, t : a = Len(Stream) /\ b = Len(Stream') /\ s = Stream /\ t = Stream'
  OBVIOUS
<1>3. /\ a \in Nat /\ b \in Nat /\ n <= a /\ a - n <= b
      /\ \A j \in 1..a - n : t[j] = s[j + n]
  BY <1>1, <1>2 DEF Moves
<1>4. Place = 1..a /\ Place' = 1..b
  BY <1>2 DEF Place
<1>5. ASSUME NEW j \in Place', j <= a - n PROVE j + n \in Place /\ t[j] = s[j + n]
  BY <1>3, <1>4, <1>5
<1>6. ASSUME NEW j \in Place, j > n PROVE j - n \in Place' /\ t[j - n] = s[j]
  <2>1. j - n \in 1..a - n /\ (j - n) + n = j
    BY <1>3, <1>4, <1>6
  <2> QED
    BY <1>3, <1>4, <2>1
<1> QED
  BY <1>2, <1>3, <1>4, <1>5, <1>6

LEMMA GoneMoves ==
    ASSUME ServerTypes, GatewayTypes, NEW p \in Parcel, NEW n \in Nat, Moves(n), missed \subseteq missed',
           Touches(n, p), OneTrace(p), NEW i \in Nat, n < i, i <= Len(Stream) + 1, GoneBy(p, i)
    PROVE  GoneNext(p, i - n)
<1>0. Len(Stream) \in Nat /\ i - n \in Nat
  BY Places
<1>1. \A j \in Place' : j < i - n => j + n \in Place /\ j + n < i /\ Stream'[j] = Stream[j + n]
  BY <1>0, Places
<1>2. CASE p \in missed
  BY <1>2 DEF GoneNext
<1>3. CASE staged[p] = "PICKED_UP"
  <2>1. \A j \in Place : Stream[j] # Put(p)
    BY <1>3 DEF OneTrace
  <2>2. CASE FlushedNow(n, p)
    <3>1. parcel'[p] = "PICKED_UP" /\ staged'[p] = "NONE"
      BY <1>3, <2>2 DEF FlushedNow, Flushed
    <3> QED
      BY <1>1, <2>1, <3>1 DEF GoneNext
  <2>3. ~PutNow(n, p)
    BY <1>0, <2>1 DEF PutNow, Place
  <2> QED
    BY <1>3, <2>2, <2>3 DEF Touches, Untouched, PickedNow, LostNow, GoneNext
<1>4. CASE \E j \in Place : j < i /\ Stream[j] = Picked(p)
  <2>1. PICK j \in Place : j < i /\ Stream[j] = Picked(p)
    BY <1>4
  <2>2. CASE j > n
    <3>1. j - n \in Place' /\ j - n < i - n /\ Stream'[j - n] = Picked(p)
      BY <1>0, <2>1, <2>2, Places DEF Place
    <3> QED
      BY <3>1 DEF GoneNext
  <2>3. CASE ~(j > n)
    <3>1. j \in 1..n
      BY <1>0, <2>1, <2>3 DEF Place
    <3>2. ~Untouched(n, p) /\ ~FlushedNow(n, p)
      BY <2>1, <3>1 DEF Untouched, FlushedNow
    <3>3. ~PutNow(n, p)
      <4>1. n = 1 => j = 1
        BY <3>1
      <4> QED
        BY <2>1, <4>1, EventsDiffer DEF PutNow
    <3>4. CASE PickedNow(n, p) /\ staged'[p] # "PICKED_UP" /\ p \notin missed'
      <4>1. parcel[p] = "PICKED_UP" /\ parcel'[p] = "PICKED_UP" /\ staged'[p] = staged[p]
        BY <3>4 DEF PickedNow
      <4>2. staged[p] # "WAITING_PICKUP" /\ \A k \in Place : Stream[k] # Put(p)
        BY <4>1 DEF OneTrace
      <4> QED
        BY <1>1, <4>1, <4>2 DEF GoneNext
    <3> QED
      BY <2>1, <3>1, <3>2, <3>3, <3>4 DEF Touches, LostNow, GoneNext
  <2> QED
    BY <2>2, <2>3
<1>5. CASE /\ parcel[p] # "WAITING_PICKUP" /\ staged[p] # "WAITING_PICKUP"
           /\ \A j \in Place : j < i => Stream[j] # Put(p)
  <2>1. \A j \in Place' : j < i - n => Stream'[j] # Put(p)
    BY <1>1, <1>5
  <2>2. ~PutNow(n, p)
    <3>1. n = 1 /\ Len(Stream) # 0 => 1 \in Place /\ 1 < i
      BY <1>0 DEF Place
    <3> QED
      BY <1>5, <3>1 DEF PutNow
  <2>3. CASE PickedNow(n, p)
    BY <1>5, <2>1, <2>3 DEF PickedNow, GoneNext
  <2>4. CASE ~PickedNow(n, p)
    <3>1. parcel'[p] # "WAITING_PICKUP" /\ staged'[p] # "WAITING_PICKUP"
      BY <1>5, <2>2, <2>4 DEF Touches, Untouched, FlushedNow, Flushed, LostNow
    <3> QED
      BY <2>1, <3>1 DEF GoneNext
  <2> QED
    BY <2>3, <2>4
<1> QED
  BY <1>2, <1>3, <1>4, <1>5 DEF GoneBy

(* What a step does to the server's parcels                                *)
LEMMA ShelfAfter ==
    ASSUME ServerTypes, StationTypes, GatewayTypes, Next, NEW p \in Parcel \ apart'
    PROVE  \/ shelf'[p] = shelf[p] /\ ~PutOnShelf(p)
           \/ /\ PutOnShelf(p) /\ shelf[p] = "NONE" /\ shelf'[p] = "WAITING_PICKUP"
              /\ UNCHANGED <<parcel, staged>>
           \/ ConfirmPickup(p) /\ shelf'[p] = "PICKED_UP" /\ ~PutOnShelf(p)
<1>1. ASSUME NEW q \in Parcel, PutOnShelf(q)
      PROVE  \/ /\ q = p /\ shelf[p] = "NONE" /\ shelf'[p] = "WAITING_PICKUP"
                /\ UNCHANGED <<parcel, staged>>
             \/ q # p /\ shelf'[p] = shelf[p]
  BY <1>1 DEF PutOnShelf, ServerTypes, parcelVars
<1>2. ASSUME NEW q \in Parcel, ConfirmPickup(q)
      PROVE  \/ q = p /\ shelf'[p] = "PICKED_UP"
             \/ q # p /\ shelf'[p] = shelf[p]
  BY <1>2 DEF ConfirmPickup, ServerTypes
<1>3. PutOnShelf(p) => shelf'[p] = "WAITING_PICKUP" /\ shelf[p] = "NONE"
  BY DEF PutOnShelf, ServerTypes
<1>4. shelf'[p] = shelf[p] \/ (\E q \in Parcel : PutOnShelf(q) \/ ConfirmPickup(q))
  BY StepKinds, LoopOnlyFrame, StartsFrame, AccessStepFrame, ReaderFrame, StationEffect
     DEF ServerStep, RequestGateAuth, Crash, serverVars
<1> QED
  BY <1>1, <1>2, <1>3, <1>4

LEMMA OneTraceStep ==
    ASSUME ServerTypes, StationTypes, GatewayTypes, AccessTypes, Next, NEW p \in Parcel \ apart', OneTrace(p)
    PROVE  OneTrace(p)'
<1>1. PICK n \in Nat : /\ Moves(n) /\ missed \subseteq missed'
                      /\ Touches(n, p)
                      /\ \/ Len(Stream') = Len(Stream) - n
                         \/ n = 0 /\ \E e : New(e) /\ Grows(e)
  BY ParcelsAfter
<1>2. Len(Stream) \in Nat /\ Len(Stream') \in Nat /\ \A j \in Place' : j \in Nat
  BY <1>1, Places
<1>3. ASSUME NEW j \in Place', Stream'[j] = Put(p)
      PROVE  \/ j + n \in Place /\ Stream[j + n] = Put(p)
             \/ PutOnShelf(p) /\ j = Len(Stream) + 1
  <2>1. CASE j <= Len(Stream) - n
    BY <1>1, <1>3, <2>1, Places
  <2>2. CASE ~(j <= Len(Stream) - n)
    <3>1. j > Len(Stream) - n /\ j <= Len(Stream')
      BY <1>1, <1>2, <2>2 DEF Place
    <3>2. PICK e : New(e) /\ Grows(e) /\ n = 0
      BY <1>1, <1>2, <3>1
    <3>3. j = Len(Stream) + 1 /\ e = Put(p)
      BY <1>2, <1>3, <3>1, <3>2 DEF Grows
    <3> QED
      BY <3>2, <3>3, EventsDiffer DEF New
  <2> QED
    BY <2>1, <2>2
<1>4. CASE PutOnShelf(p)
  <2>1. /\ shelf[p] = "NONE" /\ shelf'[p] = "WAITING_PICKUP" /\ UNCHANGED <<parcel, staged>>
    BY <1>4, ShelfAfter
  <2>2. parcel[p] = "NONE" /\ staged[p] = "NONE" /\ \A j \in Place : Stream[j] # Put(p)
    BY <2>1 DEF OneTrace
  <2>3. \A j \in Place' : Stream'[j] = Put(p) => j = Len(Stream) + 1
    BY <1>3, <2>2
  <2> QED
    BY <2>1, <2>2, <2>3 DEF OneTrace
<1>5. CASE ~PutOnShelf(p)
  <2>1. \A j \in Place' : Stream'[j] = Put(p) => j + n \in Place /\ Stream[j + n] = Put(p)
    BY <1>3, <1>5
  <2>2. ASSUME parcel[p] = "NONE", staged[p] = "NONE", ~PutNow(n, p)
        PROVE  parcel'[p] = "NONE" /\ staged'[p] = "NONE"
    BY <1>1, <2>2 DEF Touches, Untouched, FlushedNow, Flushed, PickedNow, LostNow
  <2>3. ASSUME shelf'[p] = "NONE"
        PROVE  parcel'[p] = "NONE" /\ staged'[p] = "NONE" /\ \A j \in Place' : Stream'[j] # Put(p)
    <3>1. parcel[p] = "NONE" /\ staged[p] = "NONE" /\ \A j \in Place : Stream[j] # Put(p)
      BY <1>5, <2>3, ShelfAfter DEF OneTrace
    <3>2. ~PutNow(n, p)
      BY <1>2, <3>1 DEF PutNow, Place
    <3> QED
      BY <2>1, <2>2, <3>1, <3>2
  <2>4. ASSUME NEW j \in Place', Stream'[j] = Put(p)
        PROVE  /\ parcel'[p] = "NONE" /\ staged'[p] = "NONE"
               /\ \A k \in Place' : Stream'[k] = Put(p) => k = j
    <3>1. j + n \in Place /\ Stream[j + n] = Put(p) /\ j \in Nat /\ j >= 1
      BY <1>2, <2>1, <2>4 DEF Place
    <3>2. /\ parcel[p] = "NONE" /\ staged[p] = "NONE"
          /\ \A k \in Place : Stream[k] = Put(p) => k = j + n
      BY <3>1 DEF OneTrace
    <3>3. ~PutNow(n, p)
      <4>1. n = 1 /\ Len(Stream) # 0 => 1 \in Place /\ 1 # j + n
        BY <1>2, <3>1 DEF Place
      <4> QED
        BY <3>2, <4>1 DEF PutNow
    <3>4. ASSUME NEW k \in Place', Stream'[k] = Put(p) PROVE k = j
      <4>1. k + n = j + n /\ k \in Nat
        BY <1>2, <2>1, <3>2, <3>4
      <4> QED
        BY <3>1, <4>1
    <3> QED
      BY <2>2, <3>2, <3>3, <3>4
  <2>5. ASSUME staged'[p] = "WAITING_PICKUP" PROVE parcel'[p] = "NONE"
    <3>1. CASE PutNow(n, p)
      BY <1>2, <3>1 DEF PutNow, OneTrace, Place
    <3> QED
      BY <1>1, <2>5, <3>1 DEF Touches, Untouched, FlushedNow, PickedNow, LostNow, OneTrace
  <2> QED
    BY <2>3, <2>4, <2>5 DEF OneTrace
<1> QED
  BY <1>4, <1>5

LEMMA GoneInTimeStep ==
    ASSUME ServerTypes, StationTypes, GatewayTypes, AccessTypes, Next, NEW p \in Parcel \ apart',
           OneTrace(p), GoneInTime(p)
    PROVE  GoneInTime(p)'
<1>1. PICK n \in Nat : /\ Moves(n) /\ missed \subseteq missed'
                      /\ Touches(n, p)
                      /\ \/ Len(Stream') = Len(Stream) - n
                         \/ n = 0 /\ \E e : New(e) /\ Grows(e)
  BY ParcelsAfter
<1>2. /\ Len(Stream) \in Nat /\ Len(Stream') \in Nat /\ n <= Len(Stream)
      /\ \A j \in Place' : j \in Nat
  BY <1>1, Places DEF Moves
<1>3. ASSUME NEW e, n = 0, New(e), Grows(e) PROVE Len(Stream') = Len(Stream) + 1 /\ Stream'[Len(Stream) + 1] = e
  BY <1>3 DEF Grows
<1>4. \A i : GoneNext(p, i) <=> GoneBy(p, i)'
  BY DEF GoneNext, GoneBy
<1>5. ASSUME shelf[p] # "WAITING_PICKUP" PROVE GoneNext(p, Len(Stream) + 1 - n)
  <2>1. GoneBy(p, Len(Stream) + 1)
    BY <1>5 DEF GoneInTime
  <2>2. Len(Stream) + 1 \in Nat /\ n < Len(Stream) + 1 /\ Len(Stream) + 1 <= Len(Stream) + 1
    BY <1>2
  <2> QED
    BY <1>1, <2>1, <2>2, GoneMoves
<1>6. ASSUME shelf'[p] # "WAITING_PICKUP" PROVE GoneNext(p, Len(Stream') + 1)
  <2>1. CASE shelf[p] = "WAITING_PICKUP"
    <3>1. ConfirmPickup(p) /\ Grows(Picked(p))
      <4>1. ConfirmPickup(p)
        BY <1>6, <2>1, ShelfAfter
      <4>2. commands \in Nat
        BY ConstantsOK DEF AccessTypes
      <4> QED
        BY <4>1, <4>2, EventsAreEvents, QueueEffect DEF ConfirmPickup, parcelVars, Picked
    <3>2. Len(Stream) + 1 \in Place' /\ Len(Stream) + 1 < Len(Stream') + 1 /\ Stream'[Len(Stream) + 1] = Picked(p)
      BY <1>2, <3>1 DEF Grows, Place
    <3> QED
      BY <3>2 DEF GoneNext
  <2>2. CASE shelf[p] # "WAITING_PICKUP" /\ Len(Stream') = Len(Stream) - n
    <3>1. Len(Stream') + 1 = Len(Stream) + 1 - n
      BY <1>2, <2>2
    <3> QED
      BY <1>5, <2>2, <3>1
  <2>3. ASSUME NEW e, n = 0, New(e), Grows(e), shelf[p] # "WAITING_PICKUP"
        PROVE  GoneNext(p, Len(Stream') + 1)
    <3>1. e # Put(p)
      BY <1>6, <2>3, EventsDiffer, ShelfAfter DEF New
    <3>2. Len(Stream') = Len(Stream) + 1 /\ Stream'[Len(Stream) + 1] = e /\ Len(Stream) + 1 - n = Len(Stream) + 1
      BY <1>2, <2>3 DEF Grows
    <3>3. GoneNext(p, Len(Stream) + 1)
      BY <1>5, <2>3, <3>2
    <3>4. \A j \in Place' : j < Len(Stream') + 1 => j < Len(Stream) + 1 \/ j = Len(Stream) + 1
      BY <1>2, <3>2
    <3>5. \A j \in Place' : j < Len(Stream) + 1 => j < Len(Stream') + 1
      BY <1>2, <3>2
    <3> QED
      BY <3>1, <3>2, <3>3, <3>4, <3>5 DEF GoneNext
  <2> QED
    BY <1>1, <2>1, <2>2, <2>3
<1>7. ASSUME NEW i \in Place', Empty(Stream'[i], p) PROVE GoneNext(p, i)
  <2>1. CASE i <= Len(Stream) - n
    <3>1. i + n \in Place /\ Empty(Stream[i + n], p)
      BY <1>1, <1>7, <2>1, Places
    <3>2. GoneBy(p, i + n)
      BY <3>1 DEF GoneInTime
    <3>3. i + n \in Nat /\ n < i + n /\ i + n <= Len(Stream) + 1 /\ (i + n) - n = i
      BY <1>2, <2>1 DEF Place
    <3>4. GoneNext(p, (i + n) - n)
      BY <1>1, <3>2, <3>3, GoneMoves
    <3> QED
      BY <3>3, <3>4
  <2>2. CASE ~(i <= Len(Stream) - n)
    <3>1. i > Len(Stream) - n /\ i <= Len(Stream')
      BY <1>2, <2>2 DEF Place
    <3>2. PICK e : New(e) /\ Grows(e) /\ n = 0
      BY <1>1, <1>2, <3>1
    <3>3. i = Len(Stream) + 1 /\ e = Stream'[i] /\ Len(Stream) + 1 - n = i
      BY <1>2, <3>1, <3>2 DEF Grows
    <3>4. e.type = "AUTH" /\ e.due = {} /\ e.user = Owner[p]
      BY <1>7, <3>3 DEF Empty
    <3>5. \E u \in User, m \in 0..MaxQr : e = AuthEvent(u, m, Due(u))
      BY <3>2, <3>4, EventsDiffer DEF New
    <3>6. Due(Owner[p]) = {}
      BY <3>4, <3>5, EventsDiffer
    <3>7. shelf[p] # "WAITING_PICKUP"
      BY <3>6 DEF Due
    <3> QED
      BY <1>5, <3>3, <3>7
  <2> QED
    BY <2>1, <2>2
<1> QED
  BY <1>4, <1>6, <1>7 DEF GoneInTime

(* A grant for a user for whom nothing was waiting                         *)
LEMMA GrantStep ==
    ASSUME ServerTypes, StationTypes, GatewayTypes, AccessTypes, Next,
           \A p \in Parcel \ apart : GoneInTime(p), GrantHadParcel
    PROVE  GrantHadParcel'
<1>1. missed \subseteq missed' /\ apart \subseteq apart' /\ "loop" \in Proc
  BY ParcelsAfter DEF Proc
<1>2. CASE HandleGateAuth
  <2>1. PICK u, n, due : /\ u = Head(batch).user /\ n = Head(batch).code /\ due = Head(batch).due
                         /\ Decides("loop", u, n, due)
    BY <1>2, HandleGateAuthEffect
  <2>2. 1 \in Place /\ Stream[1] = Head(batch) /\ Head(batch).type = "AUTH"
    BY <1>2, AppliesOne DEF HandleGateAuth, NextEvent
  <2>3. ASSUME due = {}, NEW p \in Waiting(u) PROVE p \in Unflushed(u) \union missed \union apart
    <3>1. p \in Parcel /\ Owner[p] = u /\ parcel[p] = "WAITING_PICKUP"
      BY <2>3 DEF Waiting
    <3>2. p \in apart \/ GoneBy(p, 1)
      BY <2>1, <2>2, <2>3, <3>1 DEF GoneInTime, Empty
    <3>3. \A j \in Place : ~(j < 1)
      BY DEF Place
    <3> QED
      BY <2>3, <3>1, <3>2, <3>3 DEF GoneBy, Unflushed
  <2> QED
    BY <1>1, <2>1, <2>3 DEF GrantHadParcel, Decides
<1>3. ASSUME proc'["loop"].pc = "granted" => proc'["loop"] = proc["loop"] PROVE GrantHadParcel'
  BY <1>1, <1>3 DEF GrantHadParcel
<1>4. ASSUME NEW x \in Proc, AccessStep(x) PROVE proc'["loop"].pc = "granted" => proc'["loop"] = proc["loop"]
  BY <1>1, <1>4, PhasesAfter
<1>5. ASSUME NEW x \in Api, NEW c \in Card, HandleAccessCard(x, c) PROVE proc'["loop"] = proc["loop"]
  BY <1>1, <1>5, ReadCardEffect, ConstantsOK DEF Decides, Others, Proc
<1>6. ASSUME NEW p \in Parcel, HandleServerCommand(p) PROVE proc'["loop"] = proc["loop"]
  <2>1. StartTask("mqtt", p) /\ "mqtt" \in Proc
    BY <1>6 DEF HandleServerCommand, Proc
  <2> QED
    BY <1>1, <2>1, StartTaskEffect DEF Becomes, Others
<1>7. Crash => proc'["loop"].pc # "granted"
  BY <1>1 DEF Crash, Idle
<1> QED
  BY <1>2, <1>3, <1>4, <1>5, <1>6, <1>7, StepKinds, ServerStepFrame, LoopOnlyFrame, ReaderFrame DEF Starts

ParcelInv == /\ \A p \in Parcel \ apart : OneTrace(p) /\ GoneInTime(p)
             /\ GrantHadParcel

LEMMA ParcelInvStep ==
    ASSUME ServerTypes, StationTypes, GatewayTypes, AccessTypes, Next, ParcelInv
    PROVE  ParcelInv'
<1>1. ASSUME NEW p \in Parcel \ apart' PROVE OneTrace(p)' /\ GoneInTime(p)'
  <2>1. p \notin apart
    BY ParcelsAfter
  <2> QED
    BY <2>1, OneTraceStep, GoneInTimeStep DEF ParcelInv
<1>2. GrantHadParcel'
  BY GrantStep DEF ParcelInv
<1> QED
  BY <1>1, <1>2 DEF ParcelInv

-----------------------------------------------------------------------------
(* The start, and any number of steps                                      *)
AccessInv ==
    /\ TypeInv /\ CodesShown /\ CodesAsked /\ ThreadsOK /\ SessionInv /\ AtWork /\ TaskInHand /\ PooledColours
    /\ CountInv /\ PollInv /\ AskInv /\ ParcelInv

LEMMA AccessInvInit == Init => AccessInv
<1> SUFFICES ASSUME Init PROVE AccessInv
  OBVIOUS
<1>1. TypeInv
  BY TypeInit
<1>2. QrSessions = {} /\ Granted = {} /\ Busy = {} /\ Len(auth) = 0 /\ Len(pickup) = 0 /\ Len(Stream) = 0
  BY DEF Init, QrSessions, Granted, Busy, Idle, Stream
<1>3. IsFiniteSet({}) /\ Cardinality({}) = 0
  BY FS_EmptySet
<1>4. CodesShown /\ CodesAsked
  BY <1>2, <1>3 DEF Init, CodesShown, CodesAsked, Idle, Place
<1>5. ThreadsOK
  BY <1>2 DEF Init, ThreadsOK, ThreadOK, Idle
<1>6. SessionInv
  BY <1>2 DEF Init, SessionInv, Numbers, OwnSessions, HeldOpen, Recorded, Idle
<1>7. AtWork /\ TaskInHand /\ PooledColours
  BY <1>2 DEF Init, AtWork, TaskInHand, PooledColours, Idle
<1>8. CountInv
  <2>1. queued = 0 /\ reads = 0 /\ MaxQr \in Nat
    BY ConstantsOK DEF Init
  <2> QED
    BY <1>2, <1>3, <2>1 DEF CountInv, Used
<1>9. PollInv /\ AskInv
  BY <1>2 DEF PollInv, AskInv, AskedOnce, Asks, OnItsWay, AnsweredFor, Place
<1>10. ParcelInv
  <2>1. Place = {} /\ "loop" \in Proc
    BY <1>2 DEF Place, Proc
  <2>2. \A p \in Parcel : shelf[p] = "NONE" /\ parcel[p] = "NONE" /\ staged[p] = "NONE"
    BY DEF Init
  <2>3. \A p \in Parcel : OneTrace(p) /\ GoneInTime(p)
    BY <2>1, <2>2 DEF OneTrace, GoneInTime, GoneBy
  <2> QED
    BY <2>1, <2>3 DEF Init, ParcelInv, GrantHadParcel, Idle
<1> QED
  BY <1>1, <1>4, <1>5, <1>6, <1>7, <1>8, <1>9, <1>10 DEF AccessInv

LEMMA AccessInvSame == AccessInv /\ UNCHANGED vars => AccessInv'
<1> SUFFICES ASSUME AccessInv, UNCHANGED vars PROVE AccessInv'
  OBVIOUS
<1> USE DEF vars, serverVars, parcelVars, stationVars, accessVars, authVars
<1>1. TypeInv'
  BY DEF AccessInv, TypeInv, ServerTypes, StationTypes, GatewayTypes, AccessTypes, AuthTypes, GrantedUser
<1>2. UNCHANGED <<QrSessions, Stream, Granted, Busy>>
  BY DEF QrSessions, Stream, Granted, Busy
<1>3. CodesShown' /\ CodesAsked'
  BY <1>2 DEF AccessInv, CodesShown, CodesAsked, Place
<1>4. ThreadsOK'
  BY DEF AccessInv, ThreadsOK, ThreadOK
<1>5. SessionInv'
  BY DEF AccessInv, SessionInv, Numbers, OwnSessions, HeldOpen, Recorded, Open, Uncut
<1>6. AtWork' /\ TaskInHand' /\ PooledColours'
  BY DEF AccessInv, AtWork, TaskInHand, PooledColours
<1>7. CountInv'
  BY <1>2 DEF AccessInv, CountInv, Used
<1>8. PollInv' /\ AskInv'
  BY <1>2 DEF AccessInv, PollInv, AskInv, AskedOnce, Asks, OnItsWay, InLoop, AnsweredFor, Place
<1>9. ParcelInv'
  BY <1>2 DEF AccessInv, ParcelInv, OneTrace, GoneInTime, GoneBy, GrantHadParcel, Place
<1> QED
  BY <1>1, <1>3, <1>4, <1>5, <1>6, <1>7, <1>8, <1>9 DEF AccessInv

LEMMA AccessInvStep == AccessInv /\ Next => AccessInv'
<1> SUFFICES ASSUME AccessInv, Next PROVE AccessInv'
  OBVIOUS
<1>1. /\ ServerTypes /\ StationTypes /\ GatewayTypes /\ AccessTypes /\ AuthTypes /\ GrantedUser
      /\ TypeInv /\ CodesShown /\ CodesAsked /\ ThreadsOK /\ SessionInv /\ AtWork /\ TaskInHand
      /\ PooledColours
      /\ CountInv /\ PollInv /\ AskInv /\ ParcelInv
  BY DEF AccessInv, TypeInv
<1>2. TypeInv'
  <2>1. ServerTypes' /\ StationTypes' /\ GatewayTypes'
    BY <1>1, ServerTypesStep, GatewayTypesStep
  <2>2. AccessTypes' /\ GrantedUser' /\ AuthTypes'
    BY <1>1, AccessTypesStep, AuthTypesStep
  <2> QED
    BY <2>1, <2>2 DEF TypeInv
<1>3. CodesShown' /\ CodesAsked'
  BY <1>1, CodesShownStep, CodesAskedStep
<1>4. ThreadsOK' /\ SessionInv' /\ AtWork'
  BY <1>1, ThreadsOKStep, SessionInvStep, AtWorkStep
<1>5. TaskInHand' /\ PooledColours'
  BY <1>1, TaskInHandStep, PooledColoursStep
<1>6. CountInv'
  BY <1>1, CountStep
<1>7. PollInv' /\ AskInv' /\ ParcelInv'
  BY <1>1, PollInvStep, AskInvStep, ParcelInvStep
<1> QED
  BY <1>2, <1>3, <1>4, <1>5, <1>6, <1>7 DEF AccessInv

LEMMA AccessInvariant == Spec => []AccessInv
<1>1. AccessInv /\ [Next]_vars => AccessInv'
  BY AccessInvSame, AccessInvStep
<1> QED
  BY <1>1, AccessInvInit, PTL DEF Spec

(* The bounds on the lists, from the count                                 *)
LEMMA Bounds ==
    ASSUME AccessInv
    PROVE  /\ Len(events) <= MaxEvent /\ Len(batch) <= MaxEvent
           /\ Len(pickup) <= MaxSession /\ Len(auth) <= MaxAuth
<1>1. ServerTypes /\ GatewayTypes /\ AccessTypes /\ AuthTypes /\ CountInv
  BY DEF AccessInv, TypeInv
<1>2. PICK q, r, s, c, e \in Nat :
        /\ q = queued /\ r = reads /\ s = Len(Stream) /\ c = MaxCard /\ e = MaxEvent
        /\ q <= e /\ r <= c /\ s <= q
  <2>1. MaxCard \in Nat /\ MaxEvent \in Nat /\ queued \in Nat /\ reads \in Nat /\ Len(Stream) \in Nat
    BY <1>1, NothingCounted, ConstantsOK
  <2>2. queued <= MaxEvent /\ reads <= MaxCard /\ Len(Stream) <= queued
    BY <1>1, ConstantsOK DEF CountInv, ServerTypes, AccessTypes
  <2> QED
    BY <2>1, <2>2
<1>3. Used \in Int /\ Used = r + q - s /\ Used <= c + e /\ MaxSession = c + e
  BY <1>2 DEF Used, MaxSession
<1>4. /\ Len(batch) \in Nat /\ Len(events) \in Nat /\ s = Len(batch) + Len(events)
  BY <1>1, <1>2, StreamType DEF ServerTypes, GatewayTypes
<1>5. Len(pickup) <= MaxSession
  BY SMTT(30), <1>1, <1>2, <1>3, NothingCounted DEF CountInv
<1>6. Len(auth) <= MaxAuth
  <2>1. PICK a, b, m, n \in Nat : a = Len(auth) /\ b = Cardinality(Busy) /\ m = Cardinality(QrSessions) /\ n = MaxQr
    BY <1>1, NothingCounted
  <2>2. a + b <= Used + m /\ m <= n
    BY <1>1, <2>1 DEF CountInv
  <2> QED
    BY SMTT(30), <1>2, <1>3, <2>1, <2>2 DEF MaxAuth
<1> QED
  BY <1>2, <1>4, <1>5, <1>6

-----------------------------------------------------------------------------
(* Every variable holds values of its kind, and no list outgrows what the  *)
(* reader and the phones have asked for.                                   *)
THEOREM TypeCorrect == Spec => []TypeOK
<1>1. ASSUME AccessInv PROVE TypeOK
  <2>1. ServerTypes /\ StationTypes /\ GatewayTypes /\ AccessTypes /\ AuthTypes /\ Numbers
    BY <1>1 DEF AccessInv, TypeInv, SessionInv
  <2>2. \A k \in 1..Len(pickup) : pickup[k] \in [user : User, colour : 0..Colours - 1]
    <3>1. pickup \in Seq(PickupRow) /\ PickupRow = [user : User, colour : 0..Colours - 1]
      BY <2>1 DEF AccessTypes, PickupRow, Colour
    <3> QED
      BY <3>1, ElementOfSeq
  <2>3. ASSUME NEW k \in 1..Len(auth)
        PROVE  auth[k] \in [code : 0..MaxQr, session : 0..Len(pickup), status : AuthStatus]
    <3>1. auth[k] \in AuthRow /\ auth[k].session \in 0..Len(pickup)
      BY <2>1 DEF AuthTypes, Numbers
    <3> QED
      BY <3>1 DEF AuthRow
  <2>4. /\ Len(events) <= MaxEvent /\ Len(batch) <= MaxEvent
        /\ Len(pickup) <= MaxSession /\ Len(auth) <= MaxAuth
    BY <1>1, Bounds
  <2> QED
    BY <2>1, <2>2, <2>3, <2>4 DEF TypeOK, ServerTypes, StationTypes, GatewayTypes, AccessTypes, AuthTypes, Numbers
<1> QED
  BY <1>1, AccessInvariant, PTL

(* Two pickup sessions of one colour are at least the pool apart, unless   *)
(* another was committed between the choice of a colour and its commit.    *)
THEOREM PeopleInStationFollowOtherColours == Spec => []ColoursDiffer
<1>1. ASSUME AccessInv PROVE ColoursDiffer
  <2>1. SUFFICES ASSUME NEW i \in 1..Len(pickup) \ overlapped, NEW j \in 1..Len(pickup) \ overlapped,
                        i < j, pickup[i].colour = pickup[j].colour
                 PROVE  j - i >= Colours
    BY DEF ColoursDiffer
  <2>2. (i - 1) % Colours = (j - 1) % Colours
    BY <1>1, <2>1 DEF AccessInv, PooledColours
  <2>3. PICK a, b \in Nat : a = i - 1 /\ b = j - 1 /\ a < b /\ j - i = b - a
    <3>1. Len(pickup) \in Nat
      BY <1>1 DEF AccessInv, TypeInv, AccessTypes
    <3> QED
      BY <2>1, <3>1
  <2> QED
    BY <2>2, <2>3, SameColourFarApart
<1> QED
  BY <1>1, AccessInvariant, PTL

(* A GRANTED result can be read only when the access is on record and its  *)
(* wake tasks have ended.                                                  *)
THEOREM GrantsAreOnRecord == Spec => []GrantOnRecord
<1>1. ASSUME AccessInv PROVE GrantOnRecord
  <2>1. SUFFICES ASSUME NEW k \in 1..Len(auth), auth[k].status = "GRANTED"
                 PROVE  /\ auth[k].session \in audited
                        /\ \A p \in Parcel : task[<<auth[k].session, p>>] \in {"NONE", "DONE", "FAILED"}
    BY DEF GrantOnRecord
  <2>2. PICK s : s = auth[k].session
    OBVIOUS
  <2>3. s # 0 /\ s \in audited /\ Uncut(s) /\ s \in 0..MaxSession
    <3>1. s # 0 /\ s \in audited /\ Uncut(s) /\ audited \subseteq 1..Len(pickup)
      BY <1>1, <2>1, <2>2 DEF AccessInv, SessionInv, Recorded, Numbers
    <3>2. Len(pickup) \in Nat /\ Len(pickup) <= MaxSession /\ MaxSession \in Nat
      BY <1>1, Bounds, ConstantsOK DEF AccessInv, TypeInv, AccessTypes, MaxSession
    <3> QED
      BY <3>1, <3>2
  <2>4. ASSUME NEW p \in Parcel PROVE task[<<s, p>>] \in {"NONE", "DONE", "FAILED"}
    <3>1. PICK i : i = <<s, p>>
      OBVIOUS
    <3>2. i \in TaskId /\ i \notin cut
      BY <2>3, <3>1 DEF TaskId, Uncut
    <3>3. ASSUME NEW x \in Proc, i \in {proc[x].session} \X proc[x].tag PROVE FALSE
      <4>1. proc[x].session = s
        BY <3>1, <3>3
      <4> QED
        BY <1>1, <2>1, <2>2, <2>3, <4>1 DEF AccessInv, SessionInv, HeldOpen, Open
    <3>4. task[i] \notin {"PENDING", "RUNNING"} /\ task[i] \in TaskStatus
      BY <1>1, <3>2, <3>3 DEF AccessInv, TaskInHand, TypeInv, AccessTypes
    <3> QED
      BY <3>1, <3>4 DEF TaskStatus
  <2> QED
    BY <2>2, <2>3, <2>4
<1> QED
  BY <1>1, AccessInvariant, PTL

(* A wake task that has not ended is in the hands of a thread, or a crash  *)
(* cut it off.                                                             *)
THEOREM TasksAreInHand == Spec => []TaskInHand
<1>1. AccessInv => TaskInHand
  BY DEF AccessInv
<1> QED
  BY <1>1, AccessInvariant, PTL

(* A granted authentication stays granted, unless the phone's request was  *)
(* repeated or the decision crossed a poll.                                *)
THEOREM GrantsStand == Spec => GrantStands
<1>1. ASSUME AccessInv, Next, NEW k \in 1..Len(auth), auth[k].status = "GRANTED"
      PROVE  auth'[k].status = "GRANTED" \/ auth[k].code \in crossed \union repeated
  <2>0. /\ ServerTypes /\ GatewayTypes /\ AuthTypes /\ AccessTypes /\ CodesShown /\ CodesAsked
        /\ ThreadsOK /\ PollInv /\ AskInv
    BY <1>1 DEF AccessInv, TypeInv
  <2>1. k \in 1..Len(auth') /\ k # Len(auth) + 1
    BY <1>1, <2>0, RowsAfter
  <2>2. CASE Stays(k)
    BY <1>1, <2>2 DEF Stays
  <2>3. CASE Expired(k)
    <3>1. auth[k].code = poll /\ poll # 0
      BY <2>3 DEF Expired, ExpireSession
    <3> QED
      BY <1>1, <2>0, <3>1 DEF PollInv, QrSessions
  <2>4. ASSUME NEW x \in Proc, Result(k, x) PROVE auth[k].code \in repeated
    <3>1. auth[k].code = proc[x].code /\ auth[k].code # 0 /\ proc[x] \in Thread
      BY <1>1, <2>0, <2>4 DEF Result, AccessTypes
    <3>2. x = "loop" /\ auth[k].code \in 1..MaxQr
      BY <2>0, <3>1, ConstantsOK DEF ThreadsOK, ThreadOK, Thread
    <3>3. InLoop(auth[k].code) /\ AnsweredFor(auth[k].code)
      BY <1>1, <3>1, <3>2 DEF InLoop, AnsweredFor
    <3> QED
      BY <2>0, <3>2, <3>3 DEF AskInv, AskedOnce
  <2> QED
    BY <2>0, <1>1, <2>1, <2>2, <2>3, <2>4, RowsAfter DEF Shown
<1>2. ASSUME AccessInv, [Next]_vars
      PROVE  [\A k \in 1..Len(auth) :
                auth[k].status = "GRANTED" =>
                  auth'[k].status = "GRANTED" \/ auth[k].code \in crossed \union repeated]_vars
  BY <1>1, <1>2
<1> QED
  BY <1>2, AccessInvariant, PTL DEF Spec, GrantStands

(* The gate opens for a phone's request only if the server had a parcel    *)
(* waiting for its user, or for parcels whose pickup was missed or is not  *)
(* flushed yet, or which have been changed on one side.                    *)
THEOREM GrantsHadParcels == Spec => []GrantHadParcel
<1>1. AccessInv => GrantHadParcel
  BY DEF AccessInv, ParcelInv
<1> QED
  BY <1>1, AccessInvariant, PTL

-----------------------------------------------------------------------------
(* The gate implements GateDoor *)

(* No thread works on a task of an access that has been audited.           *)
LEMMA AuditedTasksRest ==
    ASSUME AccessInv, Next, NEW s \in audited, NEW p \in Parcel
    PROVE  task'[<<s, p>>] = task[<<s, p>>]
<1>0. /\ GatewayTypes /\ AccessTypes /\ AtWork /\ ThreadsOK
      /\ Len(pickup) \in Nat /\ s \in 1..Len(pickup) /\ Len(pickup) <= MaxSession
  BY Bounds DEF AccessInv, TypeInv, AccessTypes, SessionInv, Numbers
<1>1. PICK i : i = <<s, p>>
  OBVIOUS
<1>2. i \in TaskId /\ task \in [TaskId -> TaskStatus] /\ i[1] = s
  <2>1. MaxSession \in Nat
    BY ConstantsOK DEF MaxSession
  <2> QED
    BY <1>0, <1>1, <2>1 DEF TaskId, AccessTypes
<1>3. ASSUME NEW x \in Proc, proc[x].pc # "audited" PROVE proc[x].session # s
  BY <1>0, <1>3 DEF AtWork
<1>4. ASSUME NEW x \in Proc, NEW q \in Parcel, StartTask(x, q), proc[x].pc # "audited"
      PROVE  task'[i] = task[i]
  BY <1>1, <1>2, <1>3, <1>4 DEF StartTask
<1>5. ASSUME NEW x \in Proc, AccessStep(x) PROVE task'[i] = task[i]
  <2>1. CASE CreateTask(x)
    <3>1. PICK q \in proc[x].todo : StartTask(x, q) /\ proc[x].pc = "waking"
      BY <2>1 DEF CreateTask
    <3>2. q \in Parcel
      BY <1>0, <3>1 DEF AccessTypes, Thread
    <3> QED
      BY <1>4, <3>1, <3>2
  <2>2. CASE MarkRunning(x) \/ MarkFinished(x)
    <3>1. i \notin {proc[x].session} \X proc[x].tag
      BY <1>1, <1>3, <2>2 DEF MarkRunning, MarkFinished
    <3> QED
      BY <1>2, <2>2, <3>1 DEF MarkRunning, MarkFinished
  <2>3. CASE CommitSession(x) \/ SkipUnbound(x) \/ EnqueueAudit(x) \/ FinishAccess(x)
    BY <2>3 DEF CommitSession, SkipUnbound, EnqueueAudit, FinishAccess, accessVars
  <2> QED
    BY <1>5, <2>1, <2>2, <2>3 DEF AccessStep
<1>6. CASE HandleGateAuth \/ \E x \in Api, c \in Card : HandleAccessCard(x, c)
  BY <1>6 DEF HandleGateAuth, HandleAccessCard, accessVars
<1>7. ASSUME NEW q \in Parcel, HandleServerCommand(q) PROVE task'[i] = task[i]
  BY <1>4, <1>7 DEF HandleServerCommand, Proc
<1>8. CASE ServerStep \/ LoopOnly \/ ReaderStep \/ Crash
  BY <1>8, ServerStepFrame, LoopOnlyFrame, ReaderFrame DEF accessVars, Crash
<1> QED
  BY <1>1, <1>5, <1>6, <1>7, <1>8, StepKinds DEF Starts

(* Hence what is on record stays there, and only an audit adds to it.      *)
LEMMA RecordAfter ==
    ASSUME AccessInv, Next
    PROVE  /\ UNCHANGED audited => UNCHANGED OnRecord
           /\ \A x \in Proc : EnqueueAudit(x) => OnRecord' \in {OnRecord, OnRecord \union {proc[x].session}}
<1>1. \A s \in audited, p \in Parcel : task'[<<s, p>>] = task[<<s, p>>]
  BY AuditedTasksRest
<1>2. UNCHANGED audited => UNCHANGED OnRecord
  BY <1>1 DEF OnRecord
<1>3. ASSUME NEW x \in Proc, EnqueueAudit(x)
      PROVE  OnRecord' \in {OnRecord, OnRecord \union {proc[x].session}}
  <2>1. audited' = audited \union ({proc[x].session} \ {0})
    BY <1>3 DEF EnqueueAudit
  <2>2. \A s \in audited : s \in OnRecord' <=> s \in OnRecord
    BY <1>1, <2>1 DEF OnRecord
  <2>3. OnRecord \subseteq audited /\ OnRecord' \subseteq audited \union {proc[x].session}
    BY <2>1 DEF OnRecord
  <2> QED
    BY <2>2, <2>3
<1> QED
  BY <1>2, <1>3

(* A thread that records a result has denied, or has an access on record   *)
(* that no result names yet.                                               *)
LEMMA ResultIsVerdict ==
    ASSUME AccessInv, NEW x \in Proc, FinishAccess(x)
    PROVE  Row(x) \in Door!Verdict(proc[x].code)
<1>0. /\ AccessTypes /\ ThreadOK(x) /\ SessionInv /\ TaskInHand
      /\ Len(pickup) \in Nat /\ Len(pickup) <= MaxSession /\ MaxSession \in Nat
  BY Bounds, ConstantsOK DEF AccessInv, TypeInv, AccessTypes, ThreadsOK, MaxSession
<1>1. proc[x].pc = "audited"
  BY DEF FinishAccess, RecordResult
<1>2. PICK s : s = proc[x].session
  OBVIOUS
<1>3. CASE s = 0
  BY <1>2, <1>3 DEF Row, Door!Verdict
<1>4. CASE s # 0
  <2>1. s \in audited /\ s \in 1..MaxSession /\ Open(s)
    BY <1>0, <1>1, <1>2, <1>4 DEF ThreadOK, SessionInv, HeldOpen, Numbers
  <2>2. ASSUME NEW p \in Parcel PROVE task[<<s, p>>] \in {"NONE", "DONE", "FAILED"}
    <3>1. PICK i : i = <<s, p>>
      OBVIOUS
    <3>2. i \in TaskId /\ i \notin cut
      BY <1>0, <2>1, <3>1 DEF TaskId, Open
    <3>3. ASSUME NEW y \in Proc, i \in {proc[y].session} \X proc[y].tag PROVE FALSE
      <4>1. y = x
        BY <1>0, <1>2, <1>4, <3>1, <3>3 DEF SessionInv, OwnSessions
      <4> QED
        BY <1>0, <1>1, <3>3, <4>1 DEF ThreadOK
    <3>4. task[i] \notin {"PENDING", "RUNNING"} /\ task[i] \in TaskStatus
      BY <1>0, <3>2, <3>3 DEF TaskInHand, AccessTypes
    <3> QED
      BY <3>1, <3>4 DEF TaskStatus
  <2>3. s \in OnRecord
    BY <2>1, <2>2 DEF OnRecord
  <2>4. s \in Door!Unused
    BY <2>1, <2>3 DEF Door!Unused, Open
  <2> QED
    BY <1>2, <1>4, <2>4 DEF Row, Door!Verdict
<1> QED
  BY <1>3, <1>4

(* The session of a code is decided anew only when the code is excused.    *)
LEMMA FinishDecides ==
    ASSUME AccessInv, Next, NEW x \in Proc, FinishAccess(x)
    PROVE  Door!Next
<1>0. /\ AuthTypes /\ AccessTypes /\ CodesShown /\ CodesAsked /\ ThreadOK(x) /\ AskInv /\ proc[x] \in Thread
  BY DEF AccessInv, TypeInv, ThreadsOK, AccessTypes
<1>1. PICK n : n = proc[x].code
  OBVIOUS
<1>2. UNCHANGED OnRecord /\ UNCHANGED repeated
  BY DEF FinishAccess, accessVars, serverVars, OnRecord
<1>3. Row(x) \in Door!Verdict(n)
  BY <1>1, ResultIsVerdict
<1>4. CASE n = 0
  <2>1. auth' = Append(auth, Row(x)) /\ crossed' = crossed
    BY <1>1, <1>4 DEF FinishAccess, RecordResult
  <2>2. Door!Answer
    BY <1>2, <1>3, <1>4, <2>1 DEF Door!Answer
  <2> QED
    BY <2>2 DEF Door!Next
<1>5. CASE n # 0
  <2>1. n \in 1..Cardinality(QrSessions) /\ n \in 1..MaxQr /\ x = "loop"
    BY <1>0, <1>1, <1>5, ConstantsOK DEF CodesShown, CodesAsked, ThreadOK, Thread
  <2>2. PICK k : k = QrSession(n)
    OBVIOUS
  <2>3. k \in 1..Len(auth) /\ auth[k].code = n /\ auth[k] \in AuthRow
    BY <1>0, <2>1, <2>2, QrSessionFound DEF AuthTypes
  <2>4. auth' = [auth EXCEPT ![k] = Row(x)] /\ crossed' = crossed \union ({n} \cap {poll})
    BY <1>1, <1>5, <2>2 DEF FinishAccess, RecordResult
  <2>5. auth[k].status \in {"PENDING", "EXPIRED"} \/ n \in crossed \union repeated
    <3>1. CASE n \notin repeated
      <4>1. ~AnsweredFor(n)
        BY <1>0, <1>1, <2>1, <3>1 DEF AskInv, AskedOnce, InLoop
      <4> QED
        BY <2>3, <4>1 DEF AnsweredFor, AuthRow, AuthStatus
    <3> QED
      BY <3>1
  <2>6. Door!Decide(k)
    <3>1. (crossed \union repeated)' \in {crossed \union repeated, (crossed \union repeated) \union {n}}
      BY <1>2, <2>4
    <3> QED
      BY <1>2, <1>3, <1>5, <2>3, <2>4, <2>5, <3>1 DEF Door!Decide
  <2> QED
    BY <2>3, <2>6 DEF Door!Next
<1> QED
  BY <1>4, <1>5

(* The reader's end points show codes and let them expire.                 *)
LEMMA ReaderShowsOrExpires ==
    ASSUME AccessInv, ReaderStep
    PROVE  Door!Next \/ UNCHANGED Door!vars
<1>0. AuthTypes /\ CodesShown /\ PollInv
  BY DEF AccessInv, TypeInv
<1>1. UNCHANGED <<OnRecord, crossed, repeated>>
  BY ReaderFrame DEF OnRecord, accessVars, serverVars
<1>2. CASE GateQrSession
  <2>1. PICK n : n = Cardinality(QrSessions) + 1
    OBVIOUS
  <2>2. n \in 1..MaxQr /\ n \notin 1..Cardinality(QrSessions) /\ n # 0
    BY <1>0, <1>2, <2>1, QrSessionsFinite, ConstantsOK DEF GateQrSession
  <2>3. \A k \in 1..Len(auth) : auth[k].code # n
    BY <1>0, <2>2 DEF CodesShown, QrSessions
  <2>4. auth' = Append(auth, [code |-> n, session |-> 0, status |-> "PENDING"])
    BY <1>2, <2>1 DEF GateQrSession
  <2>5. Door!Show(n)
    BY <1>1, <2>3, <2>4 DEF Door!Show
  <2> QED
    BY <2>2, <2>5 DEF Door!Next
<1>3. CASE ExpireSession
  <2>1. poll # 0 /\ poll \in 1..Cardinality(QrSessions)
    BY <1>0, <1>3 DEF ExpireSession, AuthTypes, CodesShown
  <2>2. PICK k : k = QrSession(poll)
    OBVIOUS
  <2>3. k \in QrSessions /\ k \in 1..Len(auth) /\ auth[k].code = poll
    BY <1>0, <2>1, <2>2, QrSessionFound
  <2>4. auth[k].status = "PENDING" \/ poll \in crossed
    BY <1>0, <2>3 DEF PollInv
  <2>5. auth' = [auth EXCEPT ![k].status = "EXPIRED"]
    BY <1>3, <2>2 DEF ExpireSession
  <2>6. Door!Expire(k)
    BY <1>1, <2>1, <2>3, <2>4, <2>5 DEF Door!Expire
  <2> QED
    BY <2>3, <2>6 DEF Door!Next
<1>4. CASE UNCHANGED auth
  BY <1>1, <1>4 DEF Door!vars
<1> QED
  BY <1>2, <1>3, <1>4 DEF ReaderStep, PassExpiry, GateAuthResult

LEMMA DoorStep == AccessInv /\ [Next]_vars => [Door!Next]_Door!vars
<1> SUFFICES ASSUME AccessInv, [Next]_vars PROVE Door!Next \/ UNCHANGED Door!vars
  OBVIOUS
<1>1. ASSUME UNCHANGED <<auth, OnRecord, crossed, repeated>> PROVE UNCHANGED Door!vars
  BY <1>1 DEF Door!vars
<1>2. CASE UNCHANGED vars
  BY <1>1, <1>2 DEF vars, OnRecord, accessVars, authVars, serverVars
<1>3. CASE Next
  <2>1. CASE ServerStep
    <3>1. UNCHANGED <<auth, OnRecord, crossed>>
      BY <2>1, ServerStepFrame DEF authVars, accessVars, OnRecord
    <3>2. ASSUME NEW u \in User, NEW n \in 0..MaxQr, RequestGateAuth(u, n)
          PROVE  Door!Next \/ UNCHANGED Door!vars
      <4>1. repeated' = repeated \union ({n} \cap asked)
        BY <3>2 DEF RequestGateAuth
      <4>2. CASE n \in asked
        <5>1. n \in 1..MaxQr
          <6>1. asked \subseteq 1..Cardinality(QrSessions)
            BY DEF AccessInv, CodesShown
          <6> QED
            BY <4>2, <6>1, ConstantsOK
        <5>2. Door!Excuse(n)
          BY <3>1, <4>1, <4>2 DEF Door!Excuse
        <5> QED
          BY <5>1, <5>2 DEF Door!Next
      <4>3. CASE n \notin asked
        BY <1>1, <3>1, <4>1, <4>3
      <4> QED
        BY <4>2, <4>3
    <3>3. CASE \E p \in Parcel : PutOnShelf(p) \/ ConfirmPickup(p)
      BY <1>1, <3>1, <3>3 DEF PutOnShelf, ConfirmPickup
    <3>4. CASE StationStep
      BY <1>1, <3>1, <3>4, StationFrame
    <3> QED
      BY <2>1, <3>2, <3>3, <3>4 DEF ServerStep
  <2>2. CASE LoopOnly \/ Crash
    BY <1>1, <2>2, LoopOnlyFrame DEF Crash, OnRecord, accessVars, authVars, serverVars
  <2>3. CASE Starts
    <3>1. UNCHANGED <<auth, crossed, repeated, audited>>
      BY <2>3, StartsFrame DEF authVars, serverVars
    <3>2. UNCHANGED OnRecord
      BY <1>3, <3>1, RecordAfter
    <3> QED
      BY <1>1, <3>1, <3>2
  <2>4. ASSUME NEW x \in Proc, AccessStep(x), ~FinishAccess(x)
        PROVE  Door!Next \/ UNCHANGED Door!vars
    <3>1. UNCHANGED <<auth, crossed, repeated>>
      BY <2>4, AccessStepFrame DEF authVars, serverVars
    <3>2. CASE EnqueueAudit(x)
      <4>1. OnRecord' \in {OnRecord, OnRecord \union {proc[x].session}}
        BY <1>3, <3>2, RecordAfter
      <4>2. proc[x].session # 0 => proc[x].session \in 1..MaxSession
        <5>1. proc[x].session \in 0..Len(pickup)
          BY DEF AccessInv, ThreadsOK, ThreadOK
        <5>2. Len(pickup) <= MaxSession /\ Len(pickup) \in Nat /\ MaxSession \in Nat
          BY Bounds, ConstantsOK DEF AccessInv, TypeInv, AccessTypes, MaxSession
        <5> QED
          BY <5>1, <5>2
      <4>3. CASE OnRecord' = OnRecord
        BY <1>1, <3>1, <4>3
      <4>4. CASE OnRecord' = OnRecord \union {proc[x].session} /\ proc[x].session # 0
        <5>1. Door!Record(proc[x].session)
          BY <3>1, <4>4 DEF Door!Record
        <5> QED
          BY <4>2, <4>4, <5>1 DEF Door!Next
      <4>5. proc[x].session = 0 => OnRecord' = OnRecord
        <5>1. proc[x].session = 0 => UNCHANGED <<audited, task>>
          BY <3>2 DEF EnqueueAudit
        <5> QED
          BY <5>1 DEF OnRecord
      <4> QED
        BY <4>1, <4>3, <4>4, <4>5
    <3>3. CASE ~EnqueueAudit(x)
      <4>1. UNCHANGED audited
        BY <2>4, <3>3, AccessStepFrame
      <4>2. UNCHANGED OnRecord
        BY <1>3, <4>1, RecordAfter
      <4> QED
        BY <1>1, <3>1, <4>2
    <3> QED
      BY <3>2, <3>3
  <2>5. ASSUME NEW x \in Proc, FinishAccess(x) PROVE Door!Next
    BY <1>3, <2>5, FinishDecides
  <2>6. CASE ReaderStep
    BY <2>6, ReaderShowsOrExpires
  <2> QED
    BY <1>3, <2>1, <2>2, <2>3, <2>4, <2>5, <2>6, StepKinds
<1> QED
  BY <1>2, <1>3

(* The threads and their commits, the unflushed session, the reader's      *)
(* polls and the crashes implement the abstract gate: it opens once for    *)
(* each access on record, and an answer stands.                            *)
THEOREM ImplementsDoor == Spec => DoorSpec
<1>1. Init => Door!Init
  BY DEF Init, Door!Init, OnRecord
<1>2. AccessInv /\ [Next]_vars => [Door!Next]_Door!vars
  BY DoorStep
<1> QED
  BY <1>1, <1>2, AccessInvariant, PTL DEF Spec, DoorSpec, Door!Spec

=============================
