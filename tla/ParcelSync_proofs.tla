-------------------------- MODULE ParcelSync_proofs --------------------------
(***************************************************************************)
(* Proofs about the parcels, for any number of parcels, requests, event    *)
(* ids and uploads and every choice of faults.                             *)
(***************************************************************************)
EXTENDS ParcelSync, TLAPS, FiniteSetTheorems

(* A row belongs to a parcel. *)
LEMMA RowsAreOfParcels ==
  ASSUME NEW k \in Row
  PROVE  /\ k[1] \in {"parcel", "binding"}
         /\ k[2] \in Parcel
         /\ k = <<k[1], k[2]>>
  BY DEF Row

LEMMA ParcelsHaveRows ==
  ASSUME NEW p \in Parcel
  PROVE  /\ <<"parcel", p>> \in Row /\ <<"parcel", p>>[1] = "parcel"
         /\ <<"binding", p>> \in Row /\ <<"binding", p>>[1] = "binding"
  BY DEF Row

LEMMA StatusesAreTyped ==
  ASSUME NEW k \in Row
  PROVE  /\ "NONE" \in RowStatus(k)
         /\ RowStatus(k) \subseteq Status \union BindingStatus
         /\ k[1] = "parcel" => RowStatus(k) = Status
         /\ k[1] = "binding" => RowStatus(k) = BindingStatus
  BY DEF RowStatus, Status, BindingStatus

LEMMA RowValueTyped ==
  ASSUME NEW rows \in RowValues, NEW k \in Row
  PROVE  rows[k] \in RowStatus(k) /\ rows \in [Row -> Status \union BindingStatus]
  BY DEF RowValues

LEMMA NoRowsTyped == NoRows \in RowValues
  BY StatusesAreTyped DEF RowValues, NoRows

LEMMA UpdateTyped ==
  ASSUME NEW rows \in RowValues, NEW k \in Row, NEW s \in RowStatus(k)
  PROVE  [rows EXCEPT ![k] = s] \in RowValues
  BY StatusesAreTyped DEF RowValues

(* The events going down and up are events. *)
LEMMA EventsAreTyped ==
  ASSUME NEW p \in Parcel
  PROVE  /\ \A kind \in {"UPSERT", "BIND", "CONFIRMED"} : Down(kind, p) \in DownEvent
         /\ \A kind \in {"INBOUND", "PICKUP"} : Up(kind, p) \in UpEvent
  BY DEF Down, DownEvent, Up, UpEvent

LEMMA EventsAreOfParcels ==
  ASSUME NEW events \in Seq(DownEvent)
  PROVE  \A i \in DOMAIN events : events[i].parcel \in Parcel
<1>1. ASSUME NEW i \in DOMAIN events PROVE events[i] \in DownEvent
  OBVIOUS
<1> QED
  BY <1>1 DEF DownEvent

LEMMA AnnounceIsTyped ==
  ASSUME NEW i \in {1, 2}
  PROVE  Announce(i) \in Seq(DownEvent)
<1>1. CASE i \in DOMAIN SeedOrder
  <2>1. SeedOrder[i] \in Parcel
    BY <1>1, ConstantsOK
  <2>2. /\ <<Down("UPSERT", SeedOrder[i])>> \in Seq(DownEvent)
        /\ <<Down("BIND", SeedOrder[i])>> \in Seq(DownEvent)
        /\ <<>> \in Seq(DownEvent)
    BY <2>1, EventsAreTyped
  <2>3. QED
    BY <1>1, <2>2 DEF Announce
<1>2. CASE i \notin DOMAIN SeedOrder
  BY <1>2 DEF Announce
<1>3. QED
  BY <1>1, <1>2

LEMMA Joined ==
  ASSUME NEW s \in Seq(DownEvent), NEW t \in Seq(DownEvent), NEW u, u = s \o t
  PROVE  /\ u \in Seq(DownEvent) /\ Len(u) = Len(s) + Len(t)
         /\ \A i \in DOMAIN u :
               /\ i \in Nat
               /\ \/ i \in DOMAIN s /\ u[i] = s[i]
                  \/ i - Len(s) \in DOMAIN t /\ u[i] = t[i - Len(s)]
         /\ \A i \in DOMAIN s : i \in DOMAIN u /\ u[i] = s[i]
  OBVIOUS

LEMMA AtMostOne ==
  ASSUME NEW x \in DownEvent, NEW s, s = <<>> \/ s = <<x>>
  PROVE  /\ s \in Seq(DownEvent)
         /\ \A m \in DOMAIN s : m = Len(s) /\ s[m] = x
<1>1. CASE s = <<>>
  BY <1>1
<1>2. CASE s = <<x>>
  BY <1>2
<1> QED
  BY <1>1, <1>2

(* What an announcement says: each event is about its parcel, and a        *)
(* binding is announced once, when there is none.                          *)
LEMMA AnnounceSays ==
  ASSUME NEW i \in {1, 2}, NEW j \in DOMAIN Announce(i)
  PROVE  /\ i \in DOMAIN SeedOrder
         /\ Announce(i)[j].parcel = SeedOrder[i]
         /\ Announce(i)[j].kind = "UPSERT"
            \/ /\ Announce(i)[j].kind = "BIND" /\ binding[SeedOrder[i]] = "NONE"
               /\ j = Len(Announce(i))
<1>1. CASE i \in DOMAIN SeedOrder
  <2> DEFINE p == SeedOrder[i]
             upsert == IF parcel[p] = "NONE" \/ p \in reshelved
                       THEN <<Down("UPSERT", p)>> ELSE <<>>
             bind == IF binding[p] = "NONE" THEN <<Down("BIND", p)>> ELSE <<>>
  <2>1. Announce(i) = upsert \o bind /\ p \in Parcel
    BY <1>1, ConstantsOK DEF Announce
  <2>2. upsert = <<>> \/ upsert = <<Down("UPSERT", p)>>
    OBVIOUS
  <2>3. bind = <<>> \/ (bind = <<Down("BIND", p)>> /\ binding[p] = "NONE")
    <3>1. CASE binding[p] = "NONE"
      BY <3>1
    <3>2. CASE binding[p] # "NONE"
      BY <3>2
    <3> QED
      BY <3>1, <3>2
  <2>4. /\ Down("UPSERT", p).kind = "UPSERT" /\ Down("BIND", p).kind = "BIND"
        /\ Down("UPSERT", p).parcel = p /\ Down("BIND", p).parcel = p
        /\ Down("UPSERT", p) \in DownEvent /\ Down("BIND", p) \in DownEvent
    BY <2>1, EventsAreTyped DEF Down
  <2> DEFINE x == Down("UPSERT", p)
             y == Down("BIND", p)
             a == Announce(i)
  <2> HIDE DEF upsert, bind, p, x, y, a
  <2>5. /\ upsert \in Seq(DownEvent) /\ \A m \in DOMAIN upsert : upsert[m] = x
    <3>1. x \in DownEvent /\ (upsert = <<>> \/ upsert = <<x>>)
      BY <2>2, <2>4 DEF x
    <3> QED
      BY <3>1, AtMostOne
  <2>6. /\ bind \in Seq(DownEvent)
        /\ \A m \in DOMAIN bind : m = Len(bind) /\ bind[m] = y /\ binding[p] = "NONE"
    <3>1. y \in DownEvent /\ (bind = <<>> \/ (bind = <<y>> /\ binding[p] = "NONE"))
      BY <2>3, <2>4 DEF y
    <3>2. bind = <<>> => DOMAIN bind = {}
      OBVIOUS
    <3> QED
      BY <3>1, <3>2, AtMostOne
  <2>7. /\ j \in Nat /\ Len(a) = Len(upsert) + Len(bind) /\ Len(upsert) \in Nat /\ Len(bind) \in Nat
        /\ \/ j \in DOMAIN upsert /\ a[j] = upsert[j]
           \/ j - Len(upsert) \in DOMAIN bind /\ a[j] = bind[j - Len(upsert)]
    <3>1. a = upsert \o bind /\ j \in DOMAIN a
      BY <2>1 DEF a
    <3> QED
      BY <2>5, <2>6, <3>1, Joined
  <2>8. CASE j \in DOMAIN upsert
    BY <1>1, <2>4, <2>5, <2>7, <2>8 DEF p, x, y, a
  <2>9. CASE j - Len(upsert) \in DOMAIN bind /\ a[j] = bind[j - Len(upsert)]
    <3>1. j - Len(upsert) = Len(bind) /\ a[j] = y /\ binding[p] = "NONE"
      BY <2>6, <2>9
    <3>2. j = Len(a)
      BY <2>7, <3>1
    <3> QED
      BY <1>1, <2>4, <3>1, <3>2 DEF p, y, a
  <2> QED
    BY <2>7, <2>8, <2>9
<1>2. CASE i \notin DOMAIN SeedOrder
  BY <1>2 DEF Announce
<1>3. QED
  BY <1>1, <1>2

LEMMA SeededAreParcels == Seeded \subseteq Parcel
  BY ConstantsOK DEF Seeded

(* What a demonstration adds to the outbox is about its parcels.           *)
LEMMA OutboxAfterDemo ==
  ASSUME TypeOK, EnsureDemoData, NEW i \in DOMAIN outbox'
  PROVE  \/ i \in DOMAIN outbox /\ outbox'[i] = outbox[i]
         \/ outbox'[i].parcel \in Seeded /\ outbox'[i].kind # "CONFIRMED"
<1> DEFINE a == Announce(1)
           b == Announce(2)
           t == outbox \o a
<1>1. \A e : (\E j \in DOMAIN a : e = a[j]) \/ (\E j \in DOMAIN b : e = b[j]) =>
         e.parcel \in Seeded /\ e.kind # "CONFIRMED"
  BY AnnounceSays DEF Seeded
<1>2. /\ a \in Seq(DownEvent) /\ b \in Seq(DownEvent) /\ outbox \in Seq(DownEvent)
      /\ outbox' = t \o b
  BY AnnounceIsTyped DEF EnsureDemoData, TypeOK
<1>3. t = outbox \o a
  OBVIOUS
<1> HIDE DEF a, b, t
<1>4. /\ t \in Seq(DownEvent)
      /\ \A j \in DOMAIN t : \/ j \in DOMAIN outbox /\ t[j] = outbox[j]
                             \/ \E k \in DOMAIN a : t[j] = a[k]
  BY <1>2, <1>3, Joined
<1>5. (i \in DOMAIN t /\ outbox'[i] = t[i]) \/ \E k \in DOMAIN b : outbox'[i] = b[k]
  BY <1>2, <1>4, Joined
<1> QED
  BY <1>1, <1>4, <1>5

(* The event at the head of a batch, and the rest of the batch. *)
LEMMA HeadIsTyped ==
  ASSUME TypeOK, batch # <<>>
  PROVE  /\ Head(batch) \in DownEvent
         /\ Head(batch).parcel \in Parcel
         /\ Tail(batch) \in Seq(DownEvent)
<1>1. Head(batch) \in DownEvent /\ Tail(batch) \in Seq(DownEvent)
  BY DEF TypeOK
<1>2. QED
  BY <1>1 DEF DownEvent

LEMMA EmptySessionTyped ==
  ASSUME EmptySession
  PROVE  /\ added' \in RowValues /\ seen' \in RowValues /\ held' \in RowValues
         /\ twice' \in BOOLEAN
  BY NoRowsTyped DEF EmptySession

LEMMA AssignIsTyped ==
  ASSUME TypeOK, NEW rows \in SUBSET Row, NEW s, Assign(rows, s),
         \A k \in rows : s[k[1]] \in RowStatus(k)
  PROVE  seen' \in RowValues /\ held' \in RowValues
<1>1. \A k \in Row : /\ local[k] \in RowStatus(k)
                     /\ seen[k] \in RowStatus(k)
                     /\ held[k] \in RowStatus(k)
  BY RowValueTyped DEF TypeOK
<1>2. \A k \in Row : seen'[k] \in RowStatus(k) /\ held'[k] \in RowStatus(k)
  BY <1>1 DEF Assign
<1>3. /\ seen' \in [Row -> Status \union BindingStatus]
      /\ held' \in [Row -> Status \union BindingStatus]
  BY <1>2, StatusesAreTyped DEF Assign
<1>4. QED
  BY <1>2, <1>3 DEF RowValues

LEMMA InsertOrAssignTyped ==
  ASSUME TypeOK, NEW k \in Row, NEW s \in RowStatus(k), InsertOrAssign(k, s)
  PROVE  /\ added' \in RowValues /\ seen' \in RowValues /\ held' \in RowValues
         /\ twice' \in BOOLEAN /\ broken' = broken
<1>1. CASE Loaded(k) = "NONE"
  <2>1. added' = [added EXCEPT ![k] = s] /\ UNCHANGED <<seen, held>>
    BY <1>1 DEF InsertOrAssign
  <2>2. twice' \in BOOLEAN
    BY <1>1 DEF InsertOrAssign, TypeOK
  <2>3. QED
    BY <2>1, <2>2, UpdateTyped DEF InsertOrAssign, TypeOK
<1>2. CASE Loaded(k) # "NONE"
  <2> DEFINE f == [t \in {"parcel", "binding"} |-> s]
  <2>1. Assign({k}, f) /\ UNCHANGED <<added, twice, broken>>
    BY <1>2 DEF InsertOrAssign
  <2>2. \A j \in {k} : f[j[1]] \in RowStatus(j)
    BY RowsAreOfParcels
  <2>3. QED
    BY <2>1, <2>2, AssignIsTyped DEF TypeOK
<1>3. QED
  BY <1>1, <1>2

LEMMA CommitIsTyped ==
  ASSUME TypeOK, SessionCommits
  PROVE  /\ local' \in RowValues /\ added' \in RowValues /\ seen' \in RowValues
         /\ held' \in RowValues /\ twice' \in BOOLEAN /\ broken' = broken
<1>1. \A k \in Row : /\ local[k] \in RowStatus(k)
                     /\ added[k] \in RowStatus(k)
                     /\ held[k] \in RowStatus(k)
  BY RowValueTyped DEF TypeOK
<1>2. \A k \in Row : local'[k] \in RowStatus(k)
  BY <1>1 DEF SessionCommits
<1>3. local' \in [Row -> Status \union BindingStatus]
  BY <1>2, StatusesAreTyped DEF SessionCommits
<1>4. QED
  BY <1>2, <1>3, EmptySessionTyped DEF SessionCommits, RowValues

(* What is dropped with a batch was about parcels. *)
LEMMA DropIsTyped ==
  ASSUME TypeOK, DropBatch
  PROVE  /\ missed' \subseteq Parcel
         /\ batch' \in Seq(DownEvent)
         /\ pulling' \in {"idle", "reply", "applying"}
<1>1. ParcelsIn(batch) \subseteq Parcel
  <2>1. \A i \in DOMAIN batch : batch[i] \in DownEvent
    BY DEF TypeOK
  <2>2. QED
    BY <2>1 DEF ParcelsIn, DownEvent
<1>2. RowsIn(added) \subseteq Parcel /\ RowsIn(held) \subseteq Parcel
  BY DEF RowsIn
<1>3. QED
  BY <1>1, <1>2 DEF DropBatch, TypeOK

(* Recording an event, queueing it and taking it from the queue. *)
LEMMA RecordIsTyped ==
  ASSUME TypeOK, NEW e \in UpEvent, RecordEvent(e)
  PROVE  /\ uploads' \in 0..MaxUpload
         /\ unqueued' \subseteq UpEvent
         /\ queue' \in Seq(UpEvent)
         /\ disordered' \subseteq Parcel
<1>1. {d.parcel : d \in {u \in unqueued : u.parcel = e.parcel}} \subseteq Parcel
  BY DEF TypeOK, UpEvent
<1>2. uploads' \in 0..MaxUpload
  BY ConstantsOK DEF TypeOK, RecordEvent
<1>3. QED
  BY <1>1, <1>2 DEF TypeOK, RecordEvent

LEMMA TakeIsTyped ==
  ASSUME TypeOK, NEW i \in DOMAIN queue, TakeFromQueue(i)
  PROVE  /\ queue' \in Seq(UpEvent)
         /\ disordered' \subseteq Parcel
         /\ queue[i].parcel \in Parcel
<1>1. queue \in Seq(UpEvent) /\ queue[i] \in UpEvent
  BY DEF TypeOK
<1>2. queue[i].parcel \in Parcel
  BY <1>1 DEF UpEvent
<1>3. Len(queue) - 1 \in Nat
  BY <1>1
<1>4. \A j \in 1..(Len(queue) - 1) : (IF j < i THEN queue[j] ELSE queue[j + 1]) \in UpEvent
  BY <1>1
<1>5. queue' \in Seq(UpEvent)
  BY <1>3, <1>4 DEF TakeFromQueue
<1>6. QED
  BY <1>2, <1>5 DEF TakeFromQueue, TypeOK

-----------------------------------------------------------------------------
LEMMA TypeInit == Init => TypeOK
<1> SUFFICES ASSUME Init PROVE TypeOK
  OBVIOUS
<1>1. /\ local \in RowValues /\ added \in RowValues
      /\ seen \in RowValues /\ held \in RowValues
  BY NoRowsTyped DEF Init
<1>2. /\ parcel \in [Parcel -> Status] /\ byCode \in [Parcel -> Status]
      /\ binding \in [Parcel -> BindingStatus]
  BY DEF Init, Status, BindingStatus
<1>3. uploads \in 0..MaxUpload
  BY ConstantsOK DEF Init
<1>4. outbox \in Seq(DownEvent) /\ batch \in Seq(DownEvent) /\ queue \in Seq(UpEvent)
  BY DEF Init
<1>5. QED
  BY <1>1, <1>2, <1>3, <1>4 DEF Init, TypeOK

(* Steps of the server's own end points *)
LEMMA ServerTyped ==
  ASSUME TypeOK, ServerNext PROVE TypeOK'
<1>1. CASE EnsureDemoData
  <2>1. outbox' \in Seq(DownEvent)
    BY <1>1, AnnounceIsTyped DEF EnsureDemoData, TypeOK
  <2>2. parcel' \in [Parcel -> Status] /\ binding' \in [Parcel -> BindingStatus]
    BY <1>1 DEF EnsureDemoData, TypeOK, Status, BindingStatus
  <2>3. reshelved' \subseteq Parcel
    BY <1>1 DEF EnsureDemoData
  <2>4. QED
    BY <1>1, <2>1, <2>2, <2>3 DEF EnsureDemoData, TypeOK, sessionVars, uploadVars, history
<1>2. ASSUME NEW p \in Parcel, CreateParcel(p) PROVE TypeOK'
  BY <1>2 DEF CreateParcel, TypeOK, Status, sessionVars, uploadVars, history
<1>3. ASSUME NEW p \in Patchable, NEW s \in Status, PatchParcelStatus(p, s) PROVE TypeOK'
  BY <1>3, ConstantsOK DEF PatchParcelStatus, TypeOK, sessionVars, uploadVars
<1>4. ASSUME NEW r \in Request, NEW id \in EventId, NEW p \in Parcel, CheckConfirm(r, id, p)
      PROVE  TypeOK'
  BY <1>4 DEF CheckConfirm, TypeOK, sessionVars, uploadVars, history
<1>5. ASSUME NEW x \in Request \X EventId \X Parcel, CommitConfirm(x) PROVE TypeOK'
  <2>1. x[2] \in EventId /\ x[3] \in Parcel
    BY <1>5
  <2>2. outbox' \in Seq(DownEvent)
    BY <1>5, <2>1, EventsAreTyped DEF CommitConfirm, RecordConfirm, TypeOK
  <2>3. /\ parcel' \in [Parcel -> Status]
        /\ binding' \in [Parcel -> BindingStatus]
        /\ confirmed' \subseteq EventId \X Parcel
        /\ confirming' \subseteq Request \X EventId \X Parcel
    BY <1>5, <2>1 DEF CommitConfirm, RecordConfirm, TypeOK, Status, BindingStatus
  <2>4. QED
    BY <1>5, <2>2, <2>3
       DEF CommitConfirm, RecordConfirm, TypeOK, sessionVars, uploadVars, history
<1>6. ASSUME NEW x \in Request \X EventId \X Parcel, ConfirmConflict(x) PROVE TypeOK'
  BY <1>6 DEF ConfirmConflict, TypeOK, sessionVars, uploadVars, history
<1>7. QED
  BY <1>1, <1>2, <1>3, <1>4, <1>5, <1>6 DEF ServerNext

(* Steps of events on their way up *)
LEMMA UploadTyped ==
  ASSUME TypeOK, UploadNext PROVE TypeOK'
<1>1. ASSUME NEW p \in Parcel, InboundParcel(p) PROVE TypeOK'
  <2>1. /\ uploads' \in 0..MaxUpload /\ unqueued' \subseteq UpEvent
        /\ queue' \in Seq(UpEvent) /\ disordered' \subseteq Parcel
    BY <1>1, EventsAreTyped, RecordIsTyped DEF InboundParcel
  <2>2. [local EXCEPT ![<<"parcel", p>>] = "WAITING_PICKUP"] \in RowValues
    BY UpdateTyped, ParcelsHaveRows, StatusesAreTyped DEF TypeOK, Status
  <2>3. local' \in RowValues /\ byCode' \in [Parcel -> Status]
    BY <1>1, <2>2 DEF InboundParcel, TypeOK, Status
  <2>4. QED
    BY <1>1, <2>1, <2>3 DEF InboundParcel, TypeOK, serverVars, sessionVars
<1>2. ASSUME NEW p \in Parcel, ConfirmPickup(p) PROVE TypeOK'
  <2>1. /\ uploads' \in 0..MaxUpload /\ unqueued' \subseteq UpEvent
        /\ queue' \in Seq(UpEvent) /\ disordered' \subseteq Parcel
    BY <1>2, EventsAreTyped, RecordIsTyped DEF ConfirmPickup
  <2> DEFINE first == [local EXCEPT ![<<"parcel", p>>] = "PICKED_UP"]
             both(s) == [first EXCEPT ![<<"binding", p>>] = s]
  <2>2. first \in RowValues
    BY UpdateTyped, ParcelsHaveRows, StatusesAreTyped DEF TypeOK, Status
  <2>3. \A s \in BindingStatus : both(s) \in RowValues
    <3>1. <<"binding", p>> \in Row /\ RowStatus(<<"binding", p>>) = BindingStatus
      BY ParcelsHaveRows, StatusesAreTyped
    <3> HIDE DEF first
    <3>2. QED
      BY <2>2, <3>1, UpdateTyped
  <2>4. local[<<"binding", p>>] \in BindingStatus
    <3>1. <<"binding", p>> \in Row /\ RowStatus(<<"binding", p>>) = BindingStatus
      BY ParcelsHaveRows, StatusesAreTyped
    <3>2. local \in RowValues
      BY DEF TypeOK
    <3>3. QED
      BY <3>1, <3>2, RowValueTyped
  <2>5. (IF local[<<"binding", p>>] = "ACTIVE" THEN "RELEASED" ELSE local[<<"binding", p>>])
           \in BindingStatus
    BY <2>4 DEF BindingStatus
  <2>6. local' \in RowValues /\ byCode' \in [Parcel -> Status]
    <3>1. CASE byCode[p] # "NONE"
      BY <1>2, <3>1 DEF ConfirmPickup, TypeOK, Status
    <3>2. CASE byCode[p] = "NONE"
      <4>1. local' = [local EXCEPT ![<<"parcel", p>>] = "PICKED_UP",
                         ![<<"binding", p>>] = IF @ = "ACTIVE" THEN "RELEASED" ELSE @]
        BY <1>2, <3>2 DEF ConfirmPickup
      <4>2. <<"parcel", p>> # <<"binding", p>>
        OBVIOUS
      <4>3. local' = both(IF local[<<"binding", p>>] = "ACTIVE" THEN "RELEASED"
                          ELSE local[<<"binding", p>>])
        BY <4>1, <4>2, RowValueTyped, ParcelsHaveRows DEF TypeOK
      <4> HIDE DEF both
      <4>4. QED
        BY <1>2, <2>3, <2>5, <3>2, <4>3 DEF ConfirmPickup, TypeOK
    <3>3. QED
      BY <3>1, <3>2
  <2>7. QED
    BY <1>2, <2>1, <2>6 DEF ConfirmPickup, TypeOK, serverVars, sessionVars
<1>3. ASSUME NEW e \in UpEvent, EnqueueEventUpload(e) PROVE TypeOK'
  BY <1>3 DEF EnqueueEventUpload, TypeOK, serverVars, sessionVars, history
<1>4. ASSUME NEW i \in 1..MaxUpload, ApplyInbound(i) PROVE TypeOK'
  <2>1. /\ queue' \in Seq(UpEvent) /\ disordered' \subseteq Parcel
        /\ queue[i].parcel \in Parcel
    BY <1>4, TakeIsTyped DEF ApplyInbound, Deliverable
  <2>2. parcel' \in [Parcel -> Status] /\ reshelved' \subseteq Parcel
    BY <1>4, <2>1 DEF ApplyInbound, TypeOK, Status
  <2>3. QED
    BY <1>4, <2>1, <2>2 DEF ApplyInbound, TypeOK, sessionVars
<1>5. ASSUME NEW i \in 1..MaxUpload, ApplyPickup(i) PROVE TypeOK'
  <2>1. /\ queue' \in Seq(UpEvent) /\ disordered' \subseteq Parcel
        /\ queue[i].parcel \in Parcel
    BY <1>5, TakeIsTyped DEF ApplyPickup, Deliverable
  <2>2. parcel' \in [Parcel -> Status] /\ offline' \subseteq Parcel
    BY <1>5, <2>1 DEF ApplyPickup, TypeOK, Status
  <2>3. QED
    BY <1>5, <2>1, <2>2 DEF ApplyPickup, TypeOK, sessionVars
<1>6. ASSUME NEW p \in Plantable, SeedDemoGate(p) PROVE TypeOK'
  BY <1>6, ConstantsOK DEF SeedDemoGate, TypeOK, Status, serverVars, sessionVars, uploadVars
<1>7. QED
  BY <1>1, <1>2, <1>3, <1>4, <1>5, <1>6 DEF UploadNext

(* Steps of the pull *)
LEMMA PullTyped ==
  ASSUME TypeOK, PullNext PROVE TypeOK'
<1>1. CASE ServePull
  BY <1>1 DEF ServePull, TypeOK, serverVars, sessionVars, uploadVars, history
<1>2. CASE ReceiveReply
  BY <1>2 DEF ReceiveReply, TypeOK, serverVars, sessionVars, uploadVars, history
<1>3. ASSUME batch' = Tail(batch), batch # <<>> PROVE batch' \in Seq(DownEvent)
  BY <1>3, HeadIsTyped
<1>4. CASE ApplyUpsert
  <2>1. /\ <<"parcel", Head(batch).parcel>> \in Row
        /\ "WAITING_PICKUP" \in RowStatus(<<"parcel", Head(batch).parcel>>)
    BY <1>4, HeadIsTyped, ParcelsHaveRows, StatusesAreTyped DEF ApplyUpsert, NextEventIs, Status
  <2>2. /\ added' \in RowValues /\ seen' \in RowValues /\ held' \in RowValues
        /\ twice' \in BOOLEAN /\ broken' = broken
    BY <1>4, <2>1, InsertOrAssignTyped DEF ApplyUpsert
  <2>3. QED
    BY <1>3, <1>4, <2>2 DEF ApplyUpsert, NextEventIs, TypeOK, serverVars, uploadVars, history
<1>5. CASE ApplyBind
  <2>1. /\ <<"binding", Head(batch).parcel>> \in Row
        /\ "ACTIVE" \in RowStatus(<<"binding", Head(batch).parcel>>)
    BY <1>5, HeadIsTyped, ParcelsHaveRows, StatusesAreTyped
       DEF ApplyBind, NextEventIs, BindingStatus
  <2>2. /\ added' \in RowValues /\ seen' \in RowValues /\ held' \in RowValues
        /\ twice' \in BOOLEAN /\ broken' = broken
    BY <1>5, <2>1, InsertOrAssignTyped DEF ApplyBind
  <2>3. QED
    BY <1>3, <1>5, <2>2 DEF ApplyBind, NextEventIs, TypeOK, serverVars, uploadVars, history
<1>6. CASE ApplyConfirmed
  <2> DEFINE found == FoundRows(Head(batch).parcel)
             values == [parcel |-> "PICKED_UP", binding |-> "RELEASED"]
  <2>1. Head(batch).parcel \in Parcel
    BY <1>6, HeadIsTyped DEF ApplyConfirmed, SetConfirmed, NextEventIs
  <2>2. found \in SUBSET Row
    BY <2>1 DEF FoundRows, Row
  <2>3. \A k \in Row : values[k[1]] \in RowStatus(k)
    BY RowsAreOfParcels, StatusesAreTyped DEF Status, BindingStatus
  <2>4. Assign(found, values)
    BY <1>6 DEF ApplyConfirmed, SetConfirmed
  <2>5. seen' \in RowValues /\ held' \in RowValues
    <3> HIDE DEF found, values
    <3>1. QED
      BY <2>2, <2>3, <2>4, AssignIsTyped
  <2>6. missed' \subseteq Parcel
    BY <1>6, <2>1 DEF ApplyConfirmed, SetConfirmed, TypeOK
  <2>7. QED
    BY <1>3, <1>6, <2>5, <2>6
       DEF ApplyConfirmed, SetConfirmed, NextEventIs, TypeOK, serverVars, uploadVars
<1>7. CASE CommitBatch
  BY <1>7, CommitIsTyped DEF CommitBatch, TypeOK, serverVars, uploadVars, history
<1>8. CASE CommitEarly
  BY <1>8, CommitIsTyped DEF CommitEarly, TypeOK, serverVars, uploadVars, history
<1>9. ASSUME DropBatch,
             \/ UNCHANGED sessionVars
             \/ EmptySession /\ broken' \in BOOLEAN
      PROVE  TypeOK'
  <2>1. /\ added' \in RowValues /\ seen' \in RowValues /\ held' \in RowValues
        /\ twice' \in BOOLEAN /\ broken' \in BOOLEAN
    BY <1>9, EmptySessionTyped DEF sessionVars, TypeOK
  <2>2. QED
    BY <1>9, <2>1, DropIsTyped DEF DropBatch, TypeOK, serverVars, uploadVars
<1>10. CASE CommitFails \/ Restart
  BY <1>9, <1>10 DEF CommitFails, Restart
<1>11. CASE ReceiveOnBrokenSession \/ LoseReply
  BY <1>9, <1>11 DEF ReceiveOnBrokenSession, LoseReply
<1>12. QED
  BY <1>1, <1>2, <1>4, <1>5, <1>6, <1>7, <1>8, <1>10, <1>11 DEF PullNext

LEMMA TypeStep == TypeOK /\ [Next]_vars => TypeOK'
<1>1. ASSUME TypeOK, UNCHANGED vars PROVE TypeOK'
  BY <1>1 DEF vars, TypeOK
<1>2. QED
  BY <1>1, ServerTyped, UploadTyped, PullTyped DEF Next

(* Type correctness: every variable holds values of its kind in every      *)
(* reachable state.                                                        *)
THEOREM TypeCorrect == Spec => []TypeOK
  BY TypeInit, TypeStep, PTL DEF Spec

-----------------------------------------------------------------------------
(* The server's tables agree *)

(* A confirmation is on record for its parcel and changes no other.        *)
LEMMA ConfirmedGrows ==
  ASSUME NEW id, NEW q, confirmed' = confirmed \union {<<id, q>>}
  PROVE  \A p \in Parcel : Confirmed(p)' <=> Confirmed(p) \/ p = q
<1>1. <<id, q>>[2] = q
  OBVIOUS
<1>2. \A y : y \in confirmed' <=> y \in confirmed \/ y = <<id, q>>
  OBVIOUS
<1>3. QED
  BY <1>1, <1>2 DEF Confirmed

LEMMA RecordInit == Init => PickupIsOnRecord
  BY DEF Init, PickupIsOnRecord, Confirmed, HasPickupEvent

LEMMA RecordStep == TypeOK /\ PickupIsOnRecord /\ [Next]_vars => PickupIsOnRecord'
<1> SUFFICES ASSUME TypeOK, PickupIsOnRecord, [Next]_vars PROVE PickupIsOnRecord'
  OBVIOUS
<1> USE DEF PickupIsOnRecord, HasPickupEvent
<1>1. CASE EnsureDemoData
  BY <1>1 DEF EnsureDemoData, TypeOK, Confirmed, history
<1>2. ASSUME NEW p \in Parcel, CreateParcel(p) PROVE PickupIsOnRecord'
  BY <1>2 DEF CreateParcel, TypeOK, Confirmed, history
<1>3. ASSUME NEW p \in Patchable, NEW s \in Status, PatchParcelStatus(p, s)
      PROVE  PickupIsOnRecord'
  BY <1>3 DEF PatchParcelStatus, TypeOK, Confirmed
<1>4. ASSUME NEW x \in Request \X EventId \X Parcel, CommitConfirm(x) PROVE PickupIsOnRecord'
  <2>1. /\ x[3] \in Parcel
        /\ parcel' = [parcel EXCEPT ![x[3]] = "PICKED_UP"]
        /\ binding' = [binding EXCEPT ![x[3]] = "RELEASED"]
        /\ confirmed' = confirmed \union {<<x[2], x[3]>>}
        /\ UNCHANGED <<offline, patched>>
    BY <1>4 DEF CommitConfirm, RecordConfirm, history
  <2>2. \A p \in Parcel : Confirmed(p)' <=> Confirmed(p) \/ p = x[3]
    BY <2>1, ConfirmedGrows
  <2>3. QED
    BY <2>1, <2>2 DEF TypeOK
<1>5. ASSUME NEW i \in 1..MaxUpload, ApplyInbound(i) \/ ApplyPickup(i) PROVE PickupIsOnRecord'
  <2>1. UNCHANGED <<binding, confirmed, patched>>
    BY <1>5 DEF ApplyInbound, ApplyPickup
  <2>2. \A p \in Parcel : p \in offline => p \in offline'
    BY <1>5 DEF ApplyInbound, ApplyPickup, serverVars
  <2>3. \A p \in Parcel : parcel'[p] = "PICKED_UP" => parcel[p] = "PICKED_UP" \/ p \in offline'
    BY <1>5 DEF ApplyInbound, ApplyPickup, TypeOK
  <2>4. QED
    BY <2>1, <2>2, <2>3 DEF Confirmed
<1>6. CASE UNCHANGED <<parcel, binding, offline, confirmed, patched>>
  BY <1>6 DEF Confirmed
<1>7. ASSUME \/ PullNext
             \/ \E r \in Request, id \in EventId, p \in Parcel : CheckConfirm(r, id, p)
             \/ \E x \in Request \X EventId \X Parcel : ConfirmConflict(x)
             \/ \E p \in Parcel : InboundParcel(p) \/ ConfirmPickup(p)
             \/ \E p \in Plantable : SeedDemoGate(p)
             \/ \E e \in UpEvent : EnqueueEventUpload(e)
             \/ UNCHANGED vars
      PROVE  UNCHANGED <<parcel, binding, offline, confirmed, patched>>
  <2>1. CASE PullNext
    BY <2>1 DEF PullNext, ServePull, ReceiveReply, ApplyUpsert, ApplyBind, ApplyConfirmed,
                SetConfirmed, CommitBatch, CommitEarly, CommitFails, ReceiveOnBrokenSession,
                LoseReply, Restart, DropBatch, serverVars, history
  <2>2. CASE ~ PullNext
    BY <1>7, <2>2 DEF CheckConfirm, ConfirmConflict, InboundParcel, ConfirmPickup,
                      SeedDemoGate, EnqueueEventUpload, vars, serverVars, history
  <2>3. QED
    BY <2>1, <2>2
<1>8. QED
  BY <1>1, <1>2, <1>3, <1>4, <1>5, <1>6, <1>7 DEF Next, ServerNext, UploadNext

(* However confirmations, offline pickups, re-registrations and the        *)
(* administrator interleave, a binding is released exactly when a user's   *)
(* confirmation is on record, and a parcel is PICKED_UP only with a pickup *)
(* event or by the administrator's hand.                                   *)
THEOREM TablesAgree == Spec => []PickupIsOnRecord
  BY RecordInit, RecordStep, TypeCorrect, PTL DEF Spec

-----------------------------------------------------------------------------
(* What comes down to the gateway is true of the server *)

NewsTrue(events) ==
    \A i \in DOMAIN events :
       events[i].kind = "CONFIRMED" => Confirmed(events[i].parcel)

(* The session makes a parcel PICKED_UP only for a confirmation.           *)
SessionTrue ==
    \A p \in Parcel :
       /\ added[<<"parcel", p>>] # "PICKED_UP"
       /\ held[<<"parcel", p>>] = "PICKED_UP" => Confirmed(p)

NewsInv == TypeOK /\ NewsTrue(outbox) /\ NewsTrue(batch) /\ SessionTrue

LEMMA NewsInit == Init => NewsInv
<1> SUFFICES ASSUME Init PROVE NewsTrue(outbox) /\ NewsTrue(batch) /\ SessionTrue
  BY TypeInit DEF NewsInv
<1>1. NewsTrue(outbox) /\ NewsTrue(batch)
  BY DEF Init, NewsTrue
<1>2. SessionTrue
  BY ParcelsHaveRows DEF Init, SessionTrue, NoRows
<1>3. QED
  BY <1>1, <1>2

(* Pickup events stay on record. *)
LEMMA RecordsLast ==
  ASSUME [Next]_vars
  PROVE  confirmed \subseteq confirmed' /\ offline \subseteq offline'
<1>1. CASE ServerNext
  BY <1>1 DEF ServerNext, EnsureDemoData, CreateParcel, PatchParcelStatus, CheckConfirm,
              CommitConfirm, RecordConfirm, ConfirmConflict
<1>2. CASE UploadNext
  BY <1>2 DEF UploadNext, InboundParcel, ConfirmPickup, SeedDemoGate, EnqueueEventUpload, ApplyInbound,
              ApplyPickup, serverVars
<1>3. CASE PullNext
  BY <1>3 DEF PullNext, ServePull, ReceiveReply, ApplyUpsert, ApplyBind, ApplyConfirmed,
              SetConfirmed, CommitBatch, CommitEarly, CommitFails, ReceiveOnBrokenSession,
              LoseReply, Restart, DropBatch, serverVars
<1>4. QED
  BY <1>1, <1>2, <1>3 DEF Next, vars

LEMMA NewsLasts ==
  ASSUME [Next]_vars
  PROVE  /\ NewsTrue(outbox) /\ outbox' = outbox => NewsTrue(outbox)'
         /\ NewsTrue(batch) /\ batch' = batch => NewsTrue(batch)'
         /\ NewsTrue(outbox) /\ batch' = outbox => NewsTrue(batch)'
         /\ SessionTrue /\ added' = added /\ held' = held => SessionTrue'
  BY RecordsLast DEF NewsTrue, SessionTrue, Confirmed

LEMMA BatchNewsTrue ==
  ASSUME NewsInv, batch # <<>>
  PROVE  /\ NewsTrue(Tail(batch))
         /\ Head(batch).kind = "CONFIRMED" => Confirmed(Head(batch).parcel)
<1>1. batch \in Seq(DownEvent) /\ NewsTrue(batch)
  BY DEF NewsInv, TypeOK
<1>2. \A i \in DOMAIN Tail(batch) : i + 1 \in DOMAIN batch /\ Tail(batch)[i] = batch[i + 1]
  BY <1>1
<1>3. 1 \in DOMAIN batch /\ Head(batch) = batch[1]
  BY <1>1
<1>4. QED
  BY <1>1, <1>2, <1>3 DEF NewsTrue

LEMMA ServerKeepsNews ==
  ASSUME NewsInv, ServerNext PROVE NewsInv'
<1> USE DEF NewsInv
<1>1. [Next]_vars /\ TypeOK'
  BY ServerTyped DEF Next
<1>2. UNCHANGED <<batch, added, held>>
  BY DEF ServerNext, EnsureDemoData, CreateParcel, PatchParcelStatus, CheckConfirm,
         CommitConfirm, RecordConfirm, ConfirmConflict, sessionVars
<1>3. NewsTrue(batch)' /\ SessionTrue'
  BY <1>1, <1>2, NewsLasts
<1>4. CASE EnsureDemoData
  <2>1. \A i \in DOMAIN outbox' : \/ i \in DOMAIN outbox /\ outbox'[i] = outbox[i]
                                  \/ outbox'[i].kind # "CONFIRMED"
    BY <1>4, OutboxAfterDemo
  <2>2. NewsTrue(outbox)'
    BY <1>4, <2>1 DEF EnsureDemoData, NewsTrue, Confirmed
  <2>3. QED
    BY <1>1, <1>3, <2>2
<1>5. ASSUME NEW x \in Request \X EventId \X Parcel, CommitConfirm(x) PROVE NewsTrue(outbox)'
  <2>1. /\ outbox \in Seq(DownEvent)
        /\ outbox' = Append(outbox, Down("CONFIRMED", x[3]))
        /\ confirmed' = confirmed \union {<<x[2], x[3]>>}
    BY <1>5 DEF CommitConfirm, RecordConfirm, TypeOK
  <2>2. Confirmed(x[3])' /\ x[3] \in Parcel
    BY <1>5, <2>1, ConfirmedGrows
  <2>3. Down("CONFIRMED", x[3]).parcel = x[3]
    BY DEF Down
  <2>4. ASSUME NEW i \in DOMAIN outbox', outbox'[i].kind = "CONFIRMED"
        PROVE  Confirmed(outbox[i].parcel)'
    <3>1. CASE i \in DOMAIN outbox
      <4>1. outbox'[i] = outbox[i]
        BY <2>1, <3>1
      <4>2. Confirmed(outbox[i].parcel)
        BY <2>4, <3>1, <4>1 DEF NewsTrue
      <4>3. QED
        BY <2>1, <4>1, <4>2 DEF Confirmed
    <3>2. CASE i \notin DOMAIN outbox
      <4>1. outbox'[i] = Down("CONFIRMED", x[3])
        BY <2>1, <2>4, <3>2
      <4>2. QED
        BY <2>2, <2>3, <4>1
    <3>3. QED
      BY <3>1, <3>2
  <2>5. QED
    BY <2>4 DEF NewsTrue
<1>6. CASE outbox' = outbox
  BY <1>1, <1>3, <1>6, NewsLasts
<1>7. QED
  BY <1>1, <1>3, <1>4, <1>5, <1>6
     DEF ServerNext, CreateParcel, PatchParcelStatus, CheckConfirm, ConfirmConflict

(* An UPSERT makes a parcel WAITING_PICKUP; a BIND touches bindings only.  *)
LEMMA InsertKeepsSession ==
  ASSUME NewsInv, NEW k \in Row, NEW s, InsertOrAssign(k, s),
         k[1] = "parcel" => s = "WAITING_PICKUP",
         confirmed \subseteq confirmed'
  PROVE  SessionTrue'
<1>1. added \in [Row -> Status \union BindingStatus] /\ held \in [Row -> Status \union BindingStatus]
  BY DEF NewsInv, TypeOK, RowValues
<1>2. ASSUME NEW p \in Parcel, NEW row, row = <<"parcel", p>>
      PROVE  /\ added'[row] # "PICKED_UP"
             /\ held'[row] = "PICKED_UP" => Confirmed(p)'
  <2>1. row \in Row /\ row[1] = "parcel"
    BY <1>2, ParcelsHaveRows
  <2>2. /\ added[row] # "PICKED_UP"
        /\ held[row] = "PICKED_UP" => Confirmed(p)
    BY <1>2 DEF NewsInv, SessionTrue
  <2>3. Confirmed(p) => Confirmed(p)'
    BY DEF Confirmed
  <2>4. added'[row] = added[row] \/ added'[row] = "WAITING_PICKUP"
    BY <1>1, <2>1 DEF InsertOrAssign
  <2>5. held'[row] = held[row] \/ held'[row] = "WAITING_PICKUP"
    BY <1>1, <2>1 DEF InsertOrAssign, Assign
  <2>6. QED
    BY <2>2, <2>3, <2>4, <2>5
<1>3. QED
  BY <1>2 DEF SessionTrue

LEMMA PullKeepsNews ==
  ASSUME NewsInv, PullNext PROVE NewsInv'
<1> USE DEF NewsInv
<1>1. [Next]_vars /\ TypeOK' /\ confirmed \subseteq confirmed'
  BY PullTyped, RecordsLast DEF Next
<1>2. CASE ServePull
  <2>1. NewsTrue(outbox)'
    BY <1>2 DEF ServePull, NewsTrue
  <2>2. QED
    BY <1>1, <1>2, <2>1, NewsLasts DEF ServePull, sessionVars
<1>3. CASE ReceiveReply
  BY <1>1, <1>3, NewsLasts DEF ReceiveReply, sessionVars
<1>4. CASE ApplyUpsert \/ ApplyBind \/ ApplyConfirmed
  <2>1. outbox' = outbox /\ batch' = Tail(batch) /\ batch # <<>> /\ confirmed' = confirmed
    BY <1>4 DEF ApplyUpsert, ApplyBind, ApplyConfirmed, SetConfirmed, NextEventIs, serverVars
  <2>2. NewsTrue(outbox)' /\ NewsTrue(batch)'
    BY <1>1, <2>1, NewsLasts, BatchNewsTrue DEF NewsTrue, Confirmed
  <2>3. Head(batch).parcel \in Parcel
    BY <2>1, HeadIsTyped
  <2>4. ASSUME ApplyUpsert \/ ApplyBind PROVE SessionTrue'
    BY <1>1, <2>3, <2>4, ParcelsHaveRows, InsertKeepsSession DEF ApplyUpsert, ApplyBind
  <2>5. ASSUME ApplyConfirmed PROVE SessionTrue'
    <3>1. Confirmed(Head(batch).parcel)
      BY <2>1, <2>5, BatchNewsTrue DEF ApplyConfirmed, SetConfirmed, NextEventIs
    <3>2. ASSUME NEW p \in Parcel, NEW row, row = <<"parcel", p>>
          PROVE  /\ added'[row] # "PICKED_UP"
                 /\ held'[row] = "PICKED_UP" => Confirmed(p)'
      <4>1. added'[row] # "PICKED_UP" /\ row \in Row /\ row[2] = p
        BY <2>5, <3>2, ParcelsHaveRows DEF ApplyConfirmed, SetConfirmed, SessionTrue
      <4>2. CASE p = Head(batch).parcel
        BY <2>1, <3>1, <4>1, <4>2 DEF Confirmed
      <4>3. CASE p # Head(batch).parcel
        <5>1. row \notin FoundRows(Head(batch).parcel)
          BY <4>1, <4>3 DEF FoundRows
        <5>2. held'[row] = held[row]
          BY <2>5, <4>1, <5>1 DEF ApplyConfirmed, SetConfirmed, Assign
        <5>3. QED
          BY <2>1, <3>2, <4>1, <5>2 DEF SessionTrue, Confirmed
      <4>4. QED
        BY <4>2, <4>3, <4>1
    <3>3. QED
      BY <3>2 DEF SessionTrue
  <2>6. QED
    BY <1>1, <1>4, <2>2, <2>4, <2>5
<1>5. ASSUME EmptySession PROVE SessionTrue'
  <2>1. added' = NoRows /\ held' = NoRows
    BY <1>5 DEF EmptySession
  <2>2. \A p \in Parcel : NoRows[<<"parcel", p>>] = "NONE"
    BY ParcelsHaveRows DEF NoRows
  <2>3. QED
    BY <2>1, <2>2 DEF SessionTrue
<1>6. CASE CommitBatch \/ CommitEarly
  BY <1>1, <1>5, <1>6, NewsLasts DEF CommitBatch, CommitEarly, SessionCommits
<1>7. CASE CommitFails \/ ReceiveOnBrokenSession \/ LoseReply \/ Restart
  <2>1. outbox' = outbox /\ batch' = <<>>
    BY <1>7 DEF CommitFails, ReceiveOnBrokenSession, LoseReply, Restart, DropBatch
  <2>2. NewsTrue(batch)'
    BY <2>1 DEF NewsTrue
  <2>3. EmptySession \/ UNCHANGED sessionVars
    BY <1>7 DEF CommitFails, ReceiveOnBrokenSession, LoseReply, Restart
  <2>4. SessionTrue'
    BY <1>1, <1>5, <2>3, NewsLasts DEF sessionVars
  <2>5. QED
    BY <1>1, <2>1, <2>2, <2>4, NewsLasts
<1>8. QED
  BY <1>2, <1>3, <1>4, <1>6, <1>7 DEF PullNext

LEMMA NewsStep == NewsInv /\ [Next]_vars => NewsInv'
<1>1. ASSUME NewsInv, UploadNext PROVE NewsInv'
  <2>1. UNCHANGED <<outbox, batch, added, held>>
    BY <1>1 DEF UploadNext, InboundParcel, ConfirmPickup, SeedDemoGate, EnqueueEventUpload, ApplyInbound,
                ApplyPickup, sessionVars
  <2>2. QED
    BY <1>1, <2>1, NewsLasts, UploadTyped DEF NewsInv, Next
<1>2. ASSUME NewsInv, UNCHANGED vars PROVE NewsInv'
  BY <1>2, NewsLasts, TypeStep DEF NewsInv, vars
<1>3. QED
  BY <1>1, <1>2, ServerKeepsNews, PullKeepsNews DEF Next

LEMMA NewsInvariance == Spec => []NewsInv
  BY NewsInit, NewsStep, PTL DEF Spec

-----------------------------------------------------------------------------
(* What the gateway knows of a parcel from the server, the server knows    *)

LEMMA ParcelStaysKnown ==
  ASSUME TypeOK, [Next]_vars, NEW p \in Parcel, parcel[p] # "NONE"
  PROVE  parcel'[p] # "NONE"
<1>1. ASSUME parcel' = parcel PROVE parcel'[p] # "NONE"
  BY <1>1
<1>2. CASE ServerNext
  BY <1>2 DEF ServerNext, EnsureDemoData, CreateParcel, PatchParcelStatus, CheckConfirm,
              CommitConfirm, RecordConfirm, ConfirmConflict, TypeOK
<1>3. CASE UploadNext
  BY <1>3 DEF UploadNext, InboundParcel, ConfirmPickup, SeedDemoGate, EnqueueEventUpload, ApplyInbound,
              ApplyPickup, serverVars, TypeOK
<1>4. CASE PullNext
  BY <1>1, <1>4 DEF PullNext, ServePull, ReceiveReply, ApplyUpsert, ApplyBind, ApplyConfirmed,
              SetConfirmed, CommitBatch, CommitEarly, CommitFails, ReceiveOnBrokenSession,
              LoseReply, Restart, DropBatch, serverVars
<1> QED
  BY <1>1, <1>2, <1>3, <1>4 DEF Next, vars

KnownEvents(events) == \A i \in DOMAIN events : parcel[events[i].parcel] # "NONE"

(* The gateway has a row under the server's number, or is about to.        *)
HasRow(k) == local[k] # "NONE" \/ added[k] # "NONE" \/ held[k] # "NONE"

KnownInv ==
    /\ TypeOK
    /\ KnownEvents(outbox) /\ KnownEvents(batch)
    /\ \A k \in Row : HasRow(k) => parcel[k[2]] # "NONE"

LEMMA KnownInit == Init => KnownInv
  BY TypeInit DEF Init, KnownInv, KnownEvents, HasRow, NoRows

LEMMA KnownLasts ==
  ASSUME KnownInv, [Next]_vars
  PROVE  /\ TypeOK'
         /\ outbox' = outbox => KnownEvents(outbox)'
         /\ batch' = batch => KnownEvents(batch)'
         /\ batch' = outbox => KnownEvents(batch)'
         /\ (\A k \in Row : HasRow(k)' => HasRow(k)) =>
               \A k \in Row : HasRow(k)' => parcel'[k[2]] # "NONE"
<1>1. /\ \A i \in DOMAIN outbox : outbox[i].parcel \in Parcel
      /\ \A i \in DOMAIN batch : batch[i].parcel \in Parcel
  BY EventsAreOfParcels DEF KnownInv, TypeOK
<1>2. TypeOK' /\ \A p \in Parcel : parcel[p] # "NONE" => parcel'[p] # "NONE"
  BY TypeStep, ParcelStaysKnown DEF KnownInv
<1>3. \A k \in Row : k[2] \in Parcel
  BY RowsAreOfParcels
<1> QED
  BY <1>1, <1>2, <1>3 DEF KnownInv, KnownEvents

LEMMA ServerKeepsKnown ==
  ASSUME KnownInv, ServerNext PROVE KnownInv'
<1>1. [Next]_vars /\ UNCHANGED <<batch, local, added, held>>
  BY DEF Next, ServerNext, EnsureDemoData, CreateParcel, PatchParcelStatus, CheckConfirm,
         CommitConfirm, RecordConfirm, ConfirmConflict, sessionVars
<1>2. CASE EnsureDemoData
  <2>1. \A p \in Seeded : parcel'[p] # "NONE"
    BY <1>2, SeededAreParcels DEF EnsureDemoData, KnownInv, TypeOK
  <2>2. \A i \in DOMAIN outbox : outbox[i].parcel \in Parcel
    BY EventsAreOfParcels DEF KnownInv, TypeOK
  <2>3. KnownEvents(outbox)'
    BY <1>1, <1>2, <2>1, <2>2, OutboxAfterDemo, ParcelStaysKnown DEF KnownInv, KnownEvents
  <2> QED
    BY <1>1, <2>3, KnownLasts DEF KnownInv, HasRow
<1>3. ASSUME NEW x \in Request \X EventId \X Parcel, CommitConfirm(x) PROVE KnownInv'
  <2>1. /\ outbox' = Append(outbox, Down("CONFIRMED", x[3])) /\ outbox \in Seq(DownEvent)
        /\ parcel' = [parcel EXCEPT ![x[3]] = "PICKED_UP"] /\ x[3] \in Parcel
    BY <1>3 DEF CommitConfirm, RecordConfirm, KnownInv, TypeOK
  <2>2. parcel'[x[3]] # "NONE" /\ Down("CONFIRMED", x[3]).parcel = x[3]
    BY <2>1 DEF Down, KnownInv, TypeOK
  <2>3. \A i \in DOMAIN outbox' : \/ i \in DOMAIN outbox /\ outbox'[i] = outbox[i]
                                  \/ outbox'[i] = Down("CONFIRMED", x[3])
    BY <2>1
  <2>4. \A i \in DOMAIN outbox : outbox[i].parcel \in Parcel
    BY <2>1, EventsAreOfParcels
  <2>5. KnownEvents(outbox)'
    BY <1>1, <2>2, <2>3, <2>4, ParcelStaysKnown DEF KnownInv, KnownEvents
  <2> QED
    BY <1>1, <2>5, KnownLasts DEF KnownInv, HasRow
<1>4. CASE outbox' = outbox
  BY <1>1, <1>4, KnownLasts DEF KnownInv, HasRow
<1> QED
  BY <1>2, <1>3, <1>4
     DEF ServerNext, CreateParcel, PatchParcelStatus, CheckConfirm, ConfirmConflict

LEMMA UploadKeepsKnown ==
  ASSUME KnownInv, UploadNext PROVE KnownInv'
<1>1. [Next]_vars /\ UNCHANGED <<outbox, batch, added, held>>
  BY DEF Next, UploadNext, InboundParcel, ConfirmPickup, SeedDemoGate, EnqueueEventUpload, ApplyInbound,
         ApplyPickup, sessionVars
<1>2. ASSUME NEW k \in Row, local'[k] # "NONE" PROVE local[k] # "NONE"
  <2>1. local \in [Row -> Status \union BindingStatus]
    BY DEF KnownInv, TypeOK, RowValues
  <2>2. ASSUME NEW p \in Parcel, InboundParcel(p) PROVE local[k] # "NONE"
    BY <1>2, <2>1, <2>2 DEF InboundParcel
  <2>3. ASSUME NEW p \in Parcel, ConfirmPickup(p) PROVE local[k] # "NONE"
    <3>1. CASE local' = local
      BY <1>2, <3>1
    <3>2. CASE /\ local[<<"parcel", p>>] # "NONE"
               /\ local' = [local EXCEPT ![<<"parcel", p>>] = "PICKED_UP",
                                         ![<<"binding", p>>] = IF @ = "ACTIVE" THEN "RELEASED" ELSE @]
      BY <1>2, <2>1, <3>2
    <3> QED
      BY <2>3, <3>1, <3>2 DEF ConfirmPickup
  <2>4. CASE local' = local
    BY <1>2, <2>4
  <2> QED
    BY <2>2, <2>3, <2>4 DEF UploadNext, SeedDemoGate, EnqueueEventUpload, ApplyInbound, ApplyPickup
<1> QED
  BY <1>1, <1>2, KnownLasts DEF KnownInv, HasRow

LEMMA PullKeepsKnown ==
  ASSUME KnownInv, PullNext PROVE KnownInv'
<1>1. [Next]_vars /\ parcel' = parcel
  BY DEF Next, PullNext, ServePull, ReceiveReply, ApplyUpsert, ApplyBind, ApplyConfirmed,
         SetConfirmed, CommitBatch, CommitEarly, CommitFails, ReceiveOnBrokenSession,
         LoseReply, Restart, DropBatch, serverVars
<1>2. /\ added \in [Row -> Status \union BindingStatus] /\ held \in [Row -> Status \union BindingStatus]
      /\ batch \in Seq(DownEvent)
  BY DEF KnownInv, TypeOK, RowValues
<1>3. CASE ServePull \/ ReceiveReply
  <2>1. UNCHANGED <<local, added, held>>
    BY <1>3 DEF ServePull, ReceiveReply, sessionVars
  <2>2. KnownEvents(outbox)' /\ KnownEvents(batch)'
    BY <1>1, <1>3, KnownLasts DEF ServePull, ReceiveReply, KnownEvents
  <2> QED
    BY <1>1, <2>1, <2>2, KnownLasts DEF KnownInv, HasRow
<1>4. CASE ApplyUpsert \/ ApplyBind \/ ApplyConfirmed
  <2>1. outbox' = outbox /\ batch' = Tail(batch) /\ batch # <<>> /\ local' = local
    BY <1>4 DEF ApplyUpsert, ApplyBind, ApplyConfirmed, SetConfirmed, NextEventIs
  <2>2. /\ \A i \in DOMAIN Tail(batch) : i + 1 \in DOMAIN batch /\ Tail(batch)[i] = batch[i + 1]
        /\ 1 \in DOMAIN batch /\ Head(batch) = batch[1]
    BY <1>2, <2>1
  <2>3. KnownEvents(batch)' /\ parcel[Head(batch).parcel] # "NONE" /\ Head(batch).parcel \in Parcel
    BY <1>1, <2>1, <2>2, HeadIsTyped DEF KnownInv, KnownEvents
  <2>4. ASSUME NEW k \in Row, HasRow(k)' PROVE parcel[k[2]] # "NONE"
    <3>1. CASE HasRow(k)
      BY <3>1 DEF KnownInv
    <3>2. CASE k[2] = Head(batch).parcel
      BY <2>3, <3>2
    <3>3. CASE k[2] # Head(batch).parcel
      <4>1. k # <<"parcel", Head(batch).parcel>> /\ k # <<"binding", Head(batch).parcel>>
        BY <3>3
      <4>2. k \notin FoundRows(Head(batch).parcel)
        BY <3>3, <4>1 DEF FoundRows
      <4>3. added'[k] = added[k] /\ held'[k] = held[k]
        BY <1>2, <1>4, <4>1, <4>2
           DEF ApplyUpsert, ApplyBind, ApplyConfirmed, SetConfirmed, InsertOrAssign, Assign
      <4> QED
        BY <2>1, <2>4, <4>3 DEF KnownInv, HasRow
    <3> QED
      BY <3>2, <3>3
  <2> QED
    BY <1>1, <2>1, <2>3, <2>4, KnownLasts DEF KnownInv, KnownEvents
<1>5. CASE CommitBatch \/ CommitEarly
  <2>1. outbox' = outbox /\ batch' = batch /\ SessionCommits
    BY <1>5 DEF CommitBatch, CommitEarly
  <2>2. ASSUME NEW k \in Row, HasRow(k)' PROVE HasRow(k)
    <3>1. added'[k] = "NONE" /\ held'[k] = "NONE"
      BY <2>1 DEF SessionCommits, EmptySession, NoRows
    <3>2. local'[k] \in {added[k], held[k], local[k]} /\ local'[k] # "NONE"
      BY <2>1, <2>2, <3>1 DEF SessionCommits, HasRow
    <3> QED
      BY <3>2 DEF HasRow
  <2> QED
    BY <1>1, <2>1, <2>2, KnownLasts DEF KnownInv
<1>6. CASE CommitFails \/ ReceiveOnBrokenSession \/ LoseReply \/ Restart
  <2>1. outbox' = outbox /\ batch' = <<>> /\ local' = local /\ (EmptySession \/ UNCHANGED sessionVars)
    BY <1>6 DEF CommitFails, ReceiveOnBrokenSession, LoseReply, Restart, DropBatch
  <2>2. \A k \in Row : HasRow(k)' => HasRow(k)
    BY <2>1 DEF HasRow, EmptySession, NoRows, sessionVars
  <2>3. KnownEvents(batch)'
    BY <2>1 DEF KnownEvents
  <2> QED
    BY <1>1, <2>1, <2>2, <2>3, KnownLasts DEF KnownInv
<1> QED
  BY <1>3, <1>4, <1>5, <1>6 DEF PullNext

LEMMA KnownStep == KnownInv /\ [Next]_vars => KnownInv'
<1>1. ASSUME KnownInv, UNCHANGED vars PROVE KnownInv'
  <2>1. /\ UNCHANGED <<outbox, batch>>
        /\ \A k \in Row : HasRow(k)' => HasRow(k)
    BY <1>1 DEF vars, HasRow
  <2> QED
    BY <1>1, <2>1, KnownLasts DEF KnownInv
<1> QED
  BY <1>1, ServerKeepsKnown, UploadKeepsKnown, PullKeepsKnown DEF Next

-----------------------------------------------------------------------------
(* An offline pickup is forgotten only if its code is a number and the     *)
(* server does not know the parcel                                         *)

(* The pickup's event is still on its way. *)
OnItsWay(p) ==
    \/ Up("PICKUP", p) \in unqueued
    \/ \E i \in DOMAIN queue : queue[i] = Up("PICKUP", p)

InboundOnItsWay(p) ==
    \/ Up("INBOUND", p) \in unqueued
    \/ \E i \in DOMAIN queue : queue[i] = Up("INBOUND", p)

(* The events of a parcel that the server does not know, and that was not  *)
(* made by seed-demo-gate, are on their way, the inbound first unless they *)
(* are disordered.                                                         *)
InOrder(p) ==
    /\ byCode[p] # "NONE" => InboundOnItsWay(p)
    /\ OnItsWay(p) => byCode[p] # "NONE"
    /\ p \notin disordered =>
          /\ ~ (Up("INBOUND", p) \in unqueued /\ Up("PICKUP", p) \in unqueued)
          /\ \A i \in DOMAIN queue : queue[i] = Up("PICKUP", p) =>
                \E j \in 1..(i - 1) : queue[j] = Up("INBOUND", p)

OrderInv == \A p \in Parcel \ planted : parcel[p] = "NONE" => InOrder(p)

LEMMA OrderInit == Init => OrderInv
  BY DEF Init, OrderInv, InOrder, OnItsWay

LEMMA UpsDiffer ==
  ASSUME NEW p \in Parcel, NEW q \in Parcel
  PROVE  /\ Up("INBOUND", p) # Up("PICKUP", q)
         /\ \A kind \in {"INBOUND", "PICKUP"} :
               /\ Up(kind, p).parcel = p /\ Up(kind, p).kind = kind
               /\ p # q => Up(kind, p) # Up(kind, q)
  BY DEF Up

(* Queueing an event keeps the order of its parcel's events.               *)
LEMMA EnqueueKeepsOrder ==
  ASSUME TypeOK, NEW e \in UpEvent, EnqueueEventUpload(e),
         NEW p \in Parcel, InOrder(p)
  PROVE  InOrder(p)'
<1> DEFINE in  == Up("INBOUND", p)
           out == Up("PICKUP", p)
<1>1. /\ e \in unqueued /\ unqueued' = unqueued \ {e} /\ queue' = Append(queue, e)
      /\ UNCHANGED <<byCode, disordered>> /\ queue \in Seq(UpEvent)
  BY DEF EnqueueEventUpload, history, TypeOK
<1>2. in # out
  BY UpsDiffer
<1> HIDE DEF in, out
<1>3. /\ Len(queue) \in Nat /\ DOMAIN queue = 1..Len(queue) /\ DOMAIN queue' = 1..(Len(queue) + 1)
      /\ queue'[Len(queue) + 1] = e /\ \A i \in DOMAIN queue : queue'[i] = queue[i]
  BY <1>1
<1>4. /\ byCode[p] # "NONE" => in \in unqueued \/ \E i \in DOMAIN queue : queue[i] = in
      /\ (out \in unqueued \/ \E i \in DOMAIN queue : queue[i] = out) => byCode[p] # "NONE"
      /\ p \notin disordered =>
            /\ ~ (in \in unqueued /\ out \in unqueued)
            /\ \A i \in DOMAIN queue : queue[i] = out => \E j \in 1..(i - 1) : queue[j] = in
  BY DEF InOrder, InboundOnItsWay, OnItsWay, in, out
<1>5. ASSUME NEW x
      PROVE  (x \in unqueued' \/ \E i \in DOMAIN queue' : queue'[i] = x)
             <=> (x \in unqueued \/ \E i \in DOMAIN queue : queue[i] = x)
  BY <1>1, <1>3
<1>6. ASSUME p \notin disordered, NEW i \in DOMAIN queue', queue'[i] = out
      PROVE  \E j \in 1..(i - 1) : queue'[j] = in
  <2>1. CASE i \in DOMAIN queue
    <3>1. PICK j \in 1..(i - 1) : queue[j] = in
      BY <1>3, <1>4, <1>6, <2>1
    <3> QED
      BY <1>3, <2>1, <3>1
  <2>2. CASE i = Len(queue) + 1
    <3>1. e = out /\ out \in unqueued /\ in \notin unqueued
      BY <1>1, <1>3, <1>4, <1>6, <2>2
    <3>2. PICK j \in DOMAIN queue : queue[j] = in
      BY <1>4, <3>1
    <3> QED
      BY <1>3, <2>2, <3>2
  <2> QED
    BY <1>3, <2>1, <2>2
<1>7. /\ byCode'[p] # "NONE" => in \in unqueued' \/ \E i \in DOMAIN queue' : queue'[i] = in
      /\ (out \in unqueued' \/ \E i \in DOMAIN queue' : queue'[i] = out) => byCode'[p] # "NONE"
      /\ p \notin disordered' =>
            /\ ~ (in \in unqueued' /\ out \in unqueued')
            /\ \A i \in DOMAIN queue' : queue'[i] = out => \E j \in 1..(i - 1) : queue'[j] = in
  BY <1>1, <1>4, <1>5, <1>6
<1> QED
  BY <1>7 DEF InOrder, InboundOnItsWay, OnItsWay, in, out

(* So does an event of it that takes effect without the parcel becoming    *)
(* known, which can only be a pickup that overtook.                        *)
LEMMA TakeKeepsOrder ==
  ASSUME TypeOK, NEW i \in DOMAIN queue, TakeFromQueue(i), UNCHANGED <<byCode, unqueued>>,
         NEW p \in Parcel, InOrder(p), queue[i] # Up("INBOUND", p)
  PROVE  /\ InOrder(p)'
         /\ queue[i] = Up("PICKUP", p) => p \in disordered'
<1> DEFINE in  == Up("INBOUND", p)
           out == Up("PICKUP", p)
           to(j) == IF j < i THEN j ELSE j - 1
<1>1. /\ queue' = [j \in 1..(Len(queue) - 1) |-> IF j < i THEN queue[j] ELSE queue[j + 1]]
      /\ disordered' = IF \E j \in 1..(i - 1) : queue[j].parcel = queue[i].parcel
                       THEN disordered \union {queue[i].parcel} ELSE disordered
      /\ queue \in Seq(UpEvent)
  BY DEF TakeFromQueue, TypeOK
<1>2. in.parcel = p /\ out.parcel = p /\ queue[i] # in
  BY UpsDiffer
<1> HIDE DEF in, out
<1>3. /\ DOMAIN queue = 1..Len(queue) /\ Len(queue) \in Nat /\ i \in 1..Len(queue)
      /\ DOMAIN queue' = 1..(Len(queue) - 1)
  BY <1>1
<1>4. /\ byCode[p] # "NONE" => in \in unqueued \/ \E k \in DOMAIN queue : queue[k] = in
      /\ (out \in unqueued \/ \E k \in DOMAIN queue : queue[k] = out) => byCode[p] # "NONE"
      /\ p \notin disordered =>
            /\ ~ (in \in unqueued /\ out \in unqueued)
            /\ \A k \in DOMAIN queue : queue[k] = out => \E j \in 1..(k - 1) : queue[j] = in
  BY DEF InOrder, InboundOnItsWay, OnItsWay, in, out
<1>5. ASSUME NEW j \in DOMAIN queue'
      PROVE  \E k \in DOMAIN queue : k # i /\ queue'[j] = queue[k] /\ j = to(k)
  <2>1. CASE j < i
    BY <1>1, <1>3, <2>1
  <2>2. CASE ~ (j < i)
    <3>1. j + 1 \in DOMAIN queue /\ j + 1 # i /\ queue'[j] = queue[j + 1] /\ j = to(j + 1)
      BY <1>1, <1>3, <2>2
    <3> QED
      BY <3>1
  <2> QED
    BY <2>1, <2>2
<1>6. ASSUME NEW k \in DOMAIN queue, k # i
      PROVE  to(k) \in DOMAIN queue' /\ queue'[to(k)] = queue[k]
  <2>1. CASE k < i
    BY <1>1, <1>3, <2>1
  <2>2. CASE k > i
    BY <1>1, <1>3, <2>2
  <2> QED
    BY <1>3, <1>6, <2>1, <2>2
<1>7. ASSUME p \notin disordered', NEW j \in DOMAIN queue', queue'[j] = out
      PROVE  \E m \in 1..(j - 1) : queue'[m] = in
  <2>1. PICK k \in DOMAIN queue : k # i /\ queue[k] = out /\ j = to(k)
    BY <1>5, <1>7
  <2>2. p \notin disordered
    BY <1>1, <1>7
  <2>3. PICK m \in 1..(k - 1) : queue[m] = in
    BY <1>4, <2>1, <2>2
  <2>4. m \in DOMAIN queue /\ m # i
    BY <1>2, <1>3, <2>1, <2>3
  <2>5. to(m) \in 1..(to(k) - 1)
    BY <1>3, <2>1, <2>3, <2>4
  <2> QED
    BY <1>6, <2>1, <2>3, <2>4, <2>5
<1>8. /\ byCode'[p] # "NONE" => in \in unqueued' \/ \E k \in DOMAIN queue' : queue'[k] = in
      /\ (out \in unqueued' \/ \E k \in DOMAIN queue' : queue'[k] = out) => byCode'[p] # "NONE"
      /\ p \notin disordered' => ~ (in \in unqueued' /\ out \in unqueued')
  <2> HIDE DEF to
  <2>1. (\E k \in DOMAIN queue : queue[k] = in) => \E k \in DOMAIN queue' : queue'[k] = in
    BY <1>2, <1>6
  <2>2. (\E k \in DOMAIN queue' : queue'[k] = out) => \E k \in DOMAIN queue : queue[k] = out
    BY <1>5
  <2>3. p \notin disordered' => p \notin disordered
    BY <1>1
  <2> QED
    BY <1>4, <2>1, <2>2, <2>3
<1>9. ASSUME queue[i] = out PROVE p \in disordered'
  <2>1. CASE p \in disordered
    BY <1>1, <2>1
  <2>2. CASE p \notin disordered
    <3>1. \E j \in 1..(i - 1) : queue[j] = in
      BY <1>4, <1>9, <2>2
    <3> QED
      BY <1>1, <1>2, <1>9, <3>1
  <2> QED
    BY <2>1, <2>2
<1> QED
  BY <1>7, <1>8, <1>9 DEF InOrder, InboundOnItsWay, OnItsWay, in, out

(* A command that finds another event of the parcel not queued yet may     *)
(* overtake it; the others keep the order.                                 *)
LEMMA CommandKeepsOrder ==
  ASSUME KnownInv, NEW q \in Parcel, InboundParcel(q) \/ ConfirmPickup(q),
         NEW p \in Parcel, parcel[p] = "NONE", InOrder(p)
  PROVE  InOrder(p)'
<1>1. local[<<"parcel", p>>] = "NONE" /\ <<"parcel", p>>[2] = p
  BY ParcelsHaveRows DEF KnownInv, HasRow
<1>2. byCode \in [Parcel -> Status] /\ queue' = queue
  BY DEF KnownInv, TypeOK, InboundParcel, ConfirmPickup, RecordEvent
<1>3. PICK e \in {Up("INBOUND", q), Up("PICKUP", q)} :
         /\ e = Up("INBOUND", q) => InboundParcel(q)
         /\ e = Up("PICKUP", q) => ConfirmPickup(q)
         /\ unqueued' = unqueued \union {e}
         /\ disordered' = disordered \union {d.parcel : d \in {u \in unqueued : u.parcel = e.parcel}}
  <2>1. CASE InboundParcel(q)
    BY <2>1, UpsDiffer DEF InboundParcel, RecordEvent
  <2>2. CASE ConfirmPickup(q)
    BY <2>2, UpsDiffer DEF ConfirmPickup, RecordEvent
  <2> QED
    BY <2>1, <2>2
<1>4. CASE q # p
  <2>1. byCode'[p] = byCode[p]
    BY <1>2, <1>4 DEF InboundParcel, ConfirmPickup
  <2>2. e # Up("INBOUND", p) /\ e # Up("PICKUP", p)
    BY <1>3, <1>4, UpsDiffer
  <2> QED
    BY <1>2, <1>3, <2>1, <2>2 DEF InOrder, InboundOnItsWay, OnItsWay
<1>5. CASE e = Up("INBOUND", p)
  <2>1. /\ Up("PICKUP", p) \in unqueued => p \in disordered'
        /\ e # Up("PICKUP", p)
    BY <1>3, <1>5, UpsDiffer
  <2>2. byCode'[p] # "NONE"
    BY <1>1, <1>2, <1>3, <1>5, UpsDiffer DEF InboundParcel
  <2> QED
    BY <1>2, <1>3, <1>5, <2>1, <2>2 DEF InOrder, InboundOnItsWay, OnItsWay
<1>6. CASE e = Up("PICKUP", p)
  <2>1. /\ Up("INBOUND", p) \in unqueued => p \in disordered'
        /\ e # Up("INBOUND", p)
    BY <1>3, <1>6, UpsDiffer
  <2>2. byCode[p] # "NONE" /\ byCode'[p] # "NONE"
    BY <1>1, <1>2, <1>3, <1>6, UpsDiffer DEF ConfirmPickup
  <2> QED
    BY <1>2, <1>3, <1>6, <2>1, <2>2 DEF InOrder, InboundOnItsWay, OnItsWay
<1> QED
  BY <1>3, <1>4, <1>5, <1>6

(* Events that overtook one another did so for good, and what a parcel's   *)
(* row was made by does not change.                                        *)
LEMMA HistoryLasts ==
  ASSUME [Next]_vars PROVE disordered \subseteq disordered' /\ planted \subseteq planted'
<1>1. CASE ServerNext
  BY <1>1 DEF ServerNext, EnsureDemoData, CreateParcel, PatchParcelStatus, CheckConfirm,
              CommitConfirm, RecordConfirm, ConfirmConflict, history
<1>2. CASE UploadNext
  BY <1>2 DEF UploadNext, InboundParcel, ConfirmPickup, SeedDemoGate, RecordEvent,
              EnqueueEventUpload, ApplyInbound, ApplyPickup, TakeFromQueue, history
<1>3. CASE PullNext
  BY <1>3 DEF PullNext, ServePull, ReceiveReply, ApplyUpsert, ApplyBind, ApplyConfirmed,
              SetConfirmed, CommitBatch, CommitEarly, CommitFails, ReceiveOnBrokenSession,
              LoseReply, Restart, DropBatch, history
<1> QED
  BY <1>1, <1>2, <1>3 DEF Next, vars

LEMMA OrderStep == KnownInv /\ OrderInv /\ [Next]_vars => OrderInv'
<1> SUFFICES ASSUME KnownInv, OrderInv, [Next]_vars,
                    NEW p \in Parcel \ planted', parcel'[p] = "NONE"
             PROVE  InOrder(p)'
  BY DEF OrderInv
<1>1. TypeOK /\ p \in Parcel /\ parcel[p] = "NONE" /\ InOrder(p)
  BY ParcelStaysKnown, HistoryLasts DEF KnownInv, OrderInv
<1>2. ASSUME UNCHANGED <<byCode, unqueued, queue, disordered>> PROVE InOrder(p)'
  BY <1>1, <1>2 DEF InOrder, InboundOnItsWay, OnItsWay
<1>3. ASSUME NEW i \in 1..MaxUpload, ApplyInbound(i) \/ ApplyPickup(i) PROVE InOrder(p)'
  <2>1. /\ i \in DOMAIN queue /\ TakeFromQueue(i) /\ UNCHANGED <<byCode, unqueued>>
    BY <1>3 DEF ApplyInbound, ApplyPickup, Deliverable
  <2>2. queue[i] # Up("INBOUND", p)
    <3>1. SUFFICES ASSUME queue[i] = Up("INBOUND", p) PROVE FALSE
      OBVIOUS
    <3>2. ApplyInbound(i) /\ queue[i].parcel = p
      BY <1>3, <3>1, UpsDiffer DEF ApplyPickup
    <3> QED
      BY <1>1, <3>2 DEF ApplyInbound, TypeOK
  <2> QED
    BY <1>1, <2>1, <2>2, TakeKeepsOrder
<1>4. CASE ServerNext
  BY <1>2, <1>4 DEF ServerNext, EnsureDemoData, CreateParcel, PatchParcelStatus, CheckConfirm,
                    CommitConfirm, RecordConfirm, ConfirmConflict, uploadVars, history
<1>5. CASE PullNext
  BY <1>2, <1>5 DEF PullNext, ServePull, ReceiveReply, ApplyUpsert, ApplyBind, ApplyConfirmed,
                    SetConfirmed, CommitBatch, CommitEarly, CommitFails, ReceiveOnBrokenSession,
                    LoseReply, Restart, DropBatch, uploadVars, history
<1>6. CASE UNCHANGED vars
  BY <1>2, <1>6 DEF vars
<1>7. ASSUME NEW q \in Plantable, SeedDemoGate(q) PROVE InOrder(p)'
  <2>1. byCode'[p] = byCode[p] /\ UNCHANGED <<unqueued, queue, disordered>>
    BY <1>1, <1>7 DEF SeedDemoGate, TypeOK, uploadVars
  <2> QED
    BY <1>1, <2>1 DEF InOrder, InboundOnItsWay, OnItsWay
<1> QED
  BY <1>1, <1>3, <1>4, <1>5, <1>6, <1>7, EnqueueKeepsOrder, CommandKeepsOrder DEF Next, UploadNext

LEMMA PickupInit == Init => ForgottenOnlyIfUnknown
<1> SUFFICES ASSUME Init, NEW p \in Parcel
             PROVE  "PICKED_UP" \notin {byCode[p], local[<<"parcel", p>>]}
  BY DEF ForgottenOnlyIfUnknown, PickupRemembered
<1>1. byCode[p] = "NONE" /\ local[<<"parcel", p>>] = "NONE"
  BY ParcelsHaveRows DEF Init, NoRows
<1>2. QED
  BY <1>1

(* Taking one event from the queue keeps all others in it.                 *)
LEMMA OthersStayQueued ==
  ASSUME TypeOK, NEW i \in DOMAIN queue, TakeFromQueue(i),
         NEW j \in DOMAIN queue, j # i
  PROVE  \E k \in DOMAIN queue' : queue'[k] = queue[j]
<1>1. queue \in Seq(UpEvent)
  BY DEF TypeOK
<1>2. queue' = [m \in 1..(Len(queue) - 1) |-> IF m < i THEN queue[m] ELSE queue[m + 1]]
  BY DEF TakeFromQueue
<1>3. CASE j < i
  BY <1>1, <1>2, <1>3
<1>4. CASE j > i
  <2>1. j - 1 \in 1..(Len(queue) - 1) /\ ~ (j - 1 < i)
    BY <1>1, <1>4
  <2>2. queue'[j - 1] = queue[j]
    BY <1>1, <1>2, <2>1
  <2>3. QED
    BY <1>2, <2>1, <2>2
<1>5. QED
  BY <1>1, <1>3, <1>4

(* An event on its way stays so until the server has recorded the pickup:  *)
(* that of a parcel it does not know it refuses, unless the code is a      *)
(* number; and then the pickup overtook the inbound, or none was sent.     *)
LEMMA WayEndsOnRecord ==
  ASSUME TypeOK, OrderInv, [Next]_vars, NEW p \in Parcel, OnItsWay(p)
  PROVE  OnItsWay(p)' \/ p \in offline' \/ p \in Numeric \intersect (disordered \union planted)'
<1> DEFINE e == Up("PICKUP", p)
<1>1. queue \in Seq(UpEvent) /\ e \in UpEvent /\ e.kind = "PICKUP" /\ e.parcel = p
  BY EventsAreTyped DEF TypeOK, Up
<1> HIDE DEF e
<1>2. OnItsWay(p) <=> e \in unqueued \/ \E i \in DOMAIN queue : queue[i] = e
  BY DEF OnItsWay, e
<1>3. OnItsWay(p)' <=> e \in unqueued' \/ \E i \in DOMAIN queue' : queue'[i] = e
  BY DEF OnItsWay, e
<1>4. ASSUME unqueued \subseteq unqueued', queue' = queue PROVE OnItsWay(p)'
  BY <1>2, <1>3, <1>4
<1>5. ASSUME NEW d \in UpEvent, EnqueueEventUpload(d) PROVE OnItsWay(p)'
  <2>1. queue' = Append(queue, d) /\ unqueued' = unqueued \ {d}
    BY <1>5 DEF EnqueueEventUpload
  <2>2. CASE e \in unqueued /\ e # d
    BY <1>3, <2>1, <2>2
  <2>3. CASE e = d
    <3>1. Len(queue) + 1 \in DOMAIN queue' /\ queue'[Len(queue) + 1] = d
      BY <1>1, <2>1
    <3>2. QED
      BY <1>3, <2>3, <3>1
  <2>4. CASE \E i \in DOMAIN queue : queue[i] = e
    <3>1. PICK i \in DOMAIN queue : queue[i] = e
      BY <2>4
    <3>2. i \in DOMAIN queue' /\ queue'[i] = e
      BY <1>1, <2>1, <3>1
    <3>3. QED
      BY <1>3, <3>2
  <2>5. QED
    BY <1>2, <2>2, <2>3, <2>4
<1>6. ASSUME NEW i \in 1..MaxUpload, ApplyInbound(i) \/ ApplyPickup(i)
      PROVE  OnItsWay(p)' \/ p \in offline' \/ p \in Numeric \intersect (disordered \union planted)'
  <2>1. /\ i \in DOMAIN queue /\ TakeFromQueue(i) /\ ~ Refused(queue[i])
        /\ UNCHANGED <<byCode, unqueued>>
    BY <1>6 DEF ApplyInbound, ApplyPickup, Deliverable
  <2>2. CASE e \in unqueued
    BY <1>3, <2>1, <2>2
  <2>3. CASE \E j \in DOMAIN queue : queue[j] = e /\ j # i
    BY <1>3, <2>1, <2>3, OthersStayQueued
  <2>4. CASE queue[i] = e
    <3>1. ApplyPickup(i)
      BY <1>1, <1>6, <2>4 DEF ApplyInbound
    <3>2. CASE parcel[p] # "NONE"
      BY <1>1, <2>4, <3>1, <3>2 DEF ApplyPickup
    <3>3. CASE parcel[p] = "NONE"
      <4>1. p \in Numeric /\ (InOrder(p) \/ p \in planted)
        BY <1>1, <2>1, <2>4, <3>3 DEF Refused, OrderInv
      <4>2. p \in disordered' \/ p \in planted'
        BY <1>1, <2>1, <2>4, <4>1, TakeKeepsOrder, HistoryLasts, UpsDiffer DEF e
      <4> QED
        BY <4>1, <4>2
    <3> QED
      BY <3>2, <3>3
  <2>5. QED
    BY <1>2, <2>2, <2>3, <2>4
<1>7. ASSUME NEW q \in Parcel, InboundParcel(q) \/ ConfirmPickup(q) PROVE OnItsWay(p)'
  BY <1>4, <1>7 DEF InboundParcel, ConfirmPickup, RecordEvent
<1>8. CASE ServerNext
  BY <1>4, <1>8 DEF ServerNext, EnsureDemoData, CreateParcel, PatchParcelStatus, CheckConfirm,
                    CommitConfirm, RecordConfirm, ConfirmConflict, uploadVars
<1>9. CASE PullNext
  BY <1>4, <1>9 DEF PullNext, ServePull, ReceiveReply, ApplyUpsert, ApplyBind, ApplyConfirmed,
                    SetConfirmed, CommitBatch, CommitEarly, CommitFails, ReceiveOnBrokenSession,
                    LoseReply, Restart, DropBatch, uploadVars
<1>10. ASSUME UNCHANGED vars \/ \E q \in Plantable : SeedDemoGate(q) PROVE OnItsWay(p)'
  BY <1>4, <1>10 DEF vars, SeedDemoGate, uploadVars
<1>11. QED
  BY <1>5, <1>6, <1>7, <1>8, <1>9, <1>10 DEF Next, UploadNext

(* A parcel becomes PICKED_UP at the station by an offline pickup, whose   *)
(* event is recorded in the same commit, or by a user's confirmation.      *)
LEMMA PickedUpForAReason ==
  ASSUME NewsInv, [Next]_vars, NEW p \in Parcel,
         "PICKED_UP" \in {byCode[p], local[<<"parcel", p>>]}',
         "PICKED_UP" \notin {byCode[p], local[<<"parcel", p>>]}
  PROVE  OnItsWay(p)' \/ Confirmed(p)
<1> DEFINE row == <<"parcel", p>>
<1>1. row \in Row /\ byCode \in [Parcel -> Status]
      /\ local \in [Row -> Status \union BindingStatus]
  BY ParcelsHaveRows DEF NewsInv, TypeOK, RowValues
<1>2. ASSUME NEW q \in Parcel, InboundParcel(q) PROVE FALSE
  BY <1>1, <1>2 DEF InboundParcel
<1>3. ASSUME NEW q \in Parcel, ConfirmPickup(q) PROVE OnItsWay(p)'
  <2>1. q = p
    <3>1. q # p => <<"parcel", q>> # row /\ <<"binding", q>> # row
      OBVIOUS
    <3>2. q # p => byCode'[p] = byCode[p] /\ local'[row] = local[row]
      BY <1>1, <1>3, <3>1 DEF ConfirmPickup
    <3>3. QED
      BY <3>2
  <2>2. QED
    BY <1>3, <2>1 DEF ConfirmPickup, RecordEvent, OnItsWay
<1>4. ASSUME SessionCommits, byCode' = byCode PROVE Confirmed(p)
  <2>1. local'[row] = "PICKED_UP"
    BY <1>4
  <2>2. added[row] = "PICKED_UP" \/ held[row] = "PICKED_UP"
    BY <1>1, <1>4, <2>1 DEF SessionCommits
  <2>3. QED
    BY <2>2 DEF NewsInv, SessionTrue
<1>5. CASE UNCHANGED <<byCode, local>>
  BY <1>5
<1>6. CASE ServerNext
  BY <1>5, <1>6 DEF ServerNext, EnsureDemoData, CreateParcel, PatchParcelStatus, CheckConfirm,
                    CommitConfirm, RecordConfirm, ConfirmConflict
<1>7. CASE PullNext
  BY <1>4, <1>5, <1>7
     DEF PullNext, ServePull, ReceiveReply, ApplyUpsert, ApplyBind, ApplyConfirmed,
         SetConfirmed, CommitBatch, CommitEarly, CommitFails, ReceiveOnBrokenSession,
         LoseReply, Restart, DropBatch
<1>8. ASSUME \/ \E e \in UpEvent : EnqueueEventUpload(e)
             \/ \E i \in 1..MaxUpload : ApplyInbound(i) \/ ApplyPickup(i)
             \/ UNCHANGED vars
      PROVE  FALSE
  BY <1>5, <1>8 DEF EnqueueEventUpload, ApplyInbound, ApplyPickup, vars
<1>9. ASSUME NEW q \in Plantable, SeedDemoGate(q) PROVE FALSE
  BY <1>1, <1>9 DEF SeedDemoGate
<1>10. QED
  BY <1>2, <1>3, <1>6, <1>7, <1>8, <1>9 DEF Next, UploadNext

LEMMA PickupStep ==
  NewsInv /\ OrderInv /\ ForgottenOnlyIfUnknown /\ [Next]_vars => ForgottenOnlyIfUnknown'
<1> SUFFICES ASSUME NewsInv, OrderInv, ForgottenOnlyIfUnknown, [Next]_vars, NEW p \in Parcel,
                    "PICKED_UP" \in {byCode[p], local[<<"parcel", p>>]}',
                    p \notin Numeric \intersect (disordered \union planted)'
             PROVE  HasPickupEvent(p)' \/ OnItsWay(p)'
  BY DEF ForgottenOnlyIfUnknown, PickupRemembered, OnItsWay
<1>1. HasPickupEvent(p) => HasPickupEvent(p)'
  BY RecordsLast DEF HasPickupEvent, Confirmed
<1>2. CASE "PICKED_UP" \in {byCode[p], local[<<"parcel", p>>]}
  <2>1. p \notin Numeric \intersect (disordered \union planted)
    BY HistoryLasts
  <2>2. HasPickupEvent(p) \/ OnItsWay(p)
    BY <1>2, <2>1 DEF ForgottenOnlyIfUnknown, PickupRemembered, OnItsWay
  <2>3. OnItsWay(p) => OnItsWay(p)' \/ HasPickupEvent(p)'
    BY WayEndsOnRecord DEF NewsInv, HasPickupEvent
  <2>4. QED
    BY <1>1, <2>2, <2>3
<1>3. CASE "PICKED_UP" \notin {byCode[p], local[<<"parcel", p>>]}
  BY <1>1, <1>3, PickedUpForAReason DEF HasPickupEvent
<1>4. QED
  BY <1>2, <1>3

(* A pickup that the gateway has on record is on record on the server or   *)
(* its event is still on its way, through failed and overtaken uploads,    *)
(* lost replies and restarts.  The only exception is a parcel whose code   *)
(* is a number and of which the server has not heard: its pickup overtook  *)
(* its inbound event, or seed-demo-gate made it, which sends none.         *)
THEOREM ForgottenUnknown == Spec => []ForgottenOnlyIfUnknown
<1>1. Init => KnownInv /\ OrderInv
  BY KnownInit, OrderInit
<1>2. KnownInv /\ OrderInv /\ [Next]_vars => (KnownInv /\ OrderInv)'
  BY KnownStep, OrderStep
<1>3. QED
  BY <1>1, <1>2, PickupInit, PickupStep, NewsInvariance, PTL DEF Spec

(* Where no parcel code is a number, no pickup is forgotten at all.        *)
THEOREM NothingForgotten ==
  ASSUME Numeric = {}
  PROVE  Spec => []NoPickupForgotten
<1>1. ForgottenOnlyIfUnknown => NoPickupForgotten
  BY DEF ForgottenOnlyIfUnknown, NoPickupForgotten
<1>2. QED
  BY <1>1, ForgottenUnknown, PTL

-----------------------------------------------------------------------------
(* A parcel of the gateway's own is unknown to the events from the server, *)
(* and its binding is never made.                                          *)

Own == Parcel \ Seeded

Rows(p) == {<<"parcel", p>>, <<"binding", p>>}

OwnInv ==
    /\ \A p \in Own : binding[p] = "NONE"
    /\ \A x \in confirming : x[3] \notin Own
    /\ \A i \in DOMAIN outbox : outbox[i].parcel \notin Own
    /\ \A i \in DOMAIN batch : batch[i].parcel \notin Own
    /\ \A p \in Own : \A k \in Rows(p) :
          local[k] = "NONE" /\ added[k] = "NONE" /\ held[k] = "NONE" /\ seen[k] = "NONE"


LEMMA RowsOfOwn ==
  ASSUME NEW p \in Parcel
  PROVE  /\ Rows(p) \subseteq Row
         /\ \A k \in Rows(p) : k[2] = p
         /\ \A q \in Parcel \ {p} : <<"parcel", q>> \notin Rows(p) /\ <<"binding", q>> \notin Rows(p)
  BY DEF Rows, Row

LEMMA OwnInit == Init => OwnInv
  BY RowsOfOwn DEF Init, OwnInv, NoRows, Own

LEMMA OwnServer ==
  ASSUME TypeOK, OwnInv, ServerNext PROVE OwnInv'
<1>0. UNCHANGED <<batch, local, added, held, seen>>
  BY DEF ServerNext, EnsureDemoData, CreateParcel, PatchParcelStatus, CheckConfirm,
         CommitConfirm, RecordConfirm, ConfirmConflict, sessionVars
<1>1. CASE EnsureDemoData
  <2>1. \A i \in DOMAIN outbox' : outbox'[i].parcel \notin Own
    BY <1>1, OutboxAfterDemo DEF OwnInv, Own
  <2>2. (\A p \in Own : binding'[p] = "NONE") /\ confirming' = confirming
    BY <1>1 DEF EnsureDemoData, OwnInv, Own
  <2> QED
    BY <1>0, <2>1, <2>2 DEF OwnInv
<1>2. ASSUME NEW x \in Request \X EventId \X Parcel, CommitConfirm(x) PROVE OwnInv'
  <2>1. x[3] \in Parcel \ Own /\ Down("CONFIRMED", x[3]).parcel = x[3]
    BY <1>2 DEF CommitConfirm, RecordConfirm, OwnInv, Down
  <2>2. outbox' = Append(outbox, Down("CONFIRMED", x[3])) /\ outbox \in Seq(DownEvent)
    BY <1>2 DEF CommitConfirm, RecordConfirm, TypeOK
  <2>3. \A i \in DOMAIN outbox' : outbox'[i].parcel \notin Own
    <3>1. \A i \in DOMAIN outbox' : \/ i \in DOMAIN outbox /\ outbox'[i] = outbox[i]
                                    \/ outbox'[i] = Down("CONFIRMED", x[3])
      BY <2>2
    <3> QED
      BY <2>1, <3>1 DEF OwnInv
  <2>4. \A p \in Own : binding'[p] = "NONE"
    BY <1>2, <2>1 DEF CommitConfirm, OwnInv, TypeOK, Own
  <2> QED
    BY <1>0, <1>2, <2>3, <2>4 DEF OwnInv, CommitConfirm, RecordConfirm
<1>3. ASSUME NEW r \in Request, NEW id \in EventId, NEW p \in Parcel, CheckConfirm(r, id, p) PROVE OwnInv'
  <2>1. p \notin Own /\ <<r, id, p>>[3] = p
    BY <1>3 DEF CheckConfirm, OwnInv
  <2> QED
    BY <1>0, <1>3, <2>1 DEF CheckConfirm, OwnInv
<1>4. QED
  BY <1>0, <1>1, <1>2, <1>3
     DEF ServerNext, CreateParcel, PatchParcelStatus, ConfirmConflict, OwnInv

LEMMA OwnUpload ==
  ASSUME TypeOK, OwnInv, UploadNext PROVE OwnInv'
<1>1. UNCHANGED <<binding, confirming, outbox, batch, added, held, seen>>
  BY DEF UploadNext, InboundParcel, ConfirmPickup, SeedDemoGate, EnqueueEventUpload, ApplyInbound, ApplyPickup,
         serverVars, sessionVars
<1>2. local \in [Row -> Status \union BindingStatus]
  BY DEF TypeOK, RowValues
<1>3. ASSUME NEW p \in Own, NEW k \in Rows(p) PROVE local'[k] = "NONE"
  <2>1. p \in Parcel /\ k \in Row /\ local[k] = "NONE" /\ local[<<"parcel", p>>] = "NONE"
    BY <1>3, RowsOfOwn DEF OwnInv, Own, Rows
  <2>2. \/ local' = local
        \/ \E q \in Parcel :
              /\ local[<<"parcel", q>>] # "NONE"
              /\ \/ local' = [local EXCEPT ![<<"parcel", q>>] = "WAITING_PICKUP"]
                 \/ local' = [local EXCEPT ![<<"parcel", q>>] = "PICKED_UP",
                                    ![<<"binding", q>>] = IF @ = "ACTIVE" THEN "RELEASED" ELSE @]
    BY DEF UploadNext, InboundParcel, ConfirmPickup, SeedDemoGate, EnqueueEventUpload, ApplyInbound, ApplyPickup
  <2>3. \A q \in Parcel : local[<<"parcel", q>>] # "NONE" => k # <<"parcel", q>> /\ k # <<"binding", q>>
    BY <1>3, <2>1, RowsOfOwn
  <2> QED
    BY <1>2, <2>1, <2>2, <2>3
<1> QED
  BY <1>1, <1>3 DEF OwnInv

LEMMA OwnPull ==
  ASSUME TypeOK, OwnInv, PullNext PROVE OwnInv'
<1>1. UNCHANGED <<binding, confirming>>
  BY DEF PullNext, ServePull, ReceiveReply, ApplyUpsert, ApplyBind, ApplyConfirmed,
         SetConfirmed, CommitBatch, CommitEarly, CommitFails, ReceiveOnBrokenSession,
         LoseReply, Restart, DropBatch, serverVars
<1>2. /\ \A i \in DOMAIN outbox' : outbox'[i].parcel \notin Own
      /\ \A i \in DOMAIN batch' : batch'[i].parcel \notin Own
  <2>1. \/ outbox' = outbox /\ batch' = batch
        \/ outbox' = <<>> /\ batch' = outbox
        \/ outbox' = outbox /\ batch' = <<>>
        \/ outbox' = outbox /\ batch # <<>> /\ batch' = Tail(batch)
    <3>1. CASE DropBatch
      BY <3>1 DEF DropBatch
    <3>2. CASE ApplyUpsert \/ ApplyBind \/ ApplyConfirmed
      BY <3>2 DEF ApplyUpsert, ApplyBind, ApplyConfirmed, SetConfirmed, NextEventIs
    <3>3. CASE ServePull \/ ReceiveReply \/ CommitBatch \/ CommitEarly
      BY <3>3 DEF ServePull, ReceiveReply, CommitBatch, CommitEarly
    <3> QED
      BY <3>1, <3>2, <3>3 DEF PullNext, CommitFails, ReceiveOnBrokenSession, LoseReply, Restart
  <2>2. batch # <<>> => \A i \in DOMAIN Tail(batch) : i + 1 \in DOMAIN batch /\ Tail(batch)[i] = batch[i + 1]
    BY DEF TypeOK
  <2> QED
    BY <2>1, <2>2 DEF OwnInv
<1>3. ASSUME NEW p \in Own, NEW k \in Rows(p)
      PROVE  local'[k] = "NONE" /\ added'[k] = "NONE" /\ held'[k] = "NONE" /\ seen'[k] = "NONE"
  <2>0. /\ p \in Parcel /\ k \in Row /\ k[2] = p /\ NoRows[k] = "NONE"
        /\ local[k] = "NONE" /\ added[k] = "NONE" /\ held[k] = "NONE" /\ seen[k] = "NONE"
    BY <1>3, RowsOfOwn DEF OwnInv, Own, NoRows
  <2>1. CASE UNCHANGED <<local, added, held, seen>>
    BY <2>0, <2>1
  <2>2. CASE EmptySession /\ UNCHANGED local
    BY <2>0, <2>2 DEF EmptySession
  <2>3. CASE SessionCommits
    BY <2>0, <2>3 DEF SessionCommits, EmptySession
  <2>4. CASE ApplyUpsert \/ ApplyBind \/ ApplyConfirmed
    <3>1. batch # <<>> /\ UNCHANGED local
      BY <2>4 DEF ApplyUpsert, ApplyBind, ApplyConfirmed, SetConfirmed, NextEventIs
    <3>2. Head(batch).parcel # p
      <4>1. 1 \in DOMAIN batch /\ Head(batch) = batch[1]
        BY <3>1 DEF TypeOK
      <4> QED
        BY <1>3, <4>1 DEF OwnInv
    <3>3. ASSUME NEW j \in Row, NEW s, InsertOrAssign(j, s), j # k PROVE added'[k] = "NONE" /\ held'[k] = "NONE" /\ seen'[k] = "NONE"
      BY <2>0, <3>3 DEF InsertOrAssign, Assign, TypeOK, RowValues
    <3>4. ASSUME ApplyUpsert \/ ApplyBind PROVE added'[k] = "NONE" /\ held'[k] = "NONE" /\ seen'[k] = "NONE"
      <4>1. /\ Head(batch).parcel \in Parcel
            /\ <<"parcel", Head(batch).parcel>> # k /\ <<"binding", Head(batch).parcel>> # k
        BY <2>0, <3>1, <3>2, HeadIsTyped
      <4> QED
        BY <3>3, <3>4, <4>1, ParcelsHaveRows DEF ApplyUpsert, ApplyBind
    <3>5. ASSUME ApplyConfirmed PROVE added'[k] = "NONE" /\ held'[k] = "NONE" /\ seen'[k] = "NONE"
      <4>1. k \notin FoundRows(Head(batch).parcel)
        BY <2>0, <3>2 DEF FoundRows
      <4> QED
        BY <2>0, <3>5, <4>1 DEF ApplyConfirmed, SetConfirmed, Assign
    <3> QED
      BY <2>0, <2>4, <3>1, <3>4, <3>5
  <2> QED
    BY <2>1, <2>2, <2>3, <2>4
       DEF PullNext, ServePull, ReceiveReply, CommitBatch, CommitEarly, CommitFails,
           ReceiveOnBrokenSession, LoseReply, Restart, DropBatch, sessionVars
<1> QED
  BY <1>1, <1>2, <1>3 DEF OwnInv

LEMMA OwnStep == TypeOK /\ OwnInv /\ [Next]_vars => OwnInv'
<1>1. ASSUME OwnInv, UNCHANGED vars PROVE OwnInv'
  BY <1>1 DEF OwnInv, vars
<1> QED
  BY <1>1, OwnServer, OwnUpload, OwnPull DEF Next

(* What the server makes of an event's parcel                              *)
Result(e) == IF e.kind = "INBOUND" THEN "WAITING_PICKUP" ELSE "PICKED_UP"

(* The events of queue q about parcel p, taken in order, bring its status  *)
(* from v to w: the last of them results in w, and a pickup is not the     *)
(* first the server hears of the parcel.                                   *)
Brings(q, p, v, w) ==
    /\ \A i \in DOMAIN q : q[i].parcel = p =>
          /\ (\A j \in DOMAIN q : q[j].parcel = p => j <= i) => Result(q[i]) = w
          /\ (\A j \in DOMAIN q : q[j].parcel = p => i <= j) /\ q[i].kind = "PICKUP" => v # "NONE"
    /\ (\A i \in DOMAIN q : q[i].parcel # p) => v = w

(* The queue, and the event that is recorded but not queued, bring the     *)
(* server's status to the gateway's.                                       *)
Converging(p) ==
    \E m \in Status :
       /\ Brings(queue, p, parcel[p], m)
       /\ \A e \in unqueued : e.parcel = p =>
             Result(e) = byCode[p] /\ (e.kind = "PICKUP" => m # "NONE")
       /\ (\A e \in unqueued : e.parcel # p) => m = byCode[p]

NoEvents(p) ==
    /\ \A e \in unqueued : e.parcel # p
    /\ \A i \in DOMAIN queue : queue[i].parcel # p

ConvergeInv ==
    \A p \in Own \ (patched \union disordered \union planted) :
       /\ \A d, e \in unqueued : d.parcel = p /\ e.parcel = p => d = e
       /\ byCode[p] = "NONE" => NoEvents(p)
       /\ byCode[p] # "NONE" => Converging(p)

(* Events of other parcels may leave the queue, and join it.               *)
LEMMA BringsTake ==
  ASSUME NEW q \in Seq(UpEvent), NEW i \in DOMAIN q, NEW r,
         r = [j \in 1..(Len(q) - 1) |-> IF j < i THEN q[j] ELSE q[j + 1]],
         NEW p, NEW v, NEW w, NEW x, Brings(q, p, v, w),
         \/ q[i].parcel # p /\ x = v
         \/ /\ q[i].parcel = p /\ x = Result(q[i])
            /\ \A j \in 1..(i - 1) : q[j].parcel # p
  PROVE  Brings(r, p, x, w)
<1>0. /\ DOMAIN q = 1..Len(q) /\ Len(q) \in Nat /\ i \in 1..Len(q) /\ DOMAIN r = 1..(Len(q) - 1)
  OBVIOUS
<1> DEFINE from(j) == IF j < i THEN j ELSE j + 1
           to(j)   == IF j < i THEN j ELSE j - 1
<1>1. ASSUME NEW j \in DOMAIN r PROVE from(j) \in DOMAIN q /\ from(j) # i /\ r[j] = q[from(j)]
  BY <1>0
<1>2. ASSUME NEW j \in DOMAIN q, j # i PROVE to(j) \in DOMAIN r /\ from(to(j)) = j
  BY <1>0, <1>2
<1>3. ASSUME NEW j \in DOMAIN r, NEW k \in DOMAIN r PROVE from(j) <= from(k) <=> j <= k
  BY <1>0
<1> HIDE DEF from, to
<1>4. ASSUME NEW j \in DOMAIN r, r[j].parcel = p, \A k \in DOMAIN r : r[k].parcel = p => k <= j
      PROVE  Result(r[j]) = w
  <2>1. ASSUME NEW k \in DOMAIN q, q[k].parcel = p PROVE k <= from(j)
    <3>1. CASE k = i
      <4>1. q[i].parcel = p => ~ (from(j) \in 1..(i - 1))
        BY <1>1, <1>4
      <4> QED
        BY <1>0, <1>1, <2>1, <3>1, <4>1
    <3>2. CASE k # i
      <4>1. to(k) \in DOMAIN r /\ from(to(k)) = k /\ r[to(k)] = q[k]
        BY <1>1, <1>2, <3>2
      <4>2. to(k) <= j
        BY <1>4, <2>1, <4>1
      <4> QED
        BY <1>3, <4>1, <4>2
    <3> QED
      BY <3>1, <3>2
  <2>2. from(j) \in DOMAIN q /\ q[from(j)] = r[j]
    BY <1>1
  <2> QED
    BY <1>4, <2>1, <2>2 DEF Brings
<1>5. ASSUME NEW j \in DOMAIN r, r[j].parcel = p, \A k \in DOMAIN r : r[k].parcel = p => j <= k,
             r[j].kind = "PICKUP"
      PROVE  x # "NONE"
  <2>1. CASE q[i].parcel = p
    BY <2>1 DEF Result
  <2>2. CASE q[i].parcel # p
    <3>1. ASSUME NEW k \in DOMAIN q, q[k].parcel = p PROVE from(j) <= k
      <4>1. to(k) \in DOMAIN r /\ from(to(k)) = k /\ r[to(k)] = q[k]
        BY <1>1, <1>2, <2>2, <3>1
      <4>2. j <= to(k)
        BY <1>5, <3>1, <4>1
      <4> QED
        BY <1>3, <4>1, <4>2
    <3>2. from(j) \in DOMAIN q /\ q[from(j)] = r[j]
      BY <1>1
    <3> QED
      BY <1>5, <2>2, <3>1, <3>2 DEF Brings
  <2> QED
    BY <2>1, <2>2
<1>6. ASSUME \A j \in DOMAIN r : r[j].parcel # p PROVE x = w
  <2>1. ASSUME NEW k \in DOMAIN q, k # i PROVE q[k].parcel # p
    <3>1. to(k) \in DOMAIN r /\ r[to(k)] = q[k]
      BY <1>1, <1>2, <2>1
    <3> QED
      BY <1>6, <3>1
  <2>2. CASE q[i].parcel = p
    <3>1. \A k \in DOMAIN q : q[k].parcel = p => k <= i
      BY <1>0, <2>1
    <3> QED
      BY <2>2, <3>1 DEF Brings
  <2>3. CASE q[i].parcel # p
    BY <2>1, <2>3 DEF Brings
  <2> QED
    BY <2>2, <2>3
<1> QED
  BY <1>4, <1>5, <1>6 DEF Brings

LEMMA BringsAppend ==
  ASSUME NEW q \in Seq(UpEvent), NEW e \in UpEvent, NEW r, r = Append(q, e),
         NEW p, NEW v, NEW m, NEW w, Brings(q, p, v, m),
         e.parcel # p => w = m,
         e.parcel = p => Result(e) = w /\ (e.kind = "PICKUP" => m # "NONE")
  PROVE  Brings(r, p, v, w)
<1>1. /\ DOMAIN q = 1..Len(q) /\ Len(q) \in Nat /\ DOMAIN r = 1..(Len(q) + 1)
      /\ \A j \in DOMAIN q : r[j] = q[j] /\ j \in DOMAIN r /\ j < Len(q) + 1
      /\ r[Len(q) + 1] = e /\ Len(q) + 1 \in DOMAIN r
      /\ \A j \in DOMAIN r : j \in DOMAIN q \/ j = Len(q) + 1
  OBVIOUS
<1>2. ASSUME NEW j \in DOMAIN r, r[j].parcel = p, \A k \in DOMAIN r : r[k].parcel = p => k <= j
      PROVE  Result(r[j]) = w
  <2>1. CASE e.parcel = p
    <3>1. j = Len(q) + 1
      BY <1>1, <1>2, <2>1
    <3> QED
      BY <1>1, <2>1, <3>1
  <2>2. CASE e.parcel # p
    <3>1. j \in DOMAIN q
      BY <1>1, <1>2, <2>2
    <3>2. \A k \in DOMAIN q : q[k].parcel = p => k <= j
      BY <1>1, <1>2
    <3> QED
      BY <1>1, <1>2, <2>2, <3>1, <3>2 DEF Brings
  <2> QED
    BY <2>1, <2>2
<1>3. ASSUME NEW j \in DOMAIN r, r[j].parcel = p, \A k \in DOMAIN r : r[k].parcel = p => j <= k,
             r[j].kind = "PICKUP"
      PROVE  v # "NONE"
  <2>1. CASE j \in DOMAIN q
    <3>1. \A k \in DOMAIN q : q[k].parcel = p => j <= k
      BY <1>1, <1>3
    <3> QED
      BY <1>1, <1>3, <2>1, <3>1 DEF Brings
  <2>2. CASE j = Len(q) + 1
    <3>1. \A k \in DOMAIN q : q[k].parcel # p
      BY <1>1, <1>3, <2>2
    <3> QED
      BY <1>1, <1>3, <2>2, <3>1 DEF Brings
  <2> QED
    BY <1>1, <2>1, <2>2
<1>4. ASSUME \A j \in DOMAIN r : r[j].parcel # p PROVE v = w
  BY <1>1, <1>4 DEF Brings
<1> QED
  BY <1>2, <1>3, <1>4 DEF Brings

LEMMA ConvergeInit == Init => ConvergeInv
<1> SUFFICES ASSUME Init, NEW p \in Own PROVE NoEvents(p) /\ byCode[p] = "NONE"
  BY DEF Init, ConvergeInv
<1> QED
  BY DEF Init, NoEvents, Own

(* The gateway's side of a parcel, and the server's status, untouched      *)
LEMMA SameConverging ==
  ASSUME NEW p \in Own,
         byCode'[p] = byCode[p], parcel'[p] = parcel[p], UNCHANGED <<unqueued, queue>>
  PROVE  /\ Converging(p) => Converging(p)'
         /\ NoEvents(p) => NoEvents(p)'
  BY DEF Converging, NoEvents, Brings, Result

LEMMA ConvergeServer ==
  ASSUME TypeOK, OwnInv, ConvergeInv, ServerNext PROVE ConvergeInv'
<1>0. UNCHANGED <<byCode, unqueued, queue, disordered, planted>> /\ patched \subseteq patched'
  BY DEF ServerNext, EnsureDemoData, CreateParcel, PatchParcelStatus, CheckConfirm,
         CommitConfirm, RecordConfirm, ConfirmConflict, uploadVars, history
<1> SUFFICES ASSUME NEW p \in Own \ (patched' \union disordered' \union planted')
             PROVE  /\ byCode'[p] = "NONE" => NoEvents(p)'
                    /\ byCode'[p] # "NONE" => Converging(p)'
  BY <1>0 DEF ConvergeInv
<1>1. p \in Own \ (patched \union disordered \union planted) /\ p \in Parcel /\ p \notin Seeded
  BY <1>0 DEF Own
<1>2. /\ byCode[p] = "NONE" => NoEvents(p)
      /\ byCode[p] # "NONE" => Converging(p)
  BY <1>1 DEF ConvergeInv
<1>3. CASE parcel'[p] = parcel[p]
  BY <1>0, <1>1, <1>2, <1>3, SameConverging
<1>4. CASE CreateParcel(p)
  <2>1. parcel[p] = "NONE" /\ parcel'[p] = "OTHER"
    BY <1>1, <1>4 DEF CreateParcel, TypeOK
  <2>2. NoEvents(p) => NoEvents(p)'
    BY <1>0 DEF NoEvents
  <2>3. ASSUME byCode[p] # "NONE" PROVE Converging(p)'
    <3>1. PICK m \in Status :
            /\ Brings(queue, p, parcel[p], m)
            /\ \A e \in unqueued : e.parcel = p =>
                  Result(e) = byCode[p] /\ (e.kind = "PICKUP" => m # "NONE")
            /\ (\A e \in unqueued : e.parcel # p) => m = byCode[p]
      BY <1>2, <2>3 DEF Converging
    <3>2. CASE \A i \in DOMAIN queue : queue[i].parcel # p
      <4>1. m = "NONE"
        BY <2>1, <3>1, <3>2 DEF Brings
      <4>2. ~ \A e \in unqueued : e.parcel # p
        BY <2>3, <3>1, <4>1
      <4>3. Brings(queue, p, "OTHER", "OTHER") /\ "OTHER" \in Status /\ "OTHER" # "NONE"
        BY <3>2 DEF Brings, Status
      <4> QED
        BY <1>0, <2>1, <3>1, <4>2, <4>3 DEF Converging, Brings, Result
    <3>3. CASE ~ \A i \in DOMAIN queue : queue[i].parcel # p
      <4>1. Brings(queue, p, "OTHER", m)
        BY <3>1, <3>3 DEF Brings
      <4> QED
        BY <1>0, <2>1, <3>1, <4>1 DEF Converging, Brings, Result
    <3> QED
      BY <3>2, <3>3
  <2> QED
    BY <1>0, <1>2, <2>2, <2>3
<1>5. parcel'[p] = parcel[p] \/ CreateParcel(p)
  <2>1. CASE EnsureDemoData
    BY <1>1, <2>1 DEF EnsureDemoData, TypeOK
  <2>2. ASSUME NEW q \in Parcel, CreateParcel(q) PROVE parcel'[p] = parcel[p] \/ CreateParcel(p)
    BY <1>1, <2>2 DEF CreateParcel, TypeOK
  <2>3. ASSUME NEW q \in Patchable, NEW s \in Status, PatchParcelStatus(q, s) PROVE parcel'[p] = parcel[p]
    BY <1>1, <2>3 DEF PatchParcelStatus, TypeOK
  <2>4. ASSUME NEW x \in Request \X EventId \X Parcel, CommitConfirm(x) PROVE parcel'[p] = parcel[p]
    <3>1. x[3] # p /\ parcel' = [parcel EXCEPT ![x[3]] = "PICKED_UP"]
      BY <2>4 DEF CommitConfirm, RecordConfirm, OwnInv
    <3> QED
      BY <1>1, <3>1 DEF TypeOK
  <2> QED
    BY <2>1, <2>2, <2>3, <2>4 DEF ServerNext, CheckConfirm, ConfirmConflict
<1> QED
  BY <1>3, <1>4, <1>5

LEMMA ConvergePull ==
  ASSUME ConvergeInv, PullNext PROVE ConvergeInv'
<1>1. UNCHANGED <<byCode, parcel, unqueued, queue, patched, disordered, planted>>
  BY DEF PullNext, ServePull, ReceiveReply, ApplyUpsert, ApplyBind, ApplyConfirmed,
         SetConfirmed, CommitBatch, CommitEarly, CommitFails, ReceiveOnBrokenSession,
         LoseReply, Restart, DropBatch, serverVars, uploadVars, history
<1> QED
  BY <1>1, SameConverging DEF ConvergeInv

(* A command records the new status together with the event that will      *)
(* carry it.  The first event of a parcel of its own is an INBOUND.        *)
LEMMA ConvergeRecord ==
  ASSUME TypeOK, OwnInv, ConvergeInv, NEW q \in Parcel, InboundParcel(q) \/ ConfirmPickup(q)
  PROVE  ConvergeInv'
<1>0. PICK e \in UpEvent :
        /\ e.parcel = q /\ RecordEvent(e)
        /\ e.kind = IF InboundParcel(q) THEN "INBOUND" ELSE "PICKUP"
  <2>1. CASE InboundParcel(q)
    BY <2>1, EventsAreTyped DEF InboundParcel, Up
  <2>2. CASE ~ InboundParcel(q)
    BY <2>2, EventsAreTyped DEF ConfirmPickup, Up
  <2> QED
    BY <2>1, <2>2
<1>1. /\ unqueued' = unqueued \union {e} /\ queue' = queue
      /\ UNCHANGED <<parcel, patched, planted>>
      /\ disordered' = disordered \union {d.parcel : d \in {u \in unqueued : u.parcel = e.parcel}}
  BY <1>0 DEF RecordEvent, InboundParcel, ConfirmPickup, serverVars
<1> SUFFICES ASSUME NEW p \in Own \ (patched' \union disordered' \union planted')
             PROVE  /\ \A d, f \in unqueued' : d.parcel = p /\ f.parcel = p => d = f
                    /\ byCode'[p] = "NONE" => NoEvents(p)'
                    /\ byCode'[p] # "NONE" => Converging(p)'
  BY DEF ConvergeInv
<1>2. /\ p \in Own \ (patched \union disordered \union planted) /\ p \in Parcel
      /\ \A d, f \in unqueued : d.parcel = p /\ f.parcel = p => d = f
      /\ byCode[p] = "NONE" => NoEvents(p)
      /\ byCode[p] # "NONE" => Converging(p)
  BY <1>1 DEF ConvergeInv, Own
<1>3. CASE p # q
  <2>1. byCode'[p] = byCode[p]
    BY <1>2, <1>3 DEF InboundParcel, ConfirmPickup, TypeOK
  <2>2. NoEvents(p) => NoEvents(p)'
    BY <1>0, <1>1, <1>3 DEF NoEvents
  <2>3. Converging(p) => Converging(p)'
    BY <1>0, <1>1, <1>3, <2>1 DEF Converging, Brings, Result
  <2> QED
    BY <1>0, <1>1, <1>2, <1>3, <2>1, <2>2, <2>3
<1>4. CASE p = q
  <2>1. \A d \in unqueued : d.parcel # p
    BY <1>0, <1>1, <1>4
  <2>2. local[<<"parcel", p>>] = "NONE"
    BY <1>2 DEF OwnInv, Rows
  <2>3. byCode'[p] = Result(e) /\ (e.kind = "PICKUP" => byCode[p] # "NONE")
    BY <1>0, <1>2, <1>4, <2>2 DEF InboundParcel, ConfirmPickup, TypeOK, Result
  <2>4. \E m \in Status : Brings(queue, p, parcel[p], m) /\ (e.kind = "PICKUP" => m # "NONE")
    <3>1. CASE byCode[p] = "NONE"
      <4>1. Brings(queue, p, parcel[p], parcel[p]) /\ parcel[p] \in Status
        BY <1>2, <3>1 DEF NoEvents, Brings, TypeOK
      <4> QED
        BY <2>3, <3>1, <4>1
    <3>2. CASE byCode[p] # "NONE"
      BY <1>2, <2>1, <2>3, <3>2 DEF Converging
    <3> QED
      BY <3>1, <3>2
  <2>5. PICK m \in Status : Brings(queue, p, parcel[p], m) /\ (e.kind = "PICKUP" => m # "NONE")
    BY <2>4
  <2>6. Converging(p)'
    <3>1. Brings(queue, p, parcel[p], m)'
      BY <1>1, <2>5 DEF Brings, Result
    <3>2. \A d \in unqueued' : d.parcel = p => d = e
      BY <1>1, <2>1
    <3>3. e \in unqueued' /\ e.parcel = p
      BY <1>0, <1>1, <1>4
    <3>4. \A d \in unqueued' : d.parcel = p => Result(d)' = byCode'[p] /\ (d.kind = "PICKUP" => m # "NONE")
      BY <2>3, <2>5, <3>2 DEF Result
    <3> QED
      BY <3>1, <3>3, <3>4 DEF Converging
  <2>7. byCode'[p] # "NONE"
    BY <2>3 DEF Result
  <2> QED
    BY <1>0, <1>1, <2>1, <2>6, <2>7
<1> QED
  BY <1>3, <1>4

LEMMA ConvergeEnqueue ==
  ASSUME TypeOK, ConvergeInv, NEW e \in UpEvent, EnqueueEventUpload(e) PROVE ConvergeInv'
<1>1. /\ e \in unqueued /\ unqueued' = unqueued \ {e} /\ queue' = Append(queue, e)
      /\ UNCHANGED <<parcel, byCode, patched, disordered, planted>> /\ queue \in Seq(UpEvent)
  BY DEF EnqueueEventUpload, serverVars, history, TypeOK
<1> SUFFICES ASSUME NEW p \in Own \ (patched \union disordered \union planted)
             PROVE  /\ \A d, f \in unqueued' : d.parcel = p /\ f.parcel = p => d = f
                    /\ byCode'[p] = "NONE" => NoEvents(p)'
                    /\ byCode'[p] # "NONE" => Converging(p)'
  BY <1>1 DEF ConvergeInv
<1>2. /\ \A d, f \in unqueued : d.parcel = p /\ f.parcel = p => d = f
      /\ byCode[p] = "NONE" => NoEvents(p)
      /\ byCode[p] # "NONE" => Converging(p)
  BY DEF ConvergeInv
<1>3. ASSUME NoEvents(p) PROVE NoEvents(p)'
  <2>1. e.parcel # p
    BY <1>1, <1>3 DEF NoEvents
  <2>2. \A i \in DOMAIN queue' : (i \in DOMAIN queue /\ queue'[i] = queue[i]) \/ queue'[i] = e
    BY <1>1
  <2> QED
    BY <1>1, <1>3, <2>1, <2>2 DEF NoEvents
<1>4. ASSUME Converging(p) PROVE Converging(p)'
  <2>1. PICK m \in Status :
          /\ Brings(queue, p, parcel[p], m)
          /\ \A d \in unqueued : d.parcel = p =>
                Result(d) = byCode[p] /\ (d.kind = "PICKUP" => m # "NONE")
          /\ (\A d \in unqueued : d.parcel # p) => m = byCode[p]
    BY <1>4 DEF Converging
  <2>2. CASE e.parcel = p
    <3>1. Result(e) = byCode[p] /\ (e.kind = "PICKUP" => m # "NONE") /\ Result(e) \in Status
      BY <1>1, <2>1, <2>2 DEF Result, Status
    <3>2. Brings(queue', p, parcel[p], byCode[p])
      BY <1>1, <2>1, <2>2, <3>1, BringsAppend
    <3>3. \A d \in unqueued' : d.parcel # p
      BY <1>1, <1>2, <2>2
    <3> QED
      BY <1>1, <3>1, <3>2, <3>3 DEF Converging, Brings, Result
  <2>3. CASE e.parcel # p
    <3>1. Brings(queue', p, parcel[p], m)
      BY <1>1, <2>1, <2>3, BringsAppend
    <3>2. (\A d \in unqueued' : d.parcel # p) => (\A d \in unqueued : d.parcel # p)
      BY <1>1, <2>3
    <3> QED
      BY <1>1, <2>1, <3>1, <3>2 DEF Converging, Brings, Result
  <2> QED
    BY <2>2, <2>3
<1> QED
  BY <1>1, <1>2, <1>3, <1>4

LEMMA ConvergeTake ==
  ASSUME TypeOK, ConvergeInv, NEW i \in 1..MaxUpload, ApplyInbound(i) \/ ApplyPickup(i)
  PROVE  ConvergeInv'
<1>1. /\ i \in DOMAIN queue /\ TakeFromQueue(i) /\ queue \in Seq(UpEvent)
      /\ queue' = [j \in 1..(Len(queue) - 1) |-> IF j < i THEN queue[j] ELSE queue[j + 1]]
      /\ disordered' = IF \E j \in 1..(i - 1) : queue[j].parcel = queue[i].parcel
                       THEN disordered \union {queue[i].parcel} ELSE disordered
      /\ UNCHANGED <<byCode, unqueued, patched, planted>>
  BY DEF ApplyInbound, ApplyPickup, Deliverable, TakeFromQueue, TypeOK
<1> SUFFICES ASSUME NEW p \in Own \ (patched' \union disordered' \union planted')
             PROVE  /\ byCode'[p] = "NONE" => NoEvents(p)'
                    /\ byCode'[p] # "NONE" => Converging(p)'
  BY <1>1 DEF ConvergeInv
<1>2. /\ p \in Own \ (patched \union disordered \union planted) /\ p \in Parcel
      /\ byCode[p] = "NONE" => NoEvents(p)
      /\ byCode[p] # "NONE" => Converging(p)
  BY <1>1 DEF ConvergeInv, Own
<1>3. ASSUME NoEvents(p) PROVE NoEvents(p)'
  <2>1. \A j \in DOMAIN queue' : \E k \in DOMAIN queue : queue'[j] = queue[k]
    BY <1>1
  <2> QED
    BY <1>1, <1>3, <2>1 DEF NoEvents
<1>4. ASSUME Converging(p) PROVE Converging(p)'
  <2>1. PICK m \in Status :
          /\ Brings(queue, p, parcel[p], m)
          /\ \A d \in unqueued : d.parcel = p =>
                Result(d) = byCode[p] /\ (d.kind = "PICKUP" => m # "NONE")
          /\ (\A d \in unqueued : d.parcel # p) => m = byCode[p]
    BY <1>4 DEF Converging
  <2>2. \/ queue[i].parcel # p /\ parcel'[p] = parcel[p]
        \/ /\ queue[i].parcel = p /\ parcel'[p] = Result(queue[i])
           /\ \A j \in 1..(i - 1) : queue[j].parcel # p
    <3>1. CASE queue[i].parcel # p
      BY <1>2, <3>1 DEF ApplyInbound, ApplyPickup, TypeOK
    <3>2. CASE queue[i].parcel = p
      <4>1. \A j \in 1..(i - 1) : queue[j].parcel # p
        BY <1>1, <3>2
      <4>2. \A j \in DOMAIN queue : queue[j].parcel = p => i <= j
        BY <1>1, <4>1
      <4>3. queue[i].kind = "PICKUP" => parcel[p] # "NONE"
        BY <1>1, <2>1, <3>2, <4>2 DEF Brings
      <4>4. parcel'[p] = Result(queue[i])
        BY <1>2, <3>2, <4>3 DEF ApplyInbound, ApplyPickup, TypeOK, Result
      <4> QED
        BY <3>2, <4>1, <4>4
    <3> QED
      BY <3>1, <3>2
  <2>3. PICK r, x : r = queue' /\ x = parcel'[p]
    OBVIOUS
  <2>4. Brings(r, p, x, m)
    <3>1. /\ queue \in Seq(UpEvent) /\ i \in DOMAIN queue
          /\ r = [j \in 1..(Len(queue) - 1) |-> IF j < i THEN queue[j] ELSE queue[j + 1]]
      BY <1>1, <2>3
    <3>2. Brings(queue, p, parcel[p], m)
      BY <2>1
    <3>3. \/ queue[i].parcel # p /\ x = parcel[p]
          \/ /\ queue[i].parcel = p /\ x = Result(queue[i])
             /\ \A j \in 1..(i - 1) : queue[j].parcel # p
      BY <2>2, <2>3
    <3> QED
      BY <3>1, <3>2, <3>3, BringsTake
  <2>5. Brings(queue, p, parcel[p], m)'
    BY <2>3, <2>4 DEF Brings, Result
  <2>6. /\ \A d \in unqueued' : d.parcel = p =>
              Result(d)' = byCode'[p] /\ (d.kind = "PICKUP" => m # "NONE")
        /\ (\A d \in unqueued' : d.parcel # p) => m = byCode'[p]
    BY <1>1, <2>1 DEF Result
  <2> QED
    BY <2>1, <2>5, <2>6 DEF Converging
<1> QED
  BY <1>1, <1>2, <1>3, <1>4

LEMMA ConvergeStep == TypeOK /\ OwnInv /\ ConvergeInv /\ [Next]_vars => ConvergeInv'
<1>1. ASSUME ConvergeInv, UNCHANGED vars PROVE ConvergeInv'
  <2>1. UNCHANGED <<byCode, parcel, unqueued, queue, patched, disordered, planted>>
    BY <1>1 DEF vars
  <2> QED
    BY <1>1, <2>1, SameConverging DEF ConvergeInv
<1>2. ASSUME TypeOK, ConvergeInv, NEW q \in Plantable, SeedDemoGate(q) PROVE ConvergeInv'
  <2>1. /\ UNCHANGED <<parcel, unqueued, queue, patched, disordered>>
        /\ planted' = planted \union {q}
        /\ \A p \in Parcel \ {q} : byCode'[p] = byCode[p]
    BY <1>2 DEF SeedDemoGate, TypeOK, serverVars, uploadVars
  <2> QED
    BY <1>2, <2>1, SameConverging DEF ConvergeInv, Own
<1> QED
  BY <1>1, <1>2, ConvergeServer, ConvergePull, ConvergeRecord, ConvergeEnqueue, ConvergeTake
     DEF Next, UploadNext

(* A parcel that the gateway has entered itself has the gateway's status   *)
(* on the server once all its events have taken effect, however uploads    *)
(* fail and are repeated, unless they overtook one another, an             *)
(* administrator set the status, or seed-demo-gate made the gateway's row. *)
THEOREM GatewayParcelsConverge == Spec => []GatewayParcelConverges
<1>1. ConvergeInv => GatewayParcelConverges
  BY DEF ConvergeInv, GatewayParcelConverges, Converging, Brings, Own
<1>2. QED
  BY <1>1, OwnInit, OwnStep, ConvergeInit, ConvergeStep, TypeCorrect, PTL DEF Spec

-----------------------------------------------------------------------------
(* A binding is announced once, before its release *)

Binding(p) == <<"binding", p>>

(* Events about the binding of p *)
Binds(e, p) == e.parcel = p /\ e.kind # "UPSERT"

Announces(s, p) == \E i \in DOMAIN s : s[i].kind = "BIND" /\ s[i].parcel = p
Releases(s, p)  == \E i \in DOMAIN s : s[i].kind = "CONFIRMED" /\ s[i].parcel = p
Silent(s, p)    == \A i \in DOMAIN s : ~ Binds(s[i], p)

(* In events s, nothing about the binding of p comes before its BIND.      *)
BindFirst(s, p) ==
    \A i, j \in DOMAIN s : s[i].kind = "BIND" /\ s[i].parcel = p /\ Binds(s[j], p) => i <= j

(* The gateway knows nothing of the binding of p.                          *)
NoRow(p) ==
    local[Binding(p)] = "NONE" /\ added[Binding(p)] = "NONE" /\ held[Binding(p)] = "NONE"

EventsFit(p) ==
    /\ BindFirst(outbox, p) /\ BindFirst(batch, p)
    /\ binding[p] = "NONE" => Silent(outbox, p) /\ Silent(batch, p) /\ NoRow(p)
    /\ Announces(outbox, p) => Silent(batch, p) /\ NoRow(p)
    /\ Announces(batch, p) => NoRow(p)
    /\ pulling = "idle" => batch = <<>>

(* What the session holds of the binding will be written, or is there.     *)
RowFits(p) ==
    /\ added[Binding(p)] # "NONE" => local[Binding(p)] = "NONE" /\ held[Binding(p)] = "NONE"
    /\ held[Binding(p)] = "NONE" => seen[Binding(p)] = "NONE"
    /\ held[Binding(p)] # "NONE" =>
          /\ held[Binding(p)] = "RELEASED" /\ local[Binding(p)] # "NONE"
          /\ seen[Binding(p)] = "RELEASED" => local[Binding(p)] = "RELEASED"
    /\ pulling # "applying" => held[Binding(p)] = "NONE" /\ added[Binding(p)] = "NONE"

(* The release is on its way to the gateway, or there.                     *)
Releasing(p) ==
    \/ Releases(outbox, p) \/ Releases(batch, p)
    \/ held[Binding(p)] = "RELEASED" \/ local[Binding(p)] = "RELEASED"

ReleaseFits(p) ==
    /\ EventsFit(p) /\ RowFits(p)
    /\ binding[p] = "RELEASED" /\ p \notin missed => Releasing(p)

ReleaseInv ==
    /\ \A x \in confirming : binding[x[3]] # "NONE"
    /\ \A p \in Parcel : ReleaseFits(p)

(* What is said of a binding in events s followed by events t.             *)
LEMMA JoinedSays ==
  ASSUME NEW s \in Seq(DownEvent), NEW t \in Seq(DownEvent), NEW u, u = s \o t, NEW p
  PROVE  /\ BindFirst(s, p) /\ (~ Announces(t, p) \/ (Silent(s, p) /\ BindFirst(t, p))) => BindFirst(u, p)
         /\ Silent(s, p) /\ Silent(t, p) => Silent(u, p)
         /\ Announces(u, p) => Announces(s, p) \/ Announces(t, p)
         /\ Releases(s, p) \/ Releases(t, p) => Releases(u, p)
<1>1. /\ u \in Seq(DownEvent) /\ Len(u) = Len(s) + Len(t) /\ Len(s) \in Nat /\ Len(t) \in Nat
      /\ \A i \in DOMAIN u :
            /\ i \in Nat
            /\ \/ i \in DOMAIN s /\ u[i] = s[i]
               \/ i - Len(s) \in DOMAIN t /\ u[i] = t[i - Len(s)]
      /\ \A i \in DOMAIN s : i \in DOMAIN u /\ u[i] = s[i]
  BY Joined
<1>2. \A i \in DOMAIN t : i \in Nat /\ Len(s) + i \in DOMAIN u /\ u[Len(s) + i] = t[i]
  OBVIOUS
<1>3. Silent(s, p) /\ Silent(t, p) => Silent(u, p)
  BY <1>1 DEF Silent
<1>4. Announces(u, p) => Announces(s, p) \/ Announces(t, p)
  BY <1>1 DEF Announces
<1>5. Releases(s, p) \/ Releases(t, p) => Releases(u, p)
  <2>1. Releases(s, p) => Releases(u, p)
    BY <1>1 DEF Releases
  <2>2. ASSUME Releases(t, p) PROVE Releases(u, p)
    <3>1. PICK i \in DOMAIN t : t[i].kind = "CONFIRMED" /\ t[i].parcel = p
      BY <2>2 DEF Releases
    <3>2. Len(s) + i \in DOMAIN u /\ u[Len(s) + i] = t[i]
      BY <1>2
    <3> QED
      BY <3>1, <3>2 DEF Releases
  <2> QED
    BY <2>1, <2>2
<1>6. ASSUME BindFirst(s, p), ~ Announces(t, p) \/ (Silent(s, p) /\ BindFirst(t, p))
      PROVE  BindFirst(u, p)
  <2> SUFFICES ASSUME NEW i \in DOMAIN u, NEW j \in DOMAIN u, u[i].kind = "BIND",
                      u[i].parcel = p, Binds(u[j], p)
               PROVE  i <= j
    BY DEF BindFirst
  <2>1. /\ i \in Nat /\ j \in Nat
        /\ \A k \in DOMAIN s : k \in 1..Len(s)
        /\ \A k \in DOMAIN t : k \in 1..Len(t)
    BY <1>1
  <2>2. CASE i \in DOMAIN s /\ u[i] = s[i]
    <3>1. CASE j \in DOMAIN s /\ u[j] = s[j]
      BY <1>6, <2>2, <3>1 DEF BindFirst
    <3>2. CASE j - Len(s) \in DOMAIN t
      BY <1>1, <2>1, <2>2, <3>2
    <3> QED
      BY <1>1, <3>1, <3>2
  <2>3. CASE i - Len(s) \in DOMAIN t /\ u[i] = t[i - Len(s)]
    <3>1. Silent(s, p) /\ BindFirst(t, p)
      BY <1>6, <2>3 DEF Announces
    <3>2. j - Len(s) \in DOMAIN t /\ u[j] = t[j - Len(s)]
      BY <1>1, <3>1 DEF Silent
    <3>3. i - Len(s) <= j - Len(s)
      BY <2>3, <3>1, <3>2 DEF BindFirst
    <3> QED
      BY <1>1, <2>1, <3>3
  <2> QED
    BY <1>1, <2>2, <2>3
<1> QED
  BY <1>3, <1>4, <1>5, <1>6

(* What is left to say when the first of events s has been applied.        *)
LEMMA TailSays ==
  ASSUME NEW s \in Seq(DownEvent), s # <<>>, NEW p
  PROVE  /\ BindFirst(s, p) => BindFirst(Tail(s), p)
         /\ Silent(s, p) => Silent(Tail(s), p) /\ ~ Binds(Head(s), p)
         /\ Announces(Tail(s), p) => Announces(s, p)
         /\ BindFirst(s, p) /\ Announces(Tail(s), p) => ~ Binds(Head(s), p)
         /\ Head(s).kind = "BIND" /\ Head(s).parcel = p => Announces(s, p)
         /\ Releases(s, p) => Releases(Tail(s), p) \/ (Head(s).kind = "CONFIRMED" /\ Head(s).parcel = p)
<1> DEFINE t == Tail(s)
<1>1. /\ 1 \in DOMAIN s /\ Head(s) = s[1]
      /\ \A i \in DOMAIN t : i \in Nat /\ i >= 1 /\ i + 1 \in DOMAIN s /\ t[i] = s[i + 1]
      /\ \A i \in DOMAIN s : i \in Nat /\ (i = 1 \/ (i - 1 \in DOMAIN t /\ s[i] = t[i - 1]))
  OBVIOUS
<1> HIDE DEF t
<1>2. BindFirst(s, p) => BindFirst(t, p)
  <2> SUFFICES ASSUME BindFirst(s, p), NEW i \in DOMAIN t, NEW j \in DOMAIN t,
                      t[i].kind = "BIND", t[i].parcel = p, Binds(t[j], p)
               PROVE  i <= j
    BY DEF BindFirst
  <2>1. i + 1 <= j + 1
    BY <1>1 DEF BindFirst
  <2> QED
    BY <1>1, <2>1
<1>3. Silent(s, p) => Silent(t, p) /\ ~ Binds(Head(s), p)
  BY <1>1 DEF Silent
<1>4. Announces(t, p) => Announces(s, p)
  BY <1>1 DEF Announces
<1>5. BindFirst(s, p) /\ Announces(t, p) => ~ Binds(Head(s), p)
  <2> SUFFICES ASSUME BindFirst(s, p), NEW i \in DOMAIN t, t[i].kind = "BIND", t[i].parcel = p,
                      Binds(s[1], p)
               PROVE  FALSE
    BY <1>1 DEF Announces
  <2>1. i + 1 <= 1
    BY <1>1 DEF BindFirst
  <2> QED
    BY <1>1, <2>1
<1>6. Head(s).kind = "BIND" /\ Head(s).parcel = p => Announces(s, p)
  BY <1>1 DEF Announces
<1>7. Releases(s, p) => Releases(t, p) \/ (Head(s).kind = "CONFIRMED" /\ Head(s).parcel = p)
  BY <1>1 DEF Releases
<1> QED
  BY <1>2, <1>3, <1>4, <1>5, <1>6, <1>7 DEF t

LEMMA NothingSaid ==
  ASSUME NEW p
  PROVE  BindFirst(<<>>, p) /\ Silent(<<>>, p) /\ ~ Announces(<<>>, p) /\ ~ Releases(<<>>, p)
  BY DEF BindFirst, Silent, Announces, Releases

LEMMA ReleaseInit == Init => ReleaseInv
<1> SUFFICES ASSUME Init, NEW p \in Parcel PROVE ReleaseFits(p)
  BY DEF Init, ReleaseInv
<1>1. NoRow(p) /\ held[Binding(p)] = "NONE" /\ seen[Binding(p)] = "NONE" /\ added[Binding(p)] = "NONE"
  BY ParcelsHaveRows DEF Init, NoRow, Binding, NoRows
<1>2. outbox = <<>> /\ batch = <<>> /\ binding[p] = "NONE"
  BY DEF Init
<1>3. EventsFit(p)
  BY <1>1, <1>2, NothingSaid DEF EventsFit
<1>4. RowFits(p)
  BY <1>1 DEF RowFits
<1> QED
  BY <1>2, <1>3, <1>4 DEF ReleaseFits

(* Steps that leave alone what is known of the binding of p.               *)
LEMMA SameRelease ==
  ASSUME NEW p, ReleaseFits(p), outbox' = outbox, batch' = batch, binding'[p] = binding[p],
         local'[Binding(p)] = local[Binding(p)], added'[Binding(p)] = added[Binding(p)],
         held'[Binding(p)] = held[Binding(p)], seen'[Binding(p)] = seen[Binding(p)],
         pulling' = pulling \/ pulling' = "applying", missed \subseteq missed'
  PROVE  ReleaseFits(p)'
  BY DEF ReleaseFits, EventsFit, RowFits, NoRow, Releasing, Binding, BindFirst, Silent,
         Announces, Releases, Binds

(* ensure_demo_data announces the binding of a parcel at most once, when   *)
(* there is none.                                                          *)
LEMMA AnnouncesOnce ==
  ASSUME TypeOK, NEW p \in Parcel, EventsFit(p)
  PROVE  LET u == outbox \o Announce(1) \o Announce(2)
         IN  /\ BindFirst(u, p)
             /\ binding[p] # "NONE" => (Announces(u, p) => Announces(outbox, p))
             /\ p \notin Seeded => (Silent(outbox, p) => Silent(u, p))
             /\ Releases(outbox, p) => Releases(u, p)
<1> DEFINE a == Announce(1)
           b == Announce(2)
           s == outbox \o a
           u == s \o b
<1>1. /\ a \in Seq(DownEvent) /\ b \in Seq(DownEvent) /\ outbox \in Seq(DownEvent)
      /\ s = outbox \o a /\ u = s \o b
  BY AnnounceIsTyped DEF TypeOK
<1>2. ASSUME NEW i \in {1, 2}, ~ Silent(Announce(i), p)
      PROVE  i \in DOMAIN SeedOrder /\ p = SeedOrder[i] /\ binding[p] = "NONE" /\ p \in Seeded
  <2>1. PICK j \in DOMAIN Announce(i) : Binds(Announce(i)[j], p)
    BY <1>2 DEF Silent
  <2> QED
    BY <2>1, AnnounceSays DEF Binds, Seeded
<1>3. ASSUME NEW i \in {1, 2} PROVE BindFirst(Announce(i), p)
  <2>1. \A j \in DOMAIN Announce(i) : Announce(i)[j].kind = "UPSERT" \/ j = Len(Announce(i))
    BY AnnounceSays
  <2>2. /\ \A j \in DOMAIN Announce(i) : j \in Nat /\ j <= Len(Announce(i))
        /\ Len(Announce(i)) \in Nat
    BY AnnounceIsTyped
  <2> QED
    BY <2>1, <2>2 DEF BindFirst, Binds
<1>4. Silent(a, p) \/ Silent(b, p)
  BY <1>2, ConstantsOK
<1>5. /\ ~ Silent(a, p) => Silent(outbox, p)
      /\ ~ Silent(b, p) => Silent(outbox, p)
      /\ BindFirst(a, p) /\ BindFirst(b, p) /\ BindFirst(outbox, p)
      /\ p \notin Seeded => Silent(a, p) /\ Silent(b, p)
      /\ binding[p] # "NONE" => Silent(a, p) /\ Silent(b, p)
  BY <1>2, <1>3 DEF EventsFit
<1>6. \A t : Silent(t, p) => ~ Announces(t, p)
  BY DEF Silent, Announces, Binds
<1> HIDE DEF a, b, s, u
<1>7. s \in Seq(DownEvent)
  BY <1>1, Joined
<1>8. /\ BindFirst(s, p)
      /\ Silent(outbox, p) /\ Silent(a, p) => Silent(s, p)
      /\ Announces(s, p) => Announces(outbox, p) \/ Announces(a, p)
      /\ Releases(outbox, p) => Releases(s, p)
  BY <1>1, <1>5, <1>6, JoinedSays
<1>9. /\ BindFirst(u, p)
      /\ Silent(s, p) /\ Silent(b, p) => Silent(u, p)
      /\ Announces(u, p) => Announces(s, p) \/ Announces(b, p)
      /\ Releases(s, p) => Releases(u, p)
  BY <1>1, <1>4, <1>5, <1>6, <1>7, <1>8, JoinedSays
<1> QED
  BY <1>5, <1>6, <1>8, <1>9 DEF a, b, s, u

LEMMA ReleaseServer ==
  ASSUME TypeOK, ReleaseInv, ServerNext PROVE ReleaseInv'
<1>0. UNCHANGED <<batch, pulling, local, added, held, seen, missed>>
  BY DEF ServerNext, EnsureDemoData, CreateParcel, PatchParcelStatus, CheckConfirm,
         CommitConfirm, RecordConfirm, ConfirmConflict, sessionVars, history
<1>1. CASE EnsureDemoData
  <2>1. ASSUME NEW p \in Parcel PROVE ReleaseFits(p)'
    <3>1. /\ outbox' = outbox \o Announce(1) \o Announce(2)
          /\ binding'[p] = IF p \in Seeded /\ binding[p] = "NONE" THEN "ACTIVE" ELSE binding[p]
      BY <1>1 DEF EnsureDemoData
    <3>2. EventsFit(p) /\ RowFits(p) /\ (binding[p] = "RELEASED" /\ p \notin missed => Releasing(p))
      BY DEF ReleaseInv, ReleaseFits
    <3>3. /\ BindFirst(outbox', p)
          /\ binding[p] # "NONE" => (Announces(outbox', p) => Announces(outbox, p))
          /\ p \notin Seeded => (Silent(outbox, p) => Silent(outbox', p))
          /\ Releases(outbox, p) => Releases(outbox', p)
      BY <3>1, <3>2, AnnouncesOnce
    <3>4. /\ BindFirst(outbox', p) /\ BindFirst(batch, p)
          /\ binding'[p] = "NONE" => Silent(outbox', p) /\ Silent(batch, p) /\ NoRow(p)
          /\ Announces(outbox', p) => Silent(batch, p) /\ NoRow(p)
          /\ Announces(batch, p) => NoRow(p)
          /\ pulling = "idle" => batch = <<>>
      BY <3>1, <3>2, <3>3 DEF EventsFit
    <3>5. EventsFit(p)'
      BY <1>0, <3>4 DEF EventsFit, NoRow, Binding, BindFirst, Silent, Announces, Binds
    <3>6. RowFits(p)'
      BY <1>0, <3>2 DEF RowFits, Binding
    <3>7. binding'[p] = "RELEASED" /\ p \notin missed' => Releasing(p)'
      BY <1>0, <3>1, <3>2, <3>3 DEF Releasing, Binding, Releases
    <3> QED
      BY <3>5, <3>6, <3>7 DEF ReleaseFits
  <2>2. \A x \in confirming' : binding'[x[3]] # "NONE"
    <3>1. confirming' = confirming /\ \A x \in confirming : x[3] \in Parcel
      BY <1>1 DEF EnsureDemoData, TypeOK
    <3> QED
      BY <1>1, <3>1 DEF EnsureDemoData, ReleaseInv
  <2> QED
    BY <2>1, <2>2 DEF ReleaseInv
<1>2. ASSUME NEW x \in Request \X EventId \X Parcel, CommitConfirm(x) PROVE ReleaseInv'
  <2> DEFINE e == Down("CONFIRMED", x[3])
             t == <<e>>
  <2>1. /\ x \in confirming /\ confirming' \subseteq confirming
        /\ outbox' = Append(outbox, e) /\ binding' = [binding EXCEPT ![x[3]] = "RELEASED"]
        /\ binding \in [Parcel -> BindingStatus] /\ outbox \in Seq(DownEvent) /\ x[3] \in Parcel
    BY <1>2 DEF CommitConfirm, RecordConfirm, TypeOK
  <2>2. e \in DownEvent /\ e.kind = "CONFIRMED" /\ e.parcel = x[3]
    BY <2>1, EventsAreTyped DEF Down
  <2>3. t \in Seq(DownEvent) /\ outbox' = outbox \o t /\ DOMAIN t = {1} /\ t[1] = e
    BY <2>1, <2>2
  <2> HIDE DEF t, e
  <2>4. ASSUME NEW p \in Parcel PROVE ReleaseFits(p)'
    <3>1. EventsFit(p) /\ RowFits(p) /\ (binding[p] = "RELEASED" /\ p \notin missed => Releasing(p))
      BY DEF ReleaseInv, ReleaseFits
    <3>2. /\ ~ Announces(t, p)
          /\ p # x[3] => Silent(t, p)
          /\ p = x[3] => Releases(t, p)
      BY <2>2, <2>3 DEF Announces, Silent, Releases, Binds
    <3>3. /\ BindFirst(outbox', p)
          /\ Silent(outbox, p) /\ Silent(t, p) => Silent(outbox', p)
          /\ Announces(outbox', p) => Announces(outbox, p)
          /\ Releases(outbox, p) \/ Releases(t, p) => Releases(outbox', p)
      BY <2>1, <2>3, <3>1, <3>2, JoinedSays DEF EventsFit
    <3>4. /\ binding'[p] = "NONE" => p # x[3] /\ binding[p] = "NONE"
          /\ binding'[p] = "RELEASED" => p = x[3] \/ binding[p] = "RELEASED"
      BY <2>1
    <3>5. /\ BindFirst(outbox', p) /\ BindFirst(batch, p)
          /\ binding'[p] = "NONE" => Silent(outbox', p) /\ Silent(batch, p) /\ NoRow(p)
          /\ Announces(outbox', p) => Silent(batch, p) /\ NoRow(p)
          /\ Announces(batch, p) => NoRow(p)
          /\ pulling = "idle" => batch = <<>>
      BY <3>1, <3>2, <3>3, <3>4 DEF EventsFit
    <3>6. EventsFit(p)'
      BY <1>0, <3>5 DEF EventsFit, NoRow, Binding, BindFirst, Silent, Announces, Binds
    <3>7. RowFits(p)'
      BY <1>0, <3>1 DEF RowFits, Binding
    <3>8. binding'[p] = "RELEASED" /\ p \notin missed' => Releasing(p)'
      BY <1>0, <3>1, <3>2, <3>3, <3>4 DEF Releasing, Binding, Releases
    <3> QED
      BY <3>6, <3>7, <3>8 DEF ReleaseFits
  <2>5. \A y \in confirming' : binding'[y[3]] # "NONE"
    BY <2>1 DEF ReleaseInv
  <2> QED
    BY <2>4, <2>5 DEF ReleaseInv
<1>3. CASE UNCHANGED <<outbox, binding>> /\ \A x \in confirming' : x \in confirming \/ binding[x[3]] # "NONE"
  <2>1. \A p \in Parcel : ReleaseFits(p)'
    BY <1>0, <1>3, SameRelease DEF ReleaseInv
  <2> QED
    BY <1>3, <2>1 DEF ReleaseInv
<1>4. ASSUME NEW r \in Request, NEW id \in EventId, NEW p \in Parcel, CheckConfirm(r, id, p)
      PROVE  UNCHANGED <<outbox, binding>> /\ \A x \in confirming' : x \in confirming \/ binding[x[3]] # "NONE"
  <2>1. binding[p] = "ACTIVE" /\ <<r, id, p>>[3] = p
    BY <1>4 DEF CheckConfirm
  <2> QED
    BY <1>4, <2>1 DEF CheckConfirm
<1> QED
  BY <1>1, <1>2, <1>3, <1>4 DEF ServerNext, CreateParcel, PatchParcelStatus, ConfirmConflict

(* The gateway's own pickup releases a binding it has.                     *)
LEMMA ReleaseUpload ==
  ASSUME TypeOK, ReleaseInv, UploadNext PROVE ReleaseInv'
<1>1. UNCHANGED <<binding, confirming, outbox, batch, pulling, added, held, seen, missed>>
  BY DEF UploadNext, InboundParcel, ConfirmPickup, SeedDemoGate, EnqueueEventUpload, ApplyInbound, ApplyPickup,
         serverVars, sessionVars, history
<1>2. ASSUME NEW p \in Parcel
      PROVE  \/ local'[Binding(p)] = local[Binding(p)]
             \/ local[Binding(p)] = "ACTIVE" /\ local'[Binding(p)] = "RELEASED"
  <2>1. local \in [Row -> Status \union BindingStatus] /\ Binding(p) \in Row
    BY ParcelsHaveRows DEF TypeOK, RowValues, Binding
  <2>2. \/ local' = local
        \/ \E q \in Parcel :
              \/ local' = [local EXCEPT ![<<"parcel", q>>] = "WAITING_PICKUP"]
              \/ local' = [local EXCEPT ![<<"parcel", q>>] = "PICKED_UP",
                                 ![<<"binding", q>>] = IF @ = "ACTIVE" THEN "RELEASED" ELSE @]
    BY DEF UploadNext, InboundParcel, ConfirmPickup, SeedDemoGate, EnqueueEventUpload, ApplyInbound, ApplyPickup
  <2>3. \A q \in Parcel : <<"parcel", q>> # Binding(p) /\ (<<"binding", q>> = Binding(p) <=> p = q)
    BY DEF Binding
  <2> QED
    BY <2>1, <2>2, <2>3
<1>3. ASSUME NEW p \in Parcel PROVE ReleaseFits(p)'
  <2>1. EventsFit(p) /\ RowFits(p) /\ (binding[p] = "RELEASED" /\ p \notin missed => Releasing(p))
    BY DEF ReleaseInv, ReleaseFits
  <2>2. CASE local'[Binding(p)] = local[Binding(p)]
    BY <1>1, <2>2, SameRelease DEF ReleaseInv, Binding
  <2>3. CASE local[Binding(p)] = "ACTIVE" /\ local'[Binding(p)] = "RELEASED"
    <3>1. ~ NoRow(p)
      BY <2>3 DEF NoRow
    <3>2. EventsFit(p)'
      BY <1>1, <2>1, <3>1 DEF EventsFit, BindFirst, Silent, Announces, Binds
    <3>3. RowFits(p)'
      BY <1>1, <2>1, <2>3 DEF RowFits, Binding
    <3>4. Releasing(p)'
      BY <2>3 DEF Releasing, Binding
    <3> QED
      BY <3>2, <3>3, <3>4 DEF ReleaseFits
  <2> QED
    BY <1>2, <2>2, <2>3
<1> QED
  BY <1>1, <1>3 DEF ReleaseInv

LEMMA ReleaseServe ==
  ASSUME NEW p \in Parcel, ReleaseFits(p), ServePull PROVE ReleaseFits(p)'
<1>1. /\ pulling = "idle" /\ pulling' = "reply" /\ outbox' = <<>> /\ batch' = outbox
      /\ UNCHANGED <<binding, local, added, held, seen, missed>>
  BY DEF ServePull, serverVars, sessionVars, history
<1>2. EventsFit(p) /\ RowFits(p) /\ (binding[p] = "RELEASED" /\ p \notin missed => Releasing(p))
  BY DEF ReleaseFits
<1>3. /\ BindFirst(<<>>, p) /\ BindFirst(outbox, p)
      /\ binding[p] = "NONE" => Silent(<<>>, p) /\ Silent(outbox, p) /\ NoRow(p)
      /\ ~ Announces(<<>>, p)
      /\ Announces(outbox, p) => NoRow(p)
  BY <1>2, NothingSaid DEF EventsFit
<1>4. EventsFit(p)'
  BY <1>1, <1>3 DEF EventsFit, NoRow, Binding, BindFirst, Silent, Announces, Binds
<1>5. RowFits(p)'
  BY <1>1, <1>2 DEF RowFits, Binding
<1>6. batch = <<>> /\ ~ Releases(<<>>, p)
  BY <1>1, <1>2, NothingSaid DEF EventsFit
<1>7. binding'[p] = "RELEASED" /\ p \notin missed' => Releasing(p)'
  BY <1>1, <1>2, <1>6 DEF Releasing, Binding, Releases
<1> QED
  BY <1>4, <1>5, <1>7 DEF ReleaseFits

(* An event of the batch is applied: the rest of the batch is as before,   *)
(* and only the event's own parcel may change.                             *)
LEMMA ReleaseApply ==
  ASSUME TypeOK, NEW p \in Parcel, EventsFit(p), batch # <<>>, batch' = Tail(batch),
         UNCHANGED <<outbox, binding, local, pulling>>, pulling # "idle",
         Head(batch).kind = "UPSERT" \/ Head(batch).parcel # p =>
            UNCHANGED <<added[Binding(p)], held[Binding(p)], seen[Binding(p)]>>
  PROVE  EventsFit(p)'
<1>1. batch \in Seq(DownEvent)
  BY DEF TypeOK
<1>2. /\ BindFirst(batch', p)
      /\ Silent(batch, p) => Silent(batch', p) /\ ~ Binds(Head(batch), p)
      /\ Announces(batch', p) => Announces(batch, p) /\ ~ Binds(Head(batch), p)
  BY <1>1, TailSays DEF EventsFit
<1>3. ~ Binds(Head(batch), p) => UNCHANGED <<added[Binding(p)], held[Binding(p)], seen[Binding(p)]>>
  BY DEF Binds
<1>4. NoRow(p) /\ ~ Binds(Head(batch), p) => NoRow(p)'
  BY <1>3 DEF NoRow, Binding
<1>5. /\ BindFirst(outbox, p)
      /\ binding[p] = "NONE" => Silent(outbox, p) /\ Silent(batch', p) /\ NoRow(p)'
      /\ Announces(outbox, p) => Silent(batch', p) /\ NoRow(p)'
      /\ Announces(batch', p) => NoRow(p)'
  BY <1>2, <1>4 DEF EventsFit
<1> QED
  BY <1>5 DEF EventsFit, BindFirst, Silent, Announces, Binds

LEMMA InsertChangesOne ==
  ASSUME TypeOK, NEW k \in Row, NEW s, InsertOrAssign(k, s), NEW j \in Row, j # k
  PROVE  added'[j] = added[j] /\ held'[j] = held[j] /\ seen'[j] = seen[j]
<1>1. /\ added \in [Row -> Status \union BindingStatus]
      /\ held \in [Row -> Status \union BindingStatus]
      /\ seen \in [Row -> Status \union BindingStatus]
  BY DEF TypeOK, RowValues
<1> QED
  BY <1>1 DEF InsertOrAssign, Assign

LEMMA ReleaseUpsert ==
  ASSUME TypeOK, NEW p \in Parcel, ReleaseFits(p), ApplyUpsert PROVE ReleaseFits(p)'
<1>1. /\ batch # <<>> /\ batch' = Tail(batch) /\ pulling = "applying" /\ Head(batch).kind = "UPSERT"
      /\ InsertOrAssign(<<"parcel", Head(batch).parcel>>, "WAITING_PICKUP")
      /\ UNCHANGED <<outbox, binding, local, pulling, missed>>
  BY DEF ApplyUpsert, NextEventIs, serverVars, history
<1>2. EventsFit(p) /\ RowFits(p) /\ (binding[p] = "RELEASED" /\ p \notin missed => Releasing(p))
  BY DEF ReleaseFits
<1>3. UNCHANGED <<added[Binding(p)], held[Binding(p)], seen[Binding(p)]>>
  <2>1. <<"parcel", Head(batch).parcel>> \in Row /\ Binding(p) \in Row
    BY <1>1, HeadIsTyped, ParcelsHaveRows DEF Binding
  <2>2. Binding(p) # <<"parcel", Head(batch).parcel>>
    BY DEF Binding
  <2> QED
    BY <1>1, <2>1, <2>2, InsertChangesOne DEF Binding
<1>4. EventsFit(p)'
  BY <1>1, <1>2, <1>3, ReleaseApply
<1>5. RowFits(p)'
  BY <1>1, <1>2, <1>3 DEF RowFits, Binding
<1>6. Releases(batch, p) => Releases(batch', p)
  BY <1>1, TailSays DEF TypeOK
<1>7. binding'[p] = "RELEASED" /\ p \notin missed' => Releasing(p)'
  BY <1>1, <1>2, <1>3, <1>6 DEF Releasing, Binding, Releases
<1> QED
  BY <1>4, <1>5, <1>7 DEF ReleaseFits

(* A binding is announced to a gateway that has no row of it.              *)
LEMMA ReleaseBind ==
  ASSUME TypeOK, NEW p \in Parcel, ReleaseFits(p), ApplyBind PROVE ReleaseFits(p)'
<1> DEFINE k == <<"binding", Head(batch).parcel>>
<1>1. /\ batch # <<>> /\ batch' = Tail(batch) /\ pulling = "applying" /\ Head(batch).kind = "BIND"
      /\ InsertOrAssign(k, "ACTIVE")
      /\ UNCHANGED <<outbox, binding, local, pulling, missed>>
  BY DEF ApplyBind, NextEventIs, serverVars, history
<1>2. EventsFit(p) /\ RowFits(p) /\ (binding[p] = "RELEASED" /\ p \notin missed => Releasing(p))
  BY DEF ReleaseFits
<1>3. k \in Row /\ Binding(p) \in Row /\ batch \in Seq(DownEvent)
  BY <1>1, HeadIsTyped, ParcelsHaveRows DEF Binding, TypeOK
<1>4. Head(batch).parcel # p => UNCHANGED <<added[Binding(p)], held[Binding(p)], seen[Binding(p)]>>
  <2>1. Head(batch).parcel # p => Binding(p) # k
    BY DEF Binding
  <2> QED
    BY <1>1, <1>3, <2>1, InsertChangesOne DEF Binding
<1>5. Head(batch).parcel = p =>
         /\ local[Binding(p)] = "NONE" /\ held[Binding(p)] = "NONE"
         /\ held' = held /\ seen' = seen
  <2>1. ASSUME Head(batch).parcel = p PROVE NoRow(p) /\ k = Binding(p)
    BY <1>1, <1>2, <1>3, <2>1, TailSays DEF EventsFit, Binding
  <2> QED
    BY <1>1, <2>1 DEF NoRow, InsertOrAssign, Loaded
<1>6. EventsFit(p)'
  BY <1>1, <1>2, <1>4, ReleaseApply
<1>7. RowFits(p)'
  BY <1>1, <1>2, <1>4, <1>5 DEF RowFits, Binding
<1>8. Releases(batch, p) => Releases(batch', p)
  BY <1>1, <1>3, TailSays
<1>9. held'[Binding(p)] = held[Binding(p)]
  BY <1>4, <1>5 DEF Binding
<1>10. binding'[p] = "RELEASED" /\ p \notin missed' => Releasing(p)'
  BY <1>1, <1>2, <1>8, <1>9 DEF Releasing, Binding, Releases
<1> QED
  BY <1>6, <1>7, <1>10 DEF ReleaseFits

(* A confirmation releases the row it finds, or is missed.                 *)
LEMMA ReleaseConfirm ==
  ASSUME TypeOK, NEW p \in Parcel, ReleaseFits(p), ApplyConfirmed PROVE ReleaseFits(p)'
<1> DEFINE rows == FoundRows(Head(batch).parcel)
<1>1. /\ batch # <<>> /\ batch' = Tail(batch) /\ pulling = "applying" /\ Head(batch).kind = "CONFIRMED"
      /\ Assign(rows, [parcel |-> "PICKED_UP", binding |-> "RELEASED"])
      /\ missed' = IF Cardinality(rows) = 2 THEN missed ELSE missed \union {Head(batch).parcel}
      /\ UNCHANGED <<outbox, binding, local, pulling, added>>
  BY DEF ApplyConfirmed, SetConfirmed, NextEventIs, serverVars
<1>2. EventsFit(p) /\ RowFits(p) /\ (binding[p] = "RELEASED" /\ p \notin missed => Releasing(p))
  BY DEF ReleaseFits
<1>3. Binding(p) \in Row /\ Binding(p)[1] = "binding" /\ batch \in Seq(DownEvent)
  BY ParcelsHaveRows DEF Binding, TypeOK
<1>4. Binding(p) \notin rows => UNCHANGED <<held[Binding(p)], seen[Binding(p)]>>
  <2>1. /\ held \in [Row -> Status \union BindingStatus]
        /\ seen \in [Row -> Status \union BindingStatus]
    BY DEF TypeOK, RowValues
  <2> QED
    BY <1>1, <1>3, <2>1 DEF Assign, Binding
<1>5. Binding(p) \in rows =>
         /\ Loaded(Binding(p)) # "NONE"
         /\ held'[Binding(p)] = "RELEASED"
         /\ seen'[Binding(p)] = IF held[Binding(p)] = "NONE" THEN local[Binding(p)] ELSE seen[Binding(p)]
  BY <1>1, <1>3 DEF Assign, Binding, FoundRows
<1>6. Head(batch).parcel # p => Binding(p) \notin rows
  BY DEF FoundRows, Binding
<1>7. EventsFit(p)'
  <2>1. Head(batch).parcel # p => UNCHANGED <<added[Binding(p)], held[Binding(p)], seen[Binding(p)]>>
    BY <1>1, <1>4, <1>6 DEF Binding
  <2> QED
    BY <1>1, <1>2, <2>1, ReleaseApply
<1>8. RowFits(p)'
  <2>1. CASE Binding(p) \notin rows
    BY <1>1, <1>2, <1>4, <2>1 DEF RowFits, Binding
  <2>2. CASE Binding(p) \in rows
    BY <1>1, <1>2, <1>5, <2>2 DEF RowFits, Binding, Loaded
  <2> QED
    BY <2>1, <2>2
<1>9. binding'[p] = "RELEASED" /\ p \notin missed' => Releasing(p)'
  <2>1. CASE Head(batch).parcel = p /\ Binding(p) \notin rows
    <3>1. rows \subseteq {<<"parcel", p>>}
      BY <2>1 DEF FoundRows, Binding
    <3>2. Cardinality(rows) # 2
      <4>1. IsFiniteSet({<<"parcel", p>>}) /\ Cardinality({<<"parcel", p>>}) = 1
        BY FS_Singleton
      <4>2. IsFiniteSet(rows) /\ Cardinality(rows) \in Nat /\ Cardinality(rows) <= 1
        BY <3>1, <4>1, FS_Subset, FS_CardinalityType
      <4> QED
        BY <4>2
    <3> QED
      BY <1>1, <2>1, <3>2
  <2>2. CASE Binding(p) \in rows
    BY <1>5, <2>2 DEF Releasing, Binding
  <2>3. CASE Head(batch).parcel # p
    <3>1. Releases(batch, p) => Releases(batch', p)
      BY <1>1, <1>3, <2>3, TailSays
    <3>2. held'[Binding(p)] = held[Binding(p)] /\ missed \subseteq missed'
      BY <1>1, <1>4, <1>6, <2>3 DEF Binding
    <3> QED
      BY <1>1, <1>2, <3>1, <3>2 DEF Releasing, Binding, Releases
  <2> QED
    BY <2>1, <2>2, <2>3
<1> QED
  BY <1>7, <1>8, <1>9 DEF ReleaseFits

(* A commit writes what the session holds.                                 *)
LEMMA ReleaseCommit ==
  ASSUME TypeOK, NEW p \in Parcel, ReleaseFits(p), CommitBatch \/ CommitEarly PROVE ReleaseFits(p)'
<1>1. /\ SessionCommits
      /\ pulling = "applying" /\ pulling' \in {"idle", "applying"} /\ (pulling' = "idle" => batch = <<>>)
      /\ UNCHANGED <<outbox, batch, binding, missed>>
  BY DEF CommitBatch, CommitEarly, serverVars, history
<1>2. EventsFit(p) /\ RowFits(p) /\ (binding[p] = "RELEASED" /\ p \notin missed => Releasing(p))
  BY DEF ReleaseFits
<1>3. /\ added'[Binding(p)] = "NONE" /\ held'[Binding(p)] = "NONE" /\ seen'[Binding(p)] = "NONE"
      /\ local'[Binding(p)] = IF added[Binding(p)] # "NONE" THEN added[Binding(p)]
                              ELSE IF held[Binding(p)] # seen[Binding(p)] THEN held[Binding(p)]
                              ELSE local[Binding(p)]
  <2>1. Binding(p) \in Row
    BY ParcelsHaveRows DEF Binding
  <2> QED
    BY <1>1, <2>1 DEF SessionCommits, EmptySession, NoRows, Binding
<1>4. NoRow(p) => NoRow(p)'
  BY <1>2, <1>3 DEF NoRow, Binding, RowFits
<1>5. EventsFit(p)'
  BY <1>1, <1>2, <1>4 DEF EventsFit, BindFirst, Silent, Announces, Binds
<1>6. RowFits(p)'
  BY <1>3 DEF RowFits, Binding
<1>7. held[Binding(p)] = "RELEASED" \/ local[Binding(p)] = "RELEASED" => local'[Binding(p)] = "RELEASED"
  BY <1>2, <1>3 DEF RowFits
<1>8. binding'[p] = "RELEASED" /\ p \notin missed' => Releasing(p)'
  BY <1>1, <1>2, <1>7 DEF Releasing, Binding, Releases
<1> QED
  BY <1>5, <1>6, <1>8 DEF ReleaseFits

(* What is dropped with a batch is missed.                                 *)
LEMMA ReleaseDrop ==
  ASSUME TypeOK, NEW p \in Parcel, ReleaseFits(p), DropBatch,
         EmptySession \/ (pulling = "reply" /\ UNCHANGED sessionVars)
  PROVE  ReleaseFits(p)'
<1>1. /\ pulling' = "idle" /\ batch' = <<>>
      /\ missed' = missed \union ParcelsIn(batch) \union RowsIn(added) \union RowsIn(held)
      /\ UNCHANGED <<outbox, binding, local>>
  BY DEF DropBatch, serverVars
<1>2. EventsFit(p) /\ RowFits(p) /\ (binding[p] = "RELEASED" /\ p \notin missed => Releasing(p))
  BY DEF ReleaseFits
<1>3. added'[Binding(p)] = "NONE" /\ held'[Binding(p)] = "NONE" /\ seen'[Binding(p)] = "NONE"
  <2>1. CASE EmptySession
    <3>1. Binding(p) \in Row
      BY ParcelsHaveRows DEF Binding
    <3> QED
      BY <2>1, <3>1 DEF EmptySession, NoRows, Binding
  <2>2. CASE pulling = "reply" /\ UNCHANGED sessionVars
    BY <1>2, <2>2 DEF RowFits, sessionVars, Binding
  <2> QED
    BY <2>1, <2>2
<1>4. NoRow(p) => NoRow(p)'
  BY <1>1, <1>3 DEF NoRow, Binding
<1>5. /\ BindFirst(outbox, p) /\ BindFirst(<<>>, p)
      /\ binding[p] = "NONE" => Silent(outbox, p) /\ Silent(<<>>, p) /\ NoRow(p)'
      /\ Announces(outbox, p) => Silent(<<>>, p) /\ NoRow(p)'
      /\ ~ Announces(<<>>, p)
  BY <1>2, <1>4, NothingSaid DEF EventsFit
<1>6. EventsFit(p)'
  BY <1>1, <1>5 DEF EventsFit, BindFirst, Silent, Announces, Binds
<1>7. RowFits(p)'
  BY <1>3 DEF RowFits, Binding
<1>8. Releases(batch, p) \/ held[Binding(p)] = "RELEASED" => p \in missed'
  <2>1. Releases(batch, p) => p \in ParcelsIn(batch)
    BY DEF Releases, ParcelsIn
  <2>2. held[Binding(p)] = "RELEASED" => p \in RowsIn(held)
    BY DEF RowsIn, Binding
  <2> QED
    BY <1>1, <2>1, <2>2
<1>9. binding'[p] = "RELEASED" /\ p \notin missed' => Releasing(p)'
  BY <1>1, <1>2, <1>8 DEF Releasing, Binding, Releases
<1> QED
  BY <1>6, <1>7, <1>9 DEF ReleaseFits

LEMMA ReleasePull ==
  ASSUME TypeOK, ReleaseInv, PullNext PROVE ReleaseInv'
<1>1. UNCHANGED <<binding, confirming>>
  BY DEF PullNext, ServePull, ReceiveReply, ApplyUpsert, ApplyBind, ApplyConfirmed,
         SetConfirmed, CommitBatch, CommitEarly, CommitFails, ReceiveOnBrokenSession,
         LoseReply, Restart, DropBatch, serverVars
<1>2. ASSUME NEW p \in Parcel PROVE ReleaseFits(p)'
  <2>0. ReleaseFits(p)
    BY DEF ReleaseInv
  <2>1. CASE ServePull
    BY <2>0, <2>1, ReleaseServe
  <2>2. CASE ReceiveReply
    BY <2>0, <2>2, SameRelease DEF ReceiveReply, serverVars, sessionVars, history
  <2>3. CASE ApplyUpsert
    BY <2>0, <2>3, ReleaseUpsert
  <2>4. CASE ApplyBind
    BY <2>0, <2>4, ReleaseBind
  <2>5. CASE ApplyConfirmed
    BY <2>0, <2>5, ReleaseConfirm
  <2>6. CASE CommitBatch \/ CommitEarly
    BY <2>0, <2>6, ReleaseCommit
  <2>7. CASE CommitFails \/ ReceiveOnBrokenSession \/ LoseReply \/ Restart
    <3>1. DropBatch /\ (EmptySession \/ (pulling = "reply" /\ UNCHANGED sessionVars))
      BY <2>7 DEF CommitFails, ReceiveOnBrokenSession, LoseReply, Restart
    <3> QED
      BY <2>0, <3>1, ReleaseDrop
  <2> QED
    BY <2>1, <2>2, <2>3, <2>4, <2>5, <2>6, <2>7 DEF PullNext
<1> QED
  BY <1>1, <1>2 DEF ReleaseInv

LEMMA ReleaseStep == TypeOK /\ ReleaseInv /\ [Next]_vars => ReleaseInv'
<1>1. ASSUME ReleaseInv, UNCHANGED vars PROVE ReleaseInv'
  <2>1. \A p \in Parcel : ReleaseFits(p)'
    BY <1>1, SameRelease DEF ReleaseInv, vars
  <2> QED
    BY <1>1, <2>1 DEF ReleaseInv, vars
<1> QED
  BY <1>1, ReleaseServer, ReleaseUpload, ReleasePull DEF Next

(* Whenever the gateway has applied all there is, a binding that a user's  *)
(* confirmation released is released on the gateway too, whatever failed   *)
(* meanwhile, unless the release or the row it was for was missed.         *)
THEOREM ReleasesArrive == Spec => []ReleasedUnlessMissed
<1>1. ReleaseInv => ReleasedUnlessMissed
  <2> SUFFICES ASSUME ReleaseInv, NEW p \in Parcel, outbox = <<>>, pulling = "idle",
                      binding[p] = "RELEASED", p \notin missed
               PROVE  local[<<"binding", p>>] = "RELEASED"
    BY DEF ReleasedUnlessMissed
  <2>1. EventsFit(p) /\ RowFits(p) /\ Releasing(p)
    BY DEF ReleaseInv, ReleaseFits
  <2>2. batch = <<>> /\ held[Binding(p)] = "NONE"
    BY <2>1 DEF EventsFit, RowFits
  <2> QED
    BY <2>1, <2>2, NothingSaid DEF Releasing, Binding
<1>2. QED
  BY <1>1, ReleaseInit, ReleaseStep, TypeCorrect, PTL DEF Spec
=============================================================================
