--------------------------- MODULE CardSync_proofs ---------------------------
(***************************************************************************)
(* Proofs about the card life cycle and its synchronisation, for any       *)
(* number of users, cards, gateways and authentication requests and every  *)
(* choice of faults and gateway commands.                                  *)
(***************************************************************************)
EXTENDS CardSync, TLAPS

(* The events the server queues are events. *)
LEMMA EventsAreTyped ==
  ASSUME NEW c \in Card
  PROVE  /\ Upsert(c) \in Event
         /\ \A s \in Terminal : Disabled(c, s) \in Event
         /\ Auth \in Event
  BY DEF Upsert, Disabled, Auth, Event, CardEvent, AuthEvent, Issued, Terminal

LEMMA AuthIsTyped == Auth \in Event
  BY DEF Auth, Event, AuthEvent

(* Appending events to every outbox keeps the outboxes sequences of them.  *)
LEMMA QueueIsTyped ==
  ASSUME outbox \in [Gateway -> Seq(Event)], NEW events \in Seq(Event),
         QueueStationEvents(events)
  PROVE  outbox' \in [Gateway -> Seq(Event)]
  BY DEF QueueStationEvents

(* The event at the head of a batch names a card and a status it can have. *)
LEMMA HeadIsTyped ==
  ASSUME TypeOK, NEW g \in Gateway, NEW kind \in {"UPSERT", "DISABLED"}, NextEventIs(g, kind)
  PROVE  /\ Head(batch[g]) \in CardEvent
         /\ Head(batch[g]).card \in Card
         /\ Head(batch[g]).status \in Issued
         /\ kind = "DISABLED" => Head(batch[g]).status \in Terminal
         /\ Tail(batch[g]) \in Seq(Event)
<1>1. Head(batch[g]) \in Event /\ Tail(batch[g]) \in Seq(Event)
  BY DEF TypeOK, NextEventIs
<1>2. Head(batch[g]) \in CardEvent
  BY <1>1 DEF NextEventIs, Event, AuthEvent
<1>3. Head(batch[g]).kind = kind
  BY DEF NextEventIs
<1>4. QED
  BY <1>1, <1>2, <1>3 DEF CardEvent, Issued

(* Losing a batch loses cards. *)
LEMMA CardsInTyped ==
  ASSUME NEW events \in Seq(Event)
  PROVE  CardsIn(events) \subseteq Card
<1>1. ASSUME NEW i \in DOMAIN events, events[i].kind # "AUTH"
      PROVE events[i].card \in Card
  <2>1. events[i] \in Event
    OBVIOUS
  <2>2. events[i] \in CardEvent
    BY <1>1, <2>1 DEF Event, AuthEvent
  <2>3. QED
    BY <2>2 DEF CardEvent
<1>2. QED
  BY <1>1 DEF CardsIn

LEMMA DropIsTyped ==
  ASSUME TypeOK, NEW g \in Gateway, NEW cards \in SUBSET Card, Drop(g, cards)
  PROVE  lost' \in [Gateway -> SUBSET Card]
  BY DEF TypeOK, Drop

(* The cards lost with a batch and a session's changes. *)
LEMMA LostCardsTyped ==
  ASSUME TypeOK, NEW g \in Gateway
  PROVE  /\ CardsIn(batch[g]) \in SUBSET Card
         /\ CardsIn(batch[g]) \union RowsIn(added[g]) \union RowsIn(held[g]) \in SUBSET Card
  BY CardsInTyped DEF TypeOK, RowsIn

LEMMA SessionIsTyped ==
  ASSUME TypeOK, NEW g \in Gateway, EmptySession(g)
  PROVE  /\ added' \in [Gateway -> [Card -> Status]]
         /\ seen' \in [Gateway -> [Card -> Status]]
         /\ held' \in [Gateway -> [Card -> Status]]
  BY DEF TypeOK, EmptySession, NoRows, Status

LEMMA CommitIsTyped ==
  ASSUME TypeOK, NEW g \in Gateway, SessionCommits(g)
  PROVE  /\ local' \in [Gateway -> [Card -> Status]]
         /\ added' \in [Gateway -> [Card -> Status]]
         /\ seen' \in [Gateway -> [Card -> Status]]
         /\ held' \in [Gateway -> [Card -> Status]]
         /\ broken' = broken
<1>1. Flushed(g) \in [Card -> Status]
  BY DEF TypeOK, Flushed
<1>2. QED
  BY <1>1, SessionIsTyped DEF SessionCommits, TypeOK

LEMMA AssignIsTyped ==
  ASSUME TypeOK, NEW g \in Gateway, NEW c \in Card, NEW s \in Issued, Assign(g, c, s)
  PROVE  /\ seen' \in [Gateway -> [Card -> Status]]
         /\ held' \in [Gateway -> [Card -> Status]]
  BY DEF TypeOK, Assign, Status

(* A command writes rows of its gateway, and marks those it changes.       *)
LEMMA OperatorWrites ==
  ASSUME TypeOK, NEW h \in Gateway, OperatorNext(h)
  PROVE  \E cards \in SUBSET Card, rows \in [Card -> Status] :
            WriteRows(h, cards, rows) /\ \A c \in Card \ cards : rows[c] = local[h][c]
<1>1. ASSUME NEW c \in Card, SeedLocal(h, c) \/ RegisterLocal(h, c)
      PROVE  /\ WriteRows(h, {c}, [local[h] EXCEPT ![c] = "ACTIVE"])
  BY <1>1 DEF SeedLocal, RegisterLocal
<1>2. ASSUME NEW old \in Card, NEW new \in Card, ReplaceLocal(h, old, new)
      PROVE  WriteRows(h, {old, new}, [local[h] EXCEPT ![old] = "REPLACED", ![new] = "ACTIVE"])
  BY <1>2 DEF ReplaceLocal
<1>3. CASE \E c \in Card : SeedLocal(h, c) \/ RegisterLocal(h, c)
  <2>1. PICK c \in Card : SeedLocal(h, c) \/ RegisterLocal(h, c)
    BY <1>3
  <2> DEFINE cards == {c}
             rows == [local[h] EXCEPT ![c] = "ACTIVE"]
  <2>2. /\ cards \in SUBSET Card /\ rows \in [Card -> Status]
        /\ \A d \in Card \ cards : rows[d] = local[h][d]
    BY DEF TypeOK, Status, Issued
  <2>3. WriteRows(h, cards, rows)
    BY <1>1, <2>1
  <2> HIDE DEF cards, rows
  <2> QED
    BY <2>2, <2>3
<1>4. CASE \E old, new \in Card : ReplaceLocal(h, old, new)
  <2>1. PICK old \in Card, new \in Card : ReplaceLocal(h, old, new)
    BY <1>4
  <2> DEFINE cards == {old, new}
             rows == [local[h] EXCEPT ![old] = "REPLACED", ![new] = "ACTIVE"]
  <2>2. /\ cards \in SUBSET Card /\ rows \in [Card -> Status]
        /\ \A d \in Card \ cards : rows[d] = local[h][d]
    BY DEF TypeOK, Status, Issued, Terminal
  <2>3. WriteRows(h, cards, rows)
    BY <1>2, <2>1
  <2> HIDE DEF cards, rows
  <2> QED
    BY <2>2, <2>3
<1> QED
  BY <1>3, <1>4 DEF OperatorNext
-----------------------------------------------------------------------------
LEMMA TypeInit == Init => TypeOK
  BY ConstantsOK DEF Init, TypeOK, NoRows, Status

LEMMA TypeStep == TypeOK /\ [Next]_vars => TypeOK'
<1> SUFFICES ASSUME TypeOK, [Next]_vars PROVE TypeOK'
  OBVIOUS
<1>1. ASSUME NEW u \in User, NEW c \in Card, BindCard(u, c) PROVE TypeOK'
  <2>1. status' \in [Card -> Status]
    BY <1>1 DEF BindCard, TypeOK, Status, Issued, Terminal
  <2>2. owner' \in [Card -> User \union {NoUser}]
    BY <1>1 DEF BindCard, TypeOK
  <2>3. outbox' \in [Gateway -> Seq(Event)]
    <3>1. <<Upsert(c)>> \in Seq(Event)
      BY EventsAreTyped
    <3>2. \A d \in ActiveCards(u) : <<Disabled(d, "REPLACED"), Upsert(c)>> \in Seq(Event)
      BY EventsAreTyped DEF ActiveCards, Terminal
    <3>3. outbox \in [Gateway -> Seq(Event)]
      BY DEF TypeOK
    <3>4. \E events \in Seq(Event) : QueueStationEvents(events)
      BY <1>1, <3>1, <3>2 DEF BindCard
    <3>5. QED
      BY <3>3, <3>4, QueueIsTyped
  <2>4. QED
    BY <1>1, <2>1, <2>2, <2>3 DEF BindCard, TypeOK, sessionVars, history
<1>2. ASSUME NEW c \in Card, NEW to \in {"LOST", "DISABLED"}, ReadForChange(c, to) PROVE TypeOK'
  BY <1>2 DEF ReadForChange, TypeOK, sessionVars, history
<1>3. ASSUME NEW c \in Card, NEW to \in {"LOST", "DISABLED"}, CommitChange(c, to) PROVE TypeOK'
  <2>1. <<Disabled(c, to)>> \in Seq(Event)
    BY EventsAreTyped DEF Terminal
  <2>2. outbox' \in [Gateway -> Seq(Event)]
    BY <1>3, <2>1, QueueIsTyped DEF CommitChange, TypeOK
  <2>3. QED
    BY <1>3, <2>2 DEF CommitChange, TypeOK, Status, Issued, Terminal, sessionVars, history
<1>4. CASE RequestGateAuth
  <2>1. <<Auth>> \in Seq(Event)
    BY AuthIsTyped
  <2>2. outbox' \in [Gateway -> Seq(Event)]
    BY <1>4, <2>1, QueueIsTyped DEF RequestGateAuth, TypeOK
  <2>3. auths' \in 0..MaxAuth
    BY <1>4, ConstantsOK DEF RequestGateAuth, TypeOK
  <2>4. QED
    BY <1>4, <2>2, <2>3 DEF RequestGateAuth, TypeOK, sessionVars, history
<1>5. ASSUME NEW g \in Gateway, ServePull(g) PROVE TypeOK'
  BY <1>5 DEF ServePull, TypeOK, serverVars, sessionVars, history
<1>6. ASSUME NEW g \in Gateway, ReceiveReply(g) PROVE TypeOK'
  BY <1>6 DEF ReceiveReply, TypeOK, serverVars, sessionVars, history
<1>7. ASSUME NEW g \in Gateway, ReceiveOnBrokenSession(g) PROVE TypeOK'
  BY <1>7, DropIsTyped, LostCardsTyped
     DEF ReceiveOnBrokenSession, TypeOK, serverVars, sessionVars
<1>8. ASSUME NEW g \in Gateway, ApplyUpsert(g) PROVE TypeOK'
  <2> DEFINE e == Head(batch[g])
  <2>1. e.card \in Card /\ e.status \in Issued /\ Tail(batch[g]) \in Seq(Event)
    BY <1>8, HeadIsTyped DEF ApplyUpsert
  <2>2. batch' \in [Gateway -> Seq(Event)]
    BY <1>8, <2>1 DEF ApplyUpsert, TypeOK
  <2>3. /\ added' \in [Gateway -> [Card -> Status]]
        /\ seen' \in [Gateway -> [Card -> Status]]
        /\ held' \in [Gateway -> [Card -> Status]]
    <3>1. CASE Loaded(g, e.card) = "NONE" \/ StaysTerminal(Loaded(g, e.card), e.status)
      <4>1. PICK c \in Card, s \in Status :
               added' = added \/ added' = [added EXCEPT ![g][c] = s]
        BY <1>8, <2>1, <3>1 DEF ApplyUpsert, Status
      <4>2. UNCHANGED <<seen, held>>
        BY <1>8, <3>1 DEF ApplyUpsert
      <4>3. added' \in [Gateway -> [Card -> Status]]
        <5>1. added \in [Gateway -> [Card -> Status]]
          BY DEF TypeOK
        <5>2. QED
          BY <4>1, <5>1
      <4>4. QED
        BY <4>2, <4>3 DEF TypeOK
    <3>2. CASE /\ Loaded(g, e.card) # "NONE"
               /\ ~ StaysTerminal(Loaded(g, e.card), e.status)
      <4>1. Assign(g, e.card, e.status) /\ added' = added
        BY <1>8, <3>2 DEF ApplyUpsert
      <4>2. QED
        BY <2>1, <4>1, AssignIsTyped DEF TypeOK
    <3>3. QED
      BY <3>1, <3>2
  <2>4. QED
    BY <1>8, <2>2, <2>3 DEF ApplyUpsert, TypeOK, serverVars, history
<1>9. ASSUME NEW g \in Gateway, ApplyDisabled(g) PROVE TypeOK'
  <2> DEFINE e == Head(batch[g])
  <2>1. e.card \in Card /\ e.status \in Issued /\ Tail(batch[g]) \in Seq(Event)
    BY <1>9, HeadIsTyped DEF ApplyDisabled
  <2>2. batch' \in [Gateway -> Seq(Event)]
    BY <1>9, <2>1 DEF ApplyDisabled, TypeOK
  <2>3. /\ masked' \in [Gateway -> SUBSET Card]
        /\ seen' \in [Gateway -> [Card -> Status]]
        /\ held' \in [Gateway -> [Card -> Status]]
    <3>1. CASE Loaded(g, e.card) = "NONE"
      <4>1. PICK c \in Card : masked' = [masked EXCEPT ![g] = @ \union {c}]
        BY <1>9, <2>1, <3>1 DEF ApplyDisabled
      <4>2. UNCHANGED <<seen, held>>
        BY <1>9, <3>1 DEF ApplyDisabled
      <4>3. QED
        BY <4>1, <4>2 DEF TypeOK
    <3>2. CASE Loaded(g, e.card) # "NONE"
      <4>1. Assign(g, e.card, e.status) /\ masked' = masked
        BY <1>9, <3>2 DEF ApplyDisabled
      <4>2. QED
        BY <2>1, <4>1, AssignIsTyped DEF TypeOK
    <3>3. QED
      BY <3>1, <3>2
  <2>4. QED
    BY <1>9, <2>2, <2>3 DEF ApplyDisabled, TypeOK, serverVars
<1>10. ASSUME NEW g \in Gateway, ApplyAuth(g) PROVE TypeOK'
  <2>1. batch' \in [Gateway -> Seq(Event)]
    BY <1>10 DEF ApplyAuth, NextEventIs, TypeOK
  <2>2. QED
    BY <1>10, <2>1, CommitIsTyped DEF ApplyAuth, TypeOK, serverVars, history
<1>11. ASSUME NEW g \in Gateway, CommitBatch(g) PROVE TypeOK'
  BY <1>11, CommitIsTyped DEF CommitBatch, TypeOK, serverVars, history
<1>12. ASSUME NEW g \in Gateway, CommitFromMqtt(g) PROVE TypeOK'
  BY <1>12, CommitIsTyped DEF CommitFromMqtt, TypeOK, serverVars, history
<1>13. ASSUME NEW g \in Gateway, CommitFails(g) PROVE TypeOK'
  BY <1>13, SessionIsTyped, DropIsTyped, LostCardsTyped
     DEF CommitFails, SessionBreaks, TypeOK, serverVars
<1>14. ASSUME NEW g \in Gateway, NEW cards \in SUBSET Card, NEW rows \in [Card -> Status],
              WriteRows(g, cards, rows)
       PROVE  TypeOK'
  BY <1>14 DEF WriteRows, TypeOK, serverVars, sessionVars, history
<1>15. ASSUME NEW g \in Gateway, OperatorNext(g)
       PROVE \E cards \in SUBSET Card, rows \in [Card -> Status] : WriteRows(g, cards, rows)
  BY <1>15, OperatorWrites
<1>16. ASSUME NEW g \in Gateway, LoseReply(g) PROVE TypeOK'
  BY <1>16, DropIsTyped, LostCardsTyped DEF LoseReply, TypeOK, serverVars, sessionVars
<1>17. ASSUME NEW g \in Gateway, Restart(g) PROVE TypeOK'
  BY <1>17, SessionIsTyped, DropIsTyped, LostCardsTyped DEF Restart, TypeOK, serverVars
<1>18. CASE UNCHANGED vars
  BY <1>18 DEF vars, TypeOK
<1>19. QED
  BY <1>1, <1>2, <1>3, <1>4, <1>5, <1>6, <1>7, <1>8, <1>9, <1>10, <1>11, <1>12,
     <1>13, <1>14, <1>15, <1>16, <1>17, <1>18 DEF Next, ServerNext, PullNext, FaultNext

(* Type correctness: every variable holds values of its kind in every      *)
(* reachable state.                                                        *)
THEOREM TypeCorrect == Spec => []TypeOK
  BY TypeInit, TypeStep, PTL DEF Spec

-----------------------------------------------------------------------------
(* A gateway's session never turns a row ACTIVE *)

(* An object the session holds ACTIVE was loaded ACTIVE, so that a flush   *)
(* does not write it.                                                      *)
HeldActiveUnchanged ==
    \A g \in Gateway, c \in Card :
       /\ held[g][c] = "ACTIVE" => seen[g][c] = "ACTIVE"
       /\ held[g][c] = "NONE" => seen[g][c] = "NONE"

SessionInv == TypeOK /\ HeldActiveUnchanged

LEMMA SessionInvInit == Init => SessionInv
  BY TypeInit DEF Init, SessionInv, HeldActiveUnchanged, NoRows

LEMMA EmptyKeepsSession ==
  ASSUME SessionInv, NEW g \in Gateway, EmptySession(g) PROVE HeldActiveUnchanged'
  BY DEF SessionInv, TypeOK, HeldActiveUnchanged, EmptySession, NoRows

(* Assigning a status is harmless if it is terminal, or ACTIVE on a row    *)
(* that was loaded ACTIVE.                                                 *)
LEMMA AssignKeepsSession ==
  ASSUME SessionInv, NEW g \in Gateway, NEW c \in Card, NEW s \in Issued,
         Assign(g, c, s), s = "ACTIVE" => Loaded(g, c) = "ACTIVE"
  PROVE  HeldActiveUnchanged'
<1>1. /\ held \in [Gateway -> [Card -> Status]]
      /\ seen \in [Gateway -> [Card -> Status]]
  BY DEF SessionInv, TypeOK
<1>2. ASSUME NEW h \in Gateway, NEW d \in Card, h # g \/ d # c
      PROVE  held'[h][d] = held[h][d] /\ seen'[h][d] = seen[h][d]
  BY <1>1, <1>2 DEF Assign
<1>3. /\ held'[g][c] = s
      /\ seen'[g][c] = IF held[g][c] = "NONE" THEN local[g][c] ELSE seen[g][c]
  BY <1>1 DEF Assign
<1>4. s = "ACTIVE" => seen'[g][c] = "ACTIVE"
  BY <1>3 DEF Loaded, SessionInv, HeldActiveUnchanged
<1>5. s # "NONE"
  BY DEF Issued, Terminal
<1>6. QED
  BY <1>2, <1>3, <1>4, <1>5 DEF SessionInv, HeldActiveUnchanged

LEMMA SessionInvStep == SessionInv /\ [Next]_vars => SessionInv'
<1> SUFFICES ASSUME SessionInv, [Next]_vars PROVE HeldActiveUnchanged'
  BY TypeStep DEF SessionInv
<1>1. ASSUME UNCHANGED <<seen, held>> PROVE HeldActiveUnchanged'
  BY <1>1 DEF SessionInv, HeldActiveUnchanged
<1>2. ASSUME NEW g \in Gateway, ApplyUpsert(g) PROVE HeldActiveUnchanged'
  <2> DEFINE e == Head(batch[g])
  <2>1. e.card \in Card /\ e.status \in Issued
    BY <1>2, HeadIsTyped DEF ApplyUpsert, SessionInv
  <2>2. CASE UNCHANGED <<seen, held>>
    BY <1>1, <2>2
  <2>3. CASE /\ Assign(g, e.card, e.status)
             /\ Loaded(g, e.card) # "NONE"
             /\ ~ StaysTerminal(Loaded(g, e.card), e.status)
    <3>1. Loaded(g, e.card) \in Status
      BY <2>1 DEF Loaded, SessionInv, TypeOK
    <3>2. e.status = "ACTIVE" => Loaded(g, e.card) = "ACTIVE"
      BY <2>3, <3>1 DEF StaysTerminal, Status, Issued
    <3>3. QED
      BY <2>1, <2>3, <3>2, AssignKeepsSession
  <2>4. QED
    BY <1>2, <2>2, <2>3 DEF ApplyUpsert
<1>3. ASSUME NEW g \in Gateway, ApplyDisabled(g) PROVE HeldActiveUnchanged'
  <2> DEFINE e == Head(batch[g])
  <2>1. e.card \in Card /\ e.status \in Terminal
    BY <1>3, HeadIsTyped DEF ApplyDisabled, SessionInv
  <2>2. e.status \in Issued /\ e.status # "ACTIVE"
    BY <2>1 DEF Terminal, Issued
  <2>3. CASE UNCHANGED <<seen, held>>
    BY <1>1, <2>3
  <2>4. CASE Assign(g, e.card, e.status)
    BY <2>1, <2>2, <2>4, AssignKeepsSession
  <2>5. QED
    BY <1>3, <2>3, <2>4 DEF ApplyDisabled
<1>4. ASSUME NEW g \in Gateway,
             \/ ApplyAuth(g) \/ CommitBatch(g) \/ CommitFromMqtt(g)
             \/ CommitFails(g) \/ Restart(g)
      PROVE  HeldActiveUnchanged'
  BY <1>4, EmptyKeepsSession
     DEF ApplyAuth, CommitBatch, CommitFromMqtt, SessionCommits, CommitFails, SessionBreaks,
         Restart
<1>5. CASE ServerNext
  BY <1>1, <1>5 DEF ServerNext, BindCard, ReadForChange, CommitChange, RequestGateAuth, sessionVars
<1>6. ASSUME NEW g \in Gateway,
             \/ ServePull(g) \/ ReceiveReply(g) \/ ReceiveOnBrokenSession(g)
             \/ LoseReply(g) \/ OperatorNext(g)
      PROVE  HeldActiveUnchanged'
  BY <1>1, <1>6 DEF ServePull, ReceiveReply, ReceiveOnBrokenSession, LoseReply, OperatorNext,
     SeedLocal, ReplaceLocal, RegisterLocal, WriteRows, sessionVars
<1>7. CASE UNCHANGED vars
  BY <1>1, <1>7 DEF vars
<1>8. QED
  BY <1>2, <1>3, <1>4, <1>5, <1>6, <1>7 DEF Next, PullNext, FaultNext

(* The only writers of the gateway's table are a commit of its session and *)
(* the operator's commands.                                                *)
LEMMA CommitActivatesNothing ==
  ASSUME SessionInv, NEW h \in Gateway, SessionCommits(h),
         NEW g \in Gateway, NEW c \in Card, local[g][c] \in Terminal
  PROVE  local'[g][c] \in Terminal
<1>1. local'[g][c] = IF g = h THEN Flushed(g)[c] ELSE local[g][c]
  BY DEF SessionCommits, SessionInv, TypeOK
<1>2. CASE g = h
  <2>1. local[g][c] # "NONE"
    BY DEF Terminal
  <2>2. added[g][c] = "NONE"
    BY <1>2, <2>1 DEF SessionCommits, InsertConflict
  <2>3. CASE held[g][c] # seen[g][c]
    <3>1. held[g][c] \in Status /\ seen[g][c] \in Status
      BY DEF SessionInv, TypeOK
    <3>2. held[g][c] \in Terminal
      BY <2>3, <3>1 DEF SessionInv, HeldActiveUnchanged, Status, Issued
    <3>3. QED
      BY <1>1, <1>2, <2>2, <2>3, <3>2 DEF Flushed
  <2>4. CASE held[g][c] = seen[g][c]
    BY <1>1, <1>2, <2>2, <2>4 DEF Flushed
  <2>5. QED
    BY <2>3, <2>4
<1>3. QED
  BY <1>1, <1>2

LEMMA NoReactivationStep ==
  ASSUME SessionInv, [Next]_vars, NEW g \in Gateway, NEW c \in Card,
         local[g][c] \in Terminal, local'[g][c] \notin Terminal
  PROVE  RegisterLocal(g, c)
<1>1. local' # local
  OBVIOUS
<1>2. ~ \E h \in Gateway : SessionCommits(h)
  BY CommitActivatesNothing
<1>3. \E h \in Gateway : OperatorNext(h)
  BY <1>1, <1>2 DEF Next, ServerNext, BindCard, ReadForChange, CommitChange, RequestGateAuth,
     PullNext, ServePull, ReceiveReply, ReceiveOnBrokenSession, ApplyUpsert, ApplyDisabled,
     ApplyAuth, CommitBatch, CommitFromMqtt, CommitFails, SessionBreaks, FaultNext, LoseReply,
     Restart, vars
<1>4. TypeOK
  BY DEF SessionInv
<1>5. PICK h \in Gateway : OperatorNext(h)
  BY <1>3
<1>6. ASSUME NEW d \in Card, SeedLocal(h, d) PROVE FALSE
  BY <1>4, <1>6 DEF SeedLocal, WriteRows, Row, TypeOK, Terminal
<1>7. ASSUME NEW old \in Card, NEW new \in Card, ReplaceLocal(h, old, new) PROVE FALSE
  <2>1. local' = [local EXCEPT ![h] = [local[h] EXCEPT ![old] = "REPLACED", ![new] = "ACTIVE"]]
    BY <1>7 DEF ReplaceLocal, WriteRows
  <2>2. local[h][new] \notin Terminal
    BY <1>7 DEF ReplaceLocal, Row, Terminal
  <2>3. local \in [Gateway -> [Card -> Status]]
    BY <1>4 DEF TypeOK
  <2>4. QED
    BY <2>1, <2>2, <2>3 DEF Terminal
<1>8. ASSUME NEW d \in Card, RegisterLocal(h, d) PROVE h = g /\ d = c
  BY <1>4, <1>8 DEF RegisterLocal, WriteRows, TypeOK
<1>9. QED
  BY <1>5, <1>6, <1>7, <1>8 DEF OperatorNext

(* In a gateway's database a LOST, REPLACED or DISABLED card becomes       *)
(* ACTIVE again only by the register-nfc-credential command, for every     *)
(* choice of faults and commands.                                          *)
THEOREM NoStaleReactivationHolds == Spec => NoStaleReactivation
<1>1. ASSUME SessionInv, [Next]_vars
      PROVE  [\A g \in Gateway, c \in Card :
                /\ local[g][c] \in Terminal
                /\ local'[g][c] \notin Terminal
                => RegisterLocal(g, c)]_vars
  BY <1>1, NoReactivationStep
<1>2. QED
  BY <1>1, SessionInvInit, SessionInvStep, PTL DEF Spec, NoStaleReactivation

-----------------------------------------------------------------------------
(* The server's own rules *)

(* Every change under way concerns a card that was issued. *)
ChangesAreOfIssued == \A x \in changing : status[x[1]] # "NONE"

ServerInv == TypeOK /\ ChangesAreOfIssued

(* Everything but binding and changing a card leaves the server's cards as *)
(* they are.                                                               *)
LEMMA ServerCardsChange ==
  ASSUME [Next]_vars
  PROVE  \/ \E u \in User, c \in Card : BindCard(u, c)
         \/ \E c \in Card, to \in {"LOST", "DISABLED"} : ReadForChange(c, to)
         \/ \E c \in Card, to \in {"LOST", "DISABLED"} : CommitChange(c, to)
         \/ UNCHANGED <<status, owner, changing>>
<1>1. ASSUME NEW g \in Gateway, PullNext(g) \/ CommitFromMqtt(g)
      PROVE  UNCHANGED <<status, owner, changing>>
  BY <1>1 DEF PullNext, ServePull, ReceiveReply, ReceiveOnBrokenSession, ApplyUpsert,
     ApplyDisabled, ApplyAuth, CommitBatch, CommitFromMqtt, CommitFails, SessionBreaks,
     serverVars
<1>2. ASSUME NEW g \in Gateway, OperatorNext(g) PROVE UNCHANGED <<status, owner, changing>>
  BY <1>2 DEF OperatorNext, SeedLocal, ReplaceLocal, RegisterLocal, WriteRows, serverVars
<1>3. ASSUME NEW g \in Gateway, FaultNext(g) PROVE UNCHANGED <<status, owner, changing>>
  BY <1>3 DEF FaultNext, LoseReply, Restart, serverVars
<1>4. CASE RequestGateAuth
  BY <1>4 DEF RequestGateAuth
<1>5. QED
  BY <1>1, <1>2, <1>3, <1>4 DEF Next, ServerNext, vars

LEMMA ServerInvInit == Init => ServerInv
  BY TypeInit DEF Init, ServerInv, ChangesAreOfIssued

LEMMA ServerInvStep == ServerInv /\ [Next]_vars => ServerInv'
<1> SUFFICES ASSUME ServerInv, [Next]_vars PROVE ChangesAreOfIssued'
  BY TypeStep DEF ServerInv
<1> USE DEF ServerInv, TypeOK, ChangesAreOfIssued
<1>1. ASSUME NEW u \in User, NEW c \in Card, BindCard(u, c) PROVE ChangesAreOfIssued'
  BY <1>1 DEF BindCard
<1>2. ASSUME NEW c \in Card, NEW to \in {"LOST", "DISABLED"}, ReadForChange(c, to)
      PROVE ChangesAreOfIssued'
  BY <1>2 DEF ReadForChange
<1>3. ASSUME NEW c \in Card, NEW to \in {"LOST", "DISABLED"}, CommitChange(c, to)
      PROVE ChangesAreOfIssued'
  BY <1>3 DEF CommitChange
<1>4. QED
  BY <1>1, <1>2, <1>3, ServerCardsChange

LEMMA ServerInvariance == Spec => []ServerInv
  BY ServerInvInit, ServerInvStep, PTL DEF Spec

LEMMA OneActiveStep == TypeOK /\ OneActiveCardPerUser /\ [Next]_vars => OneActiveCardPerUser'
<1> SUFFICES ASSUME TypeOK, OneActiveCardPerUser, [Next]_vars PROVE OneActiveCardPerUser'
  OBVIOUS
<1> USE DEF TypeOK, OneActiveCardPerUser
<1>1. ASSUME NEW u \in User, NEW c \in Card, BindCard(u, c) PROVE OneActiveCardPerUser'
  <2>1. /\ status' = [d \in Card |-> IF d = c THEN "ACTIVE"
                                      ELSE IF d \in ActiveCards(u) THEN "REPLACED"
                                      ELSE status[d]]
        /\ owner' = [owner EXCEPT ![c] = u]
    BY <1>1 DEF BindCard
  <2>2. ASSUME NEW d \in Card, d # c, status'[d] = "ACTIVE" PROVE owner'[d] # u
    BY <2>1, <2>2 DEF ActiveCards
  <2>3. QED
    BY <2>1, <2>2
<1>2. ASSUME NEW c \in Card, NEW to \in {"LOST", "DISABLED"}, ReadForChange(c, to)
      PROVE OneActiveCardPerUser'
  BY <1>2 DEF ReadForChange
<1>3. ASSUME NEW c \in Card, NEW to \in {"LOST", "DISABLED"}, CommitChange(c, to)
      PROVE OneActiveCardPerUser'
  BY <1>3 DEF CommitChange
<1>4. QED
  BY <1>1, <1>2, <1>3, ServerCardsChange

(* However binding, loss reports and revocations interleave, a user never  *)
(* has two ACTIVE cards on the server.                                     *)
THEOREM OneActive == Spec => []OneActiveCardPerUser
<1>1. Init => OneActiveCardPerUser
  BY DEF Init, OneActiveCardPerUser, NoRows
<1>2. QED
  BY <1>1, OneActiveStep, TypeCorrect, PTL DEF Spec

LEMMA IssuedStep ==
  ASSUME ServerInv, [Next]_vars, NEW c \in Card, status[c] # "NONE"
  PROVE  /\ owner'[c] = owner[c]
         /\ status'[c] # "NONE"
         /\ status[c] \in Terminal => status'[c] \in Terminal
<1> USE DEF ServerInv, TypeOK, Terminal
<1>1. ASSUME NEW u \in User, NEW d \in Card, BindCard(u, d)
      PROVE  /\ owner'[c] = owner[c]
             /\ status'[c] # "NONE"
             /\ status[c] \in Terminal => status'[c] \in Terminal
  BY <1>1 DEF BindCard, NeverIssued, ActiveCards
<1>2. ASSUME NEW d \in Card, NEW to \in {"LOST", "DISABLED"}, CommitChange(d, to)
      PROVE  /\ owner'[c] = owner[c]
             /\ status'[c] # "NONE"
             /\ status[c] \in Terminal => status'[c] \in Terminal
  BY <1>2 DEF CommitChange
<1>3. ASSUME NEW d \in Card, NEW to \in {"LOST", "DISABLED"}, ReadForChange(d, to)
      PROVE  UNCHANGED <<status, owner>>
  BY <1>3 DEF ReadForChange
<1>4. QED
  BY <1>1, <1>2, <1>3, ServerCardsChange

(* A UID is issued once: it keeps its owner and never leaves the terminal  *)
(* statuses.                                                               *)
THEOREM IssuedOnceHolds == Spec => IssuedOnce
<1>1. ASSUME ServerInv, [Next]_vars
      PROVE  [\A c \in Card :
                status[c] # "NONE" =>
                   /\ owner'[c] = owner[c]
                   /\ status'[c] # "NONE"
                   /\ status[c] \in Terminal => status'[c] \in Terminal]_vars
  BY <1>1, IssuedStep
<1>2. QED
  BY <1>1, ServerInvariance, PTL DEF Spec, IssuedOnce

-----------------------------------------------------------------------------
(* The gateways' view never runs ahead of the server, on cards that no     *)
(* gateway-side command has written.                                       *)

(* A status s that a gateway has for card c is one the server has passed.  *)
RowTrue(s, c) ==
    /\ s # "NONE" => status[c] # "NONE"
    /\ s \in Terminal => status[c] \in Terminal

EventTrue(e) ==
    /\ e.kind = "UPSERT" => e.status = "ACTIVE" /\ status[e.card] # "NONE"
    /\ e.kind = "DISABLED" => e.status \in Terminal /\ status[e.card] \in Terminal

AllTrue(events) == \A i \in DOMAIN events : EventTrue(events[i])

RowsTrue(g) ==
    \A c \in Card \ operated[g] :
       RowTrue(local[g][c], c) /\ RowTrue(added[g][c], c) /\ RowTrue(held[g][c], c)

ViewInv ==
    /\ ServerInv
    /\ \A g \in Gateway : AllTrue(outbox[g]) /\ AllTrue(batch[g]) /\ RowsTrue(g)

LEMMA ViewInvInit == Init => ViewInv
  BY ServerInvInit DEF Init, ViewInv, AllTrue, RowsTrue, RowTrue, NoRows, Terminal

(* What was true of an event or a row stays true: statuses only advance.   *)
LEMMA TruthLasts ==
  ASSUME ServerInv, [Next]_vars
  PROVE  /\ \A s \in Status, c \in Card : RowTrue(s, c) => RowTrue(s, c)'
         /\ \A e \in Event : EventTrue(e) => EventTrue(e)'
<1>1. ASSUME NEW c \in Card
      PROVE  /\ status[c] # "NONE" => status'[c] # "NONE"
             /\ status[c] \in Terminal => status'[c] \in Terminal
  BY <1>1, IssuedStep DEF Terminal
<1>2. ASSUME NEW s \in Status, NEW c \in Card, RowTrue(s, c) PROVE RowTrue(s, c)'
  BY <1>1, <1>2 DEF RowTrue
<1>3. ASSUME NEW e \in Event, EventTrue(e) PROVE EventTrue(e)'
  <2>1. CASE e \in CardEvent
    <3>1. e.card \in Card
      BY <2>1 DEF CardEvent
    <3>2. QED
      BY <1>1, <1>3, <3>1 DEF EventTrue
  <2>2. CASE e \in AuthEvent
    BY <2>2 DEF AuthEvent, EventTrue
  <2>3. QED
    BY <2>1, <2>2 DEF Event
<1>4. QED
  BY <1>2, <1>3

(* Events that are appended to the outboxes have to be true afterwards.    *)
LEMMA QueueStaysTrue ==
  ASSUME TypeOK, NEW events \in Seq(Event), QueueStationEvents(events),
         \A e \in Event : EventTrue(e) => EventTrue(e)',
         \A g \in Gateway : AllTrue(outbox[g]),
         AllTrue(events)'
  PROVE  \A g \in Gateway : AllTrue(outbox[g])'
<1> SUFFICES ASSUME NEW g \in Gateway PROVE AllTrue(outbox[g])'
  OBVIOUS
<1>1. outbox'[g] = outbox[g] \o events /\ outbox[g] \in Seq(Event)
  BY DEF QueueStationEvents, TypeOK
<1>2. ASSUME NEW i \in DOMAIN outbox'[g] PROVE EventTrue(outbox[g][i])'
  <2>1. CASE i \in DOMAIN outbox[g]
    <3>1. outbox'[g][i] = outbox[g][i] /\ outbox[g][i] \in Event
      BY <1>1, <2>1
    <3>2. EventTrue(outbox[g][i])
      BY <2>1 DEF AllTrue
    <3>3. \A e \in Event : e = outbox[g][i] => EventTrue(e)'
      BY <3>2
    <3>4. QED
      BY <3>1, <3>3 DEF EventTrue
  <2>2. CASE i \notin DOMAIN outbox[g]
    <3>1. i - Len(outbox[g]) \in DOMAIN events
      BY <1>1, <1>2, <2>2
    <3>2. outbox'[g][i] = events[i - Len(outbox[g])]
      BY <1>1, <1>2, <2>2
    <3>3. QED
      BY <3>1, <3>2 DEF AllTrue, EventTrue
  <2>3. QED
    BY <2>1, <2>2
<1>3. QED
  BY <1>2 DEF AllTrue

(* An action that leaves the gateways' variables alone leaves them true.   *)
LEMMA GatewaySideStaysTrue ==
  ASSUME ViewInv, [Next]_vars, UNCHANGED <<batch, local, added, held, operated>>
  PROVE  \A g \in Gateway : AllTrue(batch[g])' /\ RowsTrue(g)'
<1> SUFFICES ASSUME NEW g \in Gateway PROVE AllTrue(batch[g])' /\ RowsTrue(g)'
  OBVIOUS
<1>1. /\ local[g] \in [Card -> Status] /\ added[g] \in [Card -> Status]
      /\ held[g] \in [Card -> Status] /\ batch[g] \in Seq(Event)
  BY DEF ViewInv, ServerInv, TypeOK
<1>2. AllTrue(batch[g]) /\ RowsTrue(g) /\ ServerInv
  BY DEF ViewInv
<1>3. \A i \in DOMAIN batch[g] : batch[g][i] \in Event
  BY <1>1
<1>4. AllTrue(batch[g])'
  BY <1>2, <1>3, TruthLasts DEF AllTrue, EventTrue
<1>5. ASSUME NEW c \in Card \ operated[g]
      PROVE  RowTrue(local[g][c], c)' /\ RowTrue(added[g][c], c)' /\ RowTrue(held[g][c], c)'
  <2>1. local[g][c] \in Status /\ added[g][c] \in Status /\ held[g][c] \in Status
    BY <1>1
  <2>2. RowTrue(local[g][c], c) /\ RowTrue(added[g][c], c) /\ RowTrue(held[g][c], c)
    BY <1>2 DEF RowsTrue
  <2>3. \A s \in Status : RowTrue(s, c) => RowTrue(s, c)'
    BY <1>2, TruthLasts
  <2>4. QED
    BY <2>1, <2>2, <2>3 DEF RowTrue
<1>6. QED
  BY <1>4, <1>5 DEF RowsTrue

(* The head of a true batch is true, and so is the rest of it. *)
LEMMA BatchTrue ==
  ASSUME ViewInv, NEW g \in Gateway, batch[g] # <<>>
  PROVE  EventTrue(Head(batch[g])) /\ AllTrue(Tail(batch[g]))
<1>1. batch[g] \in Seq(Event) /\ AllTrue(batch[g])
  BY DEF ViewInv, ServerInv, TypeOK
<1>2. EventTrue(Head(batch[g]))
  BY <1>1 DEF AllTrue
<1>3. ASSUME NEW i \in DOMAIN Tail(batch[g]) PROVE EventTrue(Tail(batch[g])[i])
  <2>1. i + 1 \in DOMAIN batch[g] /\ Tail(batch[g])[i] = batch[g][i + 1]
    BY <1>1, <1>3
  <2>2. QED
    BY <1>1, <2>1 DEF AllTrue
<1>4. QED
  BY <1>2, <1>3 DEF AllTrue

(* What a server action queues is true of the statuses it leaves behind.   *)
LEMMA ServerKeepsView ==
  ASSUME ViewInv, ServerNext PROVE ViewInv'
<1> USE DEF ViewInv
<1>1. [Next]_vars /\ ServerInv /\ ServerInv' /\ TypeOK
  BY ServerInvStep DEF Next, ServerInv
<1>2. ASSUME UNCHANGED <<batch, local, added, held, operated>>,
             \A g \in Gateway : AllTrue(outbox[g])'
      PROVE  ViewInv'
  BY <1>1, <1>2, GatewaySideStaysTrue
<1>3. ASSUME NEW events \in Seq(Event), QueueStationEvents(events), AllTrue(events)'
      PROVE  \A g \in Gateway : AllTrue(outbox[g])'
  BY <1>1, <1>3, TruthLasts, QueueStaysTrue
<1>4. ASSUME NEW u \in User, NEW c \in Card, BindCard(u, c) PROVE ViewInv'
  <2>1. status' = [d \in Card |-> IF d = c THEN "ACTIVE"
                                  ELSE IF d \in ActiveCards(u) THEN "REPLACED"
                                  ELSE status[d]]
    BY <1>4 DEF BindCard
  <2>2. EventTrue(Upsert(c))'
    BY <2>1 DEF EventTrue, Upsert
  <2>3. ASSUME NEW d \in ActiveCards(u) PROVE EventTrue(Disabled(d, "REPLACED"))'
    <3>1. d # c /\ d \in Card
      BY <1>4 DEF BindCard, NeverIssued, ActiveCards
    <3>2. QED
      BY <2>1, <3>1 DEF EventTrue, Disabled, Terminal
  <2>4. <<Upsert(c)>> \in Seq(Event) /\ AllTrue(<<Upsert(c)>>)'
    BY <2>2, EventsAreTyped DEF AllTrue
  <2>5. ASSUME NEW d \in ActiveCards(u)
        PROVE  /\ <<Disabled(d, "REPLACED"), Upsert(c)>> \in Seq(Event)
               /\ AllTrue(<<Disabled(d, "REPLACED"), Upsert(c)>>)'
    BY <2>2, <2>3, EventsAreTyped DEF AllTrue, ActiveCards, Terminal
  <2>6. \/ QueueStationEvents(<<Upsert(c)>>)
        \/ \E d \in ActiveCards(u) : QueueStationEvents(<<Disabled(d, "REPLACED"), Upsert(c)>>)
    BY <1>4 DEF BindCard
  <2>7. \A g \in Gateway : AllTrue(outbox[g])'
    BY <1>3, <2>4, <2>5, <2>6
  <2>8. QED
    BY <1>2, <1>4, <2>7 DEF BindCard, sessionVars, history
<1>5. ASSUME NEW c \in Card, NEW to \in {"LOST", "DISABLED"}, ReadForChange(c, to) PROVE ViewInv'
  <2>1. UNCHANGED <<status, outbox, batch, local, added, held, operated>>
    BY <1>5 DEF ReadForChange, sessionVars, history
  <2>2. QED
    BY <1>2, <2>1 DEF AllTrue, EventTrue
<1>6. ASSUME NEW c \in Card, NEW to \in {"LOST", "DISABLED"}, CommitChange(c, to) PROVE ViewInv'
  <2>1. status'[c] = to
    BY <1>1, <1>6 DEF CommitChange, TypeOK
  <2>2. EventTrue(Disabled(c, to))'
    BY <2>1 DEF EventTrue, Disabled, Terminal
  <2>3. <<Disabled(c, to)>> \in Seq(Event) /\ AllTrue(<<Disabled(c, to)>>)'
    BY <2>2, EventsAreTyped DEF AllTrue, Terminal
  <2>4. \A g \in Gateway : AllTrue(outbox[g])'
    BY <1>3, <1>6, <2>3 DEF CommitChange
  <2>5. QED
    BY <1>2, <1>6, <2>4 DEF CommitChange, sessionVars, history
<1>7. CASE RequestGateAuth
  <2>1. <<Auth>> \in Seq(Event) /\ AllTrue(<<Auth>>)'
    BY AuthIsTyped DEF AllTrue, EventTrue, Auth
  <2>2. \A g \in Gateway : AllTrue(outbox[g])'
    BY <1>3, <1>7, <2>1 DEF RequestGateAuth
  <2>3. QED
    BY <1>2, <1>7, <2>2 DEF RequestGateAuth, sessionVars, history
<1>8. QED
  BY <1>4, <1>5, <1>6, <1>7 DEF ServerNext

(* A commit writes only what was added, modified or there before.          *)
LEMMA CommitStaysTrue ==
  ASSUME ViewInv, NEW h \in Gateway, SessionCommits(h), UNCHANGED <<status, operated>>
  PROVE  \A g \in Gateway : RowsTrue(g)'
<1>1. TypeOK /\ \A g \in Gateway : RowsTrue(g)
  BY DEF ViewInv, ServerInv
<1>2. \A c \in Card \ operated[h] : RowTrue(Flushed(h)[c], c)
  BY <1>1 DEF RowsTrue, Flushed
<1>3. /\ local' = [local EXCEPT ![h] = Flushed(h)]
      /\ added' = [added EXCEPT ![h] = NoRows]
      /\ held' = [held EXCEPT ![h] = NoRows]
  BY DEF SessionCommits, EmptySession
<1>4. ASSUME NEW g \in Gateway, NEW c \in Card \ operated[g]
      PROVE  RowTrue(local[g][c], c)' /\ RowTrue(added[g][c], c)' /\ RowTrue(held[g][c], c)'
  BY <1>1, <1>2, <1>3 DEF TypeOK, RowsTrue, RowTrue, NoRows, Terminal
<1>5. QED
  BY <1>4 DEF RowsTrue

LEMMA EmptyStaysTrue ==
  ASSUME ViewInv, NEW h \in Gateway, EmptySession(h), UNCHANGED <<status, local, operated>>
  PROVE  \A g \in Gateway : RowsTrue(g)'
<1>1. TypeOK /\ \A g \in Gateway : RowsTrue(g)
  BY DEF ViewInv, ServerInv
<1>2. ASSUME NEW g \in Gateway, NEW c \in Card \ operated[g]
      PROVE  RowTrue(local[g][c], c)' /\ RowTrue(added[g][c], c)' /\ RowTrue(held[g][c], c)'
  BY <1>1 DEF EmptySession, TypeOK, RowsTrue, RowTrue, NoRows, Terminal
<1>3. QED
  BY <1>2 DEF RowsTrue

(* Modifying a row, or adding one, with a true status keeps the rows true. *)
LEMMA WriteStaysTrue ==
  ASSUME ViewInv, NEW h \in Gateway, NEW c \in Card, NEW s \in Status, RowTrue(s, c),
         UNCHANGED <<status, local, operated>>,
         \/ held' = [held EXCEPT ![h][c] = s] /\ added' = added
         \/ added' = [added EXCEPT ![h][c] = s] /\ held' = held
         \/ UNCHANGED <<added, held>>
  PROVE  \A g \in Gateway : RowsTrue(g)'
<1>1. TypeOK /\ \A g \in Gateway : RowsTrue(g)
  BY DEF ViewInv, ServerInv
<1>2. ASSUME NEW g \in Gateway, NEW d \in Card \ operated[g]
      PROVE  RowTrue(local[g][d], d)' /\ RowTrue(added[g][d], d)' /\ RowTrue(held[g][d], d)'
  <2>1. RowTrue(local[g][d], d) /\ RowTrue(added[g][d], d) /\ RowTrue(held[g][d], d)
    BY <1>1 DEF RowsTrue
  <2>2. held'[g][d] = held[g][d] \/ (d = c /\ held'[g][d] = s)
    <3>1. held \in [Gateway -> [Card -> Status]]
      BY <1>1 DEF TypeOK
    <3>2. held' = held \/ held' = [held EXCEPT ![h][c] = s]
      OBVIOUS
    <3>3. QED
      BY <3>1, <3>2
  <2>3. added'[g][d] = added[g][d] \/ (d = c /\ added'[g][d] = s)
    <3>1. added \in [Gateway -> [Card -> Status]]
      BY <1>1 DEF TypeOK
    <3>2. added' = added \/ added' = [added EXCEPT ![h][c] = s]
      OBVIOUS
    <3>3. QED
      BY <3>1, <3>2
  <2>4. RowTrue(held[g][d], d)'
    BY <2>1, <2>2 DEF RowTrue
  <2>5. RowTrue(added[g][d], d)'
    BY <2>1, <2>3 DEF RowTrue
  <2>6. RowTrue(local[g][d], d)'
    BY <2>1 DEF RowTrue
  <2>7. QED
    BY <2>4, <2>5, <2>6
<1>3. QED
  BY <1>2 DEF RowsTrue

(* Every step of a pull keeps the view true. *)
LEMMA PullKeepsView ==
  ASSUME ViewInv, NEW h \in Gateway, PullNext(h) PROVE ViewInv'
<1>1. [Next]_vars /\ ServerInv' /\ TypeOK
  BY ServerInvStep DEF Next, ViewInv, ServerInv
<1>2. UNCHANGED <<status, operated>>
  BY DEF PullNext, ServePull, ReceiveReply, ReceiveOnBrokenSession, ApplyUpsert,
     ApplyDisabled, ApplyAuth, CommitBatch, CommitFails, SessionBreaks, serverVars, history
<1>3. \A g \in Gateway : AllTrue(outbox[g]) /\ AllTrue(batch[g]) /\ RowsTrue(g)
  BY DEF ViewInv
<1>4. ASSUME NEW events, AllTrue(events) PROVE AllTrue(events)'
  BY <1>2, <1>4 DEF AllTrue, EventTrue
<1>5. AllTrue(<<>>)
  BY DEF AllTrue
(* A reply only moves events, a commit only rows. *)
<1>6. ASSUME \A g \in Gateway : \/ outbox'[g] = outbox[g]
                                \/ outbox'[g] = <<>>,
             \A g \in Gateway : \/ batch'[g] \in {batch[g], <<>>, outbox[g]}
                                \/ batch[g] # <<>> /\ batch'[g] = Tail(batch[g]),
             \A g \in Gateway : RowsTrue(g)'
      PROVE  ViewInv'
  <2>1. ASSUME NEW g \in Gateway PROVE AllTrue(outbox[g])'
    BY <1>2, <1>3, <1>5, <1>6 DEF AllTrue, EventTrue
  <2>2. ASSUME NEW g \in Gateway PROVE AllTrue(batch[g])'
    <3>1. AllTrue(batch'[g])
      BY <1>3, <1>5, <1>6, BatchTrue
    <3>2. QED
      BY <1>2, <3>1 DEF AllTrue, EventTrue
  <2>3. QED
    BY <1>1, <1>6, <2>1, <2>2 DEF ViewInv
<1>7. ASSUME UNCHANGED <<local, added, held>> PROVE \A g \in Gateway : RowsTrue(g)'
  BY <1>2, <1>3, <1>7 DEF RowsTrue, RowTrue
<1> USE DEF TypeOK
<1>8. CASE ServePull(h)
  BY <1>1, <1>6, <1>7, <1>8 DEF ServePull, sessionVars
<1>9. CASE ReceiveReply(h)
  BY <1>1, <1>6, <1>7, <1>9 DEF ReceiveReply, sessionVars
<1>10. CASE ReceiveOnBrokenSession(h)
  BY <1>1, <1>6, <1>7, <1>10 DEF ReceiveOnBrokenSession, sessionVars
<1>11. CASE ApplyUpsert(h)
  <2> DEFINE e == Head(batch[h])
  <2>1. e.card \in Card /\ e.status \in Status /\ RowTrue(e.status, e.card)
    BY <1>1, <1>11, HeadIsTyped, BatchTrue
       DEF ApplyUpsert, NextEventIs, EventTrue, RowTrue, Status, Terminal
  <2>2. \/ held' = [held EXCEPT ![h][e.card] = e.status] /\ added' = added
        \/ added' = [added EXCEPT ![h][e.card] = e.status] /\ held' = held
        \/ UNCHANGED <<added, held>>
    BY <1>11 DEF ApplyUpsert, Assign
  <2>3. \A g \in Gateway : RowsTrue(g)'
    BY <1>2, <1>11, <2>1, <2>2, WriteStaysTrue DEF ApplyUpsert
  <2>4. /\ \A g \in Gateway : outbox'[g] = outbox[g]
        /\ \A g \in Gateway : \/ batch'[g] = batch[g]
                              \/ batch[g] # <<>> /\ batch'[g] = Tail(batch[g])
    BY <1>1, <1>11 DEF ApplyUpsert, NextEventIs
  <2>5. QED
    BY <1>6, <2>3, <2>4
<1>12. CASE ApplyDisabled(h)
  <2> DEFINE e == Head(batch[h])
  <2>1. e.card \in Card /\ e.status \in Status /\ RowTrue(e.status, e.card)
    BY <1>1, <1>12, HeadIsTyped, BatchTrue
       DEF ApplyDisabled, NextEventIs, EventTrue, RowTrue, Status, Issued, Terminal
  <2>2. \/ held' = [held EXCEPT ![h][e.card] = e.status] /\ added' = added
        \/ UNCHANGED <<added, held>>
    BY <1>12 DEF ApplyDisabled, Assign
  <2>3. \A g \in Gateway : RowsTrue(g)'
    BY <1>2, <1>12, <2>1, <2>2, WriteStaysTrue DEF ApplyDisabled
  <2>4. /\ \A g \in Gateway : outbox'[g] = outbox[g]
        /\ \A g \in Gateway : \/ batch'[g] = batch[g]
                              \/ batch[g] # <<>> /\ batch'[g] = Tail(batch[g])
    BY <1>1, <1>12 DEF ApplyDisabled, NextEventIs
  <2>5. QED
    BY <1>6, <2>3, <2>4
<1>13. CASE ApplyAuth(h)
  <2>1. \A g \in Gateway : RowsTrue(g)'
    BY <1>2, <1>13, CommitStaysTrue DEF ApplyAuth
  <2>2. QED
    BY <1>1, <1>6, <1>13, <2>1 DEF ApplyAuth, NextEventIs
<1>14. CASE CommitBatch(h)
  <2>1. \A g \in Gateway : RowsTrue(g)'
    BY <1>2, <1>14, CommitStaysTrue DEF CommitBatch
  <2>2. QED
    BY <1>1, <1>6, <1>14, <2>1 DEF CommitBatch
<1>15. CASE CommitFails(h)
  <2>1. \A g \in Gateway : RowsTrue(g)'
    BY <1>2, <1>15, EmptyStaysTrue DEF CommitFails, SessionBreaks
  <2>2. QED
    BY <1>1, <1>6, <1>15, <2>1 DEF CommitFails, SessionBreaks
<1>16. QED
  BY <1>8, <1>9, <1>10, <1>11, <1>12, <1>13, <1>14, <1>15 DEF PullNext

(* So does a commit of the MQTT client's thread in the middle of it. *)
LEMMA MqttKeepsView ==
  ASSUME ViewInv, NEW h \in Gateway, CommitFromMqtt(h) PROVE ViewInv'
<1>1. [Next]_vars /\ ServerInv'
  BY ServerInvStep DEF Next, ViewInv
<1>2. UNCHANGED <<status, outbox, batch, operated>>
  BY DEF CommitFromMqtt, serverVars, history
<1>3. \A g \in Gateway : RowsTrue(g)'
  BY <1>2, CommitStaysTrue DEF CommitFromMqtt
<1>4. \A g \in Gateway : AllTrue(outbox[g])' /\ AllTrue(batch[g])'
  BY <1>2 DEF ViewInv, AllTrue, EventTrue
<1>5. QED
  BY <1>1, <1>3, <1>4 DEF ViewInv

LEMMA FaultKeepsView ==
  ASSUME ViewInv, NEW h \in Gateway, FaultNext(h) PROVE ViewInv'
<1>1. [Next]_vars /\ ServerInv' /\ TypeOK
  BY ServerInvStep DEF Next, ViewInv, ServerInv
<1>2. UNCHANGED <<status, outbox, local, operated>>
  BY DEF FaultNext, LoseReply, Restart, serverVars
<1>3. \A g \in Gateway : AllTrue(outbox[g]) /\ AllTrue(batch[g]) /\ RowsTrue(g)
  BY DEF ViewInv
<1>4. \A g \in Gateway : batch'[g] \in {batch[g], <<>>}
  BY <1>1 DEF FaultNext, LoseReply, Restart, TypeOK
<1>5. \A g \in Gateway : AllTrue(outbox[g])' /\ AllTrue(batch[g])'
  BY <1>2, <1>3, <1>4 DEF AllTrue, EventTrue
<1>6. CASE LoseReply(h)
  BY <1>1, <1>2, <1>3, <1>5, <1>6 DEF ViewInv, LoseReply, sessionVars, RowsTrue, RowTrue
<1>7. CASE Restart(h)
  BY <1>1, <1>2, <1>5, <1>7, EmptyStaysTrue DEF ViewInv, Restart
<1>8. QED
  BY <1>6, <1>7 DEF FaultNext

(* A command takes the cards it writes out of the account, and leaves the  *)
(* others as they are.                                                     *)
LEMMA CommandWrites ==
  ASSUME TypeOK, NEW h \in Gateway, OperatorNext(h)
  PROVE  /\ \E cards \in SUBSET Card : operated' = [operated EXCEPT ![h] = @ \union cards]
         /\ \A c \in Card \ operated'[h] : local'[h][c] = local[h][c]
         /\ \A g \in Gateway \ {h} : local'[g] = local[g] /\ operated'[g] = operated[g]
         /\ UNCHANGED <<serverVars, outbox, batch, pulling, sessionVars, lost, masked>>
<1>3. PICK cards \in SUBSET Card, rows \in [Card -> Status] :
         WriteRows(h, cards, rows) /\ \A c \in Card \ cards : rows[c] = local[h][c]
  BY OperatorWrites
<1>4. /\ local' = [local EXCEPT ![h] = rows]
      /\ operated' = [operated EXCEPT ![h] = @ \union cards]
      /\ UNCHANGED <<serverVars, outbox, batch, pulling, sessionVars, lost, masked>>
  BY <1>3 DEF WriteRows
<1>5. operated'[h] = operated[h] \union cards /\ local'[h] = rows
  BY <1>4 DEF TypeOK
<1> QED
  BY <1>3, <1>4, <1>5 DEF TypeOK

LEMMA OperatorKeepsView ==
  ASSUME ViewInv, NEW h \in Gateway, OperatorNext(h) PROVE ViewInv'
<1>1. [Next]_vars /\ ServerInv' /\ TypeOK
  BY ServerInvStep DEF Next, ViewInv, ServerInv
<1>2. /\ UNCHANGED <<status, outbox, batch, added, held>>
      /\ \A c \in Card \ operated'[h] : local'[h][c] = local[h][c]
      /\ \A g \in Gateway \ {h} : local'[g] = local[g] /\ operated'[g] = operated[g]
      /\ operated[h] \subseteq operated'[h]
  BY <1>1, CommandWrites DEF serverVars, sessionVars, TypeOK
<1>3. \A g \in Gateway : AllTrue(outbox[g])' /\ AllTrue(batch[g])'
  BY <1>2 DEF ViewInv, AllTrue, EventTrue
<1>4. ASSUME NEW g \in Gateway, NEW c \in Card \ operated'[g]
      PROVE  RowTrue(local[g][c], c)' /\ RowTrue(added[g][c], c)' /\ RowTrue(held[g][c], c)'
  <2>1. c \in Card \ operated[g] /\ local'[g][c] = local[g][c]
    BY <1>2
  <2>2. RowTrue(local[g][c], c) /\ RowTrue(added[g][c], c) /\ RowTrue(held[g][c], c)
    BY <2>1 DEF ViewInv, RowsTrue
  <2> QED
    BY <1>2, <2>1, <2>2 DEF RowTrue
<1> QED
  BY <1>1, <1>3, <1>4 DEF ViewInv, RowsTrue

LEMMA ViewInvStep ==
  ASSUME ViewInv, [Next]_vars PROVE ViewInv'
<1>1. CASE UNCHANGED vars
  <2>1. ServerInv'
    BY ServerInvStep DEF ViewInv
  <2>2. QED
    BY <1>1, <2>1 DEF vars, ViewInv, AllTrue, EventTrue, RowsTrue, RowTrue
<1>2. QED
  BY <1>1, ServerKeepsView, PullKeepsView, MqttKeepsView, FaultKeepsView, OperatorKeepsView
     DEF Next

(* No gateway ever knows a UID that was not issued, or refuses a card as   *)
(* terminal that the server has not revoked, whatever replies are lost,    *)
(* whichever processes crash and whatever commands its operator gives on   *)
(* other cards.                                                            *)
THEOREM NeverAhead == Spec => []GatewayNeverAhead
<1>1. Init => ViewInv
  BY ViewInvInit
<1>2. ViewInv /\ [Next]_vars => ViewInv'
  BY ViewInvStep
<1>3. ViewInv => GatewayNeverAhead
  BY DEF ViewInv, RowsTrue, RowTrue, GatewayNeverAhead
<1>4. QED
  BY <1>1, <1>2, <1>3, PTL DEF Spec

-----------------------------------------------------------------------------
(* Without a fault an event is lost only to a broken session.              *)

LEMMA LostStep ==
  ASSUME TypeOK, [Next]_vars, NEW h \in Gateway
  PROVE  /\ lost'[h] # lost[h] => broken'[h] \/ FaultNext(h)
         /\ broken[h] /\ ~ broken'[h] => Restart(h)
<1> DEFINE Goal == /\ lost'[h] # lost[h] => broken'[h] \/ FaultNext(h)
                   /\ broken[h] /\ ~ broken'[h] => Restart(h)
<1> SUFFICES Goal
  OBVIOUS
<1>1. ASSUME UNCHANGED <<lost, broken>> PROVE Goal
  BY <1>1
<1>2. ASSUME NEW g \in Gateway, ReceiveOnBrokenSession(g) PROVE Goal
  BY <1>2 DEF ReceiveOnBrokenSession, Drop, sessionVars, TypeOK
<1>3. ASSUME NEW g \in Gateway, CommitFails(g) PROVE Goal
  BY <1>3 DEF CommitFails, SessionBreaks, Drop, TypeOK
<1>4. CASE ServerNext
  BY <1>1, <1>4 DEF ServerNext, BindCard, ReadForChange, CommitChange, RequestGateAuth,
     sessionVars, history
<1>5. ASSUME NEW g \in Gateway,
             \/ ServePull(g) \/ ReceiveReply(g) \/ ApplyUpsert(g) \/ ApplyDisabled(g)
             \/ ApplyAuth(g) \/ CommitBatch(g) \/ CommitFromMqtt(g) \/ OperatorNext(g)
      PROVE  Goal
  BY <1>1, <1>5 DEF ServePull, ReceiveReply, ApplyUpsert, ApplyDisabled, ApplyAuth, CommitBatch,
     CommitFromMqtt, SessionCommits, OperatorNext, SeedLocal, ReplaceLocal, RegisterLocal,
     WriteRows, sessionVars, history
<1>6. ASSUME NEW g \in Gateway, FaultNext(g) PROVE Goal
  <2>1. CASE g = h
    <3>1. LoseReply(h) => broken' = broken
      BY DEF LoseReply, sessionVars
    <3> QED
      BY <1>6, <2>1, <3>1 DEF FaultNext
  <2>2. CASE g # h
    <3>1. LoseReply(g) => lost'[h] = lost[h] /\ broken'[h] = broken[h]
      BY <2>2 DEF LoseReply, Drop, sessionVars, TypeOK
    <3>2. Restart(g) => lost'[h] = lost[h] /\ broken'[h] = broken[h]
      BY <2>2 DEF Restart, Drop, TypeOK
    <3> QED
      BY <1>6, <3>1, <3>2 DEF FaultNext
  <2> QED
    BY <2>1, <2>2
<1>7. CASE UNCHANGED vars
  BY <1>1, <1>7 DEF vars
<1>8. QED
  BY <1>2, <1>3, <1>4, <1>5, <1>6, <1>7 DEF Next, PullNext

(* While every reply arrives and no process stops, an event that was SENT  *)
(* and never committed means that the session is broken, and stays so,     *)
(* whatever the operator's commands insert beside it.                      *)
THEOREM LostMeansBroken == Spec => LostOnlyIfBroken
<1>1. TypeOK /\ [Next]_vars =>
        [\A g \in Gateway :
           /\ lost'[g] # lost[g] => broken'[g] \/ FaultNext(g)
           /\ broken[g] /\ ~ broken'[g] => Restart(g)]_vars
  BY LostStep
<1>2. QED
  BY <1>1, TypeCorrect, PTL DEF Spec, LostOnlyIfBroken

-----------------------------------------------------------------------------
(* A synced gateway is stale only for lost or masked cards.  An event that *)
(* is neither is somewhere on its way: what the session holds, followed by *)
(* the batch and then by the outbox, leads to the server's status.         *)

Of(e, c) == e.kind # "AUTH" /\ e.card = c

(* The events of s about card c lead from status v to status w: the last   *)
(* of them carries w, and the UPSERT, if it is among them, comes first and *)
(* meets no row.                                                           *)
Leads(s, c, v, w) ==
    /\ \A i \in DOMAIN s : Of(s[i], c) =>
          /\ s[i].kind = "UPSERT" =>
                v = "NONE" /\ \A j \in DOMAIN s : Of(s[j], c) => i <= j
          /\ (\A j \in DOMAIN s : Of(s[j], c) => j <= i) => s[i].status = w
    /\ (\A i \in DOMAIN s : ~ Of(s[i], c)) => v = w

(* The status of c once the session is committed *)
View(g, c) == IF added[g][c] # "NONE" THEN added[g][c] ELSE Loaded(g, c)

OnItsWay(g, c) ==
    \E m \in Status : /\ Leads(batch[g], c, View(g, c), m)
                      /\ Leads(outbox[g], c, m, status[c])

(* The cards whose events account for what the gateway knows of them       *)
Followed(g) == Card \ (lost[g] \union masked[g] \union operated[g])

(* What the session's rows say of the table, where nobody else writes it   *)
SessionFits(g) ==
    /\ \A c \in Card \ operated[g] :
          /\ added[g][c] # "NONE" => local[g][c] = "NONE" /\ held[g][c] = "NONE"
          /\ held[g][c] # "NONE" => local[g][c] # "NONE" /\ seen[g][c] = local[g][c]
    /\ \A c \in Card :
          /\ held[g][c] = "NONE" => seen[g][c] = "NONE"
          /\ pulling[g] # "applying" => added[g][c] = "NONE" /\ held[g][c] = "NONE"
    /\ pulling[g] = "idle" => batch[g] = <<>>

DeliveryInv ==
    /\ ViewInv /\ OneActiveCardPerUser
    /\ \A g \in Gateway : SessionFits(g)
    /\ \A g \in Gateway : \A c \in Followed(g) : OnItsWay(g, c)

LEMMA LeadsNowhere ==
  ASSUME NEW c \in Card, NEW v \in Status PROVE Leads(<<>>, c, v, v)
  BY DEF Leads

LEMMA LeadsAppend ==
  ASSUME NEW s \in Seq(Event), NEW t \in Seq(Event), NEW e \in Event, NEW c \in Card,
         NEW v, NEW w, NEW x, Leads(s, c, v, w),
         Len(t) = Len(s) + 1, t[Len(s) + 1] = e, \A i \in 1..Len(s) : t[i] = s[i],
         ~ Of(e, c) => x = w,
         Of(e, c) => /\ e.status = x
                     /\ e.kind = "UPSERT" => v = "NONE" /\ \A i \in DOMAIN s : ~ Of(s[i], c)
  PROVE  Leads(t, c, v, x)
<1>1. /\ DOMAIN s = 1..Len(s) /\ DOMAIN t = 1..(Len(s) + 1) /\ Len(s) \in Nat
      /\ DOMAIN s \subseteq DOMAIN t /\ Len(s) + 1 \in DOMAIN t /\ Len(s) + 1 \notin DOMAIN s
      /\ \A i \in DOMAIN t : i \in DOMAIN s \/ i = Len(s) + 1
      /\ \A i \in DOMAIN s : i <= Len(s) + 1 /\ ~ (Len(s) + 1 <= i)
  OBVIOUS
<1>2. CASE Of(e, c)
  <2>1. ASSUME NEW i \in DOMAIN t, Of(t[i], c), t[i].kind = "UPSERT"
        PROVE  v = "NONE" /\ \A j \in DOMAIN t : Of(t[j], c) => i <= j
    <3>1. CASE i = Len(s) + 1
      BY <1>1, <1>2, <2>1, <3>1
    <3>2. CASE i \in DOMAIN s
      BY <1>1, <2>1, <3>2 DEF Leads
    <3> QED
      BY <1>1, <3>1, <3>2
  <2>2. ASSUME NEW i \in DOMAIN t, \A j \in DOMAIN t : Of(t[j], c) => j <= i PROVE t[i].status = x
    BY <1>1, <1>2, <2>2
  <2> QED
    BY <1>1, <1>2, <2>1, <2>2 DEF Leads
<1>3. CASE ~ Of(e, c)
  <2>1. \A i \in DOMAIN t : Of(t[i], c) <=> i \in DOMAIN s /\ Of(s[i], c)
    BY <1>1, <1>3
  <2> QED
    BY <1>1, <1>3, <2>1 DEF Leads
<1> QED
  BY <1>2, <1>3

LEMMA LeadsTail ==
  ASSUME NEW s \in Seq(Event), s # <<>>, NEW c \in Card, NEW v, NEW w, NEW x, Leads(s, c, v, w),
         ~ Of(Head(s), c) => x = v,
         Of(Head(s), c) => Head(s).status = x
  PROVE  Leads(Tail(s), c, x, w)
<1> DEFINE t == Tail(s)
<1>1. /\ \A i \in DOMAIN t : i + 1 \in DOMAIN s /\ t[i] = s[i + 1]
      /\ \A i \in DOMAIN s : i = 1 \/ (i - 1 \in DOMAIN t /\ t[i - 1] = s[i])
      /\ 1 \in DOMAIN s /\ Head(s) = s[1]
      /\ \A i \in DOMAIN s : i \in Nat \ {0}
      /\ \A i \in DOMAIN t : i \in Nat \ {0}
  OBVIOUS
<1> HIDE DEF t
<1>2. ASSUME NEW i \in DOMAIN t, Of(t[i], c), t[i].kind = "UPSERT"
      PROVE  x = "NONE" /\ \A j \in DOMAIN t : Of(t[j], c) => i <= j
  <2>1. v = "NONE" /\ \A j \in DOMAIN s : Of(s[j], c) => i + 1 <= j
    BY <1>1, <1>2 DEF Leads
  <2>2. ~ Of(Head(s), c)
    BY <1>1, <2>1
  <2>3. ASSUME NEW j \in DOMAIN t, Of(t[j], c) PROVE i <= j
    BY <1>1, <2>1, <2>3
  <2> QED
    BY <2>1, <2>2, <2>3
<1>3. ASSUME NEW i \in DOMAIN t, Of(t[i], c), \A j \in DOMAIN t : Of(t[j], c) => j <= i
      PROVE  t[i].status = w
  <2>1. ASSUME NEW j \in DOMAIN s, Of(s[j], c) PROVE j <= i + 1
    <3>1. CASE j = 1
      BY <1>1, <3>1
    <3>2. CASE j - 1 \in DOMAIN t /\ t[j - 1] = s[j]
      <4>1. j - 1 <= i
        BY <1>3, <2>1, <3>2
      <4> QED
        BY <1>1, <4>1
    <3> QED
      BY <1>1, <3>1, <3>2
  <2>2. i + 1 \in DOMAIN s /\ s[i + 1] = t[i]
    BY <1>1
  <2> QED
    BY <1>3, <2>1, <2>2 DEF Leads
<1>4. ASSUME \A i \in DOMAIN t : ~ Of(t[i], c) PROVE x = w
  <2>1. CASE Of(Head(s), c)
    <3>1. ASSUME NEW j \in DOMAIN s, Of(s[j], c) PROVE j <= 1
      <4>1. j = 1 \/ (j - 1 \in DOMAIN t /\ t[j - 1] = s[j])
        BY <1>1
      <4> QED
        BY <1>4, <3>1, <4>1
    <3> QED
      BY <1>1, <2>1, <3>1 DEF Leads
  <2>2. CASE ~ Of(Head(s), c)
    <3>1. \A j \in DOMAIN s : ~ Of(s[j], c)
      BY <1>1, <1>4, <2>2
    <3> QED
      BY <2>2, <3>1 DEF Leads
  <2> QED
    BY <2>1, <2>2
<1>5. Leads(t, c, x, w)
  BY <1>2, <1>3, <1>4 DEF Leads
<1> QED
  BY <1>5 DEF t

(* Where nothing is on its way, the view is there already.                 *)
LEMMA LeadsHere ==
  ASSUME NEW s \in Seq(Event), NEW c \in Card, NEW v, NEW w, Leads(s, c, v, w),
         c \notin CardsIn(s)
  PROVE  v = w
  BY DEF Leads, Of, CardsIn

LEMMA FollowedIsCard == \A g \in Gateway : Followed(g) \subseteq Card
  BY DEF Followed

LEMMA SameOnItsWay ==
  ASSUME NEW g \in Gateway, NEW c \in Card, OnItsWay(g, c), status'[c] = status[c],
         batch'[g] = batch[g], outbox'[g] = outbox[g],
         added'[g] = added[g], held'[g] = held[g], local'[g] = local[g]
  PROVE  OnItsWay(g, c)'
  BY DEF OnItsWay, Leads, View, Loaded

(* A UID that was never issued is not under way and has no row.            *)
LEMMA NothingBeforeIssue ==
  ASSUME ViewInv, NEW g \in Gateway, NEW c \in Card, status[c] = "NONE"
  PROVE  \A i \in DOMAIN outbox[g] : ~ Of(outbox[g][i], c)
<1> SUFFICES ASSUME NEW i \in DOMAIN outbox[g], Of(outbox[g][i], c) PROVE FALSE
  OBVIOUS
<1>1. outbox[g][i] \in Event /\ EventTrue(outbox[g][i])
  BY DEF ViewInv, ServerInv, TypeOK, AllTrue
<1>2. QED
  BY <1>1 DEF Of, EventTrue, Event, CardEvent, AuthEvent, Terminal

(* Queueing an event that tells the card's new status keeps it on its way. *)
LEMMA QueueOnItsWay ==
  ASSUME ViewInv, NEW g \in Gateway, NEW c \in Card, NEW m \in Status,
         Leads(outbox[g], c, m, status[c]), NEW e \in Event,
         e.kind = "UPSERT" => status[e.card] = "NONE",
         NEW x, IF Of(e, c) THEN e.status = x ELSE x = status[c]
  PROVE  Leads(outbox[g] \o <<e>>, c, m, x)
<1>1. outbox[g] \in Seq(Event) /\ <<e>> \in Seq(Event) /\ outbox[g] \o <<e>> \in Seq(Event)
  BY DEF ViewInv, ServerInv, TypeOK
<1>2. /\ Len(outbox[g] \o <<e>>) = Len(outbox[g]) + 1
      /\ (outbox[g] \o <<e>>)[Len(outbox[g]) + 1] = e
      /\ \A i \in 1..Len(outbox[g]) : (outbox[g] \o <<e>>)[i] = outbox[g][i]
  BY <1>1
<1>3. ASSUME Of(e, c), e.kind = "UPSERT"
      PROVE  m = "NONE" /\ \A i \in DOMAIN outbox[g] : ~ Of(outbox[g][i], c)
  <2>1. status[c] = "NONE"
    BY <1>3 DEF Of
  <2>2. \A i \in DOMAIN outbox[g] : ~ Of(outbox[g][i], c)
    BY <2>1, NothingBeforeIssue
  <2> QED
    BY <2>1, <2>2 DEF Leads
<1> DEFINE t == outbox[g] \o <<e>>
<1> HIDE DEF t
<1>4. /\ t \in Seq(Event) /\ Len(t) = Len(outbox[g]) + 1 /\ t[Len(outbox[g]) + 1] = e
      /\ \A i \in 1..Len(outbox[g]) : t[i] = outbox[g][i]
  BY <1>1, <1>2 DEF t
<1>5. Leads(t, c, m, x)
  BY <1>1, <1>3, <1>4, LeadsAppend
<1>6. QED
  BY <1>5 DEF t

LEMMA ServerKeepsDelivery ==
  ASSUME DeliveryInv, ServerNext PROVE DeliveryInv'
<1>1. ViewInv /\ ViewInv' /\ TypeOK /\ OneActiveCardPerUser'
  BY ServerKeepsView, OneActiveStep DEF DeliveryInv, ViewInv, ServerInv, Next
<1>2. UNCHANGED <<batch, pulling, local, added, seen, held, lost, masked, operated>>
  BY DEF ServerNext, BindCard, ReadForChange, CommitChange, RequestGateAuth, sessionVars, history
<1>3. \A g \in Gateway : SessionFits(g)'
  BY <1>2 DEF DeliveryInv, SessionFits
<1> SUFFICES ASSUME NEW g \in Gateway, NEW c \in Card, c \in Followed(g) PROVE OnItsWay(g, c)'
  BY <1>1, <1>2, <1>3, FollowedIsCard DEF DeliveryInv, Followed
<1>4. PICK m \in Status : Leads(batch[g], c, View(g, c), m) /\ Leads(outbox[g], c, m, status[c])
  BY DEF DeliveryInv, OnItsWay
<1>5. ASSUME Leads(outbox'[g], c, m, status'[c]) PROVE OnItsWay(g, c)'
  BY <1>2, <1>4, <1>5 DEF OnItsWay, Leads, View, Loaded
<1>6. ASSUME NEW u \in User, NEW d \in Card, BindCard(u, d) PROVE OnItsWay(g, c)'
  <2>1. /\ status' = [b \in Card |-> IF b = d THEN "ACTIVE"
                                     ELSE IF b \in ActiveCards(u) THEN "REPLACED"
                                     ELSE status[b]]
        /\ status[d] = "NONE"
    BY <1>6 DEF BindCard, NeverIssued
  <2>2. CASE ActiveCards(u) = {} /\ QueueStationEvents(<<Upsert(d)>>)
    <3>1. outbox'[g] = outbox[g] \o <<Upsert(d)>>
      BY <2>2 DEF QueueStationEvents
    <3>2. Upsert(d) \in Event /\ Upsert(d).card = d /\ Upsert(d).kind = "UPSERT" /\ Upsert(d).status = "ACTIVE"
      BY EventsAreTyped DEF Upsert
    <3>3. IF Of(Upsert(d), c) THEN Upsert(d).status = status'[c] ELSE status'[c] = status[c]
      BY <2>1, <2>2, <3>2 DEF Of
    <3>4. Leads(outbox'[g], c, m, status'[c])
      BY <1>1, <1>4, <2>1, <3>1, <3>2, <3>3, QueueOnItsWay
    <3> QED
      BY <1>5, <3>4
  <2>3. ASSUME NEW o \in ActiveCards(u), QueueStationEvents(<<Disabled(o, "REPLACED"), Upsert(d)>>)
        PROVE  OnItsWay(g, c)'
    <3> DEFINE e == Disabled(o, "REPLACED")
               f == Upsert(d)
               s == outbox[g] \o <<e>>
               t == outbox[g] \o <<e, f>>
               x == IF c = o THEN "REPLACED" ELSE status[c]
    <3>1. o \in Card /\ status[o] = "ACTIVE" /\ o # d
      BY <2>1 DEF ActiveCards
    <3>2. \A b \in ActiveCards(u) : b = o
      BY DEF ActiveCards, DeliveryInv, OneActiveCardPerUser
    <3>3. status'[c] = IF c = d THEN "ACTIVE" ELSE x
      BY <2>1, <2>3, <3>2
    <3>4. /\ e \in Event /\ e.kind = "DISABLED" /\ e.card = o /\ e.status = "REPLACED"
          /\ f \in Event /\ f.kind = "UPSERT" /\ f.card = d /\ f.status = "ACTIVE"
      BY <3>1, EventsAreTyped DEF Disabled, Upsert, Terminal
    <3>5. outbox'[g] = t /\ outbox[g] \in Seq(Event)
      BY <1>1, <2>3 DEF QueueStationEvents, TypeOK
    <3> HIDE DEF e, f
    <3>6. /\ s \in Seq(Event) /\ t \in Seq(Event)
          /\ Len(s) = Len(outbox[g]) + 1 /\ Len(t) = Len(s) + 1 /\ t[Len(s) + 1] = f
          /\ \A i \in 1..Len(s) : t[i] = s[i] /\ ((i \in DOMAIN outbox[g] /\ s[i] = outbox[g][i]) \/ s[i] = e)
      BY <3>4, <3>5
    <3>7. Leads(s, c, m, x)
      <4>1. IF Of(e, c) THEN e.status = x ELSE x = status[c]
        BY <3>4 DEF Of
      <4>2. e.kind # "UPSERT"
        BY <3>4
      <4> HIDE DEF x
      <4> QED
        BY <1>1, <1>4, <3>4, <4>1, <4>2, QueueOnItsWay
    <3> HIDE DEF s, t
    <3>8. ASSUME Of(f, c) PROVE m = "NONE" /\ \A i \in DOMAIN s : ~ Of(s[i], c)
      <4>1. c = d /\ \A i \in DOMAIN outbox[g] : ~ Of(outbox[g][i], c)
        BY <1>1, <2>1, <3>4, <3>8, NothingBeforeIssue DEF Of
      <4>2. m = "NONE"
        BY <1>4, <2>1, <4>1 DEF Leads
      <4>3. ~ Of(e, c) /\ DOMAIN s = 1..Len(s)
        BY <3>1, <3>4, <3>6, <4>1 DEF Of
      <4> QED
        BY <3>6, <4>1, <4>2, <4>3
    <3>9. Leads(t, c, m, status'[c])
      <4>1. IF Of(f, c) THEN f.status = status'[c] ELSE status'[c] = x
        BY <3>3, <3>4 DEF Of
      <4> HIDE DEF x
      <4> QED
        BY <3>4, <3>6, <3>7, <3>8, <4>1, LeadsAppend
    <3> QED
      BY <1>5, <3>5, <3>9
  <2> QED
    BY <1>6, <2>2, <2>3 DEF BindCard
<1>7. ASSUME NEW d \in Card, NEW to \in {"LOST", "DISABLED"}, CommitChange(d, to) PROVE OnItsWay(g, c)'
  <2>1. outbox'[g] = outbox[g] \o <<Disabled(d, to)>> /\ status' = [status EXCEPT ![d] = to]
    BY <1>7 DEF CommitChange, QueueStationEvents
  <2>2. /\ Disabled(d, to) \in Event /\ Disabled(d, to).card = d
        /\ Disabled(d, to).kind = "DISABLED" /\ Disabled(d, to).status = to
    BY EventsAreTyped DEF Disabled, Terminal
  <2>3. IF Of(Disabled(d, to), c) THEN Disabled(d, to).status = status'[c] ELSE status'[c] = status[c]
    BY <1>1, <2>1, <2>2 DEF Of, TypeOK
  <2>4. Leads(outbox'[g], c, m, status'[c])
    BY <1>1, <1>4, <2>1, <2>2, <2>3, QueueOnItsWay
  <2> QED
    BY <1>5, <2>4
<1>8. CASE RequestGateAuth
  <2>1. outbox'[g] = outbox[g] \o <<Auth>> /\ status' = status
    BY <1>8 DEF RequestGateAuth, QueueStationEvents
  <2>2. Auth \in Event /\ Auth.kind = "AUTH" /\ ~ Of(Auth, c)
    BY AuthIsTyped DEF Auth, Of
  <2>3. Leads(outbox'[g], c, m, status'[c])
    BY <1>1, <1>4, <2>1, <2>2, QueueOnItsWay
  <2> QED
    BY <1>5, <2>3
<1>9. ASSUME NEW d \in Card, NEW to \in {"LOST", "DISABLED"}, ReadForChange(d, to) PROVE OnItsWay(g, c)'
  BY <1>4, <1>5, <1>9 DEF ReadForChange
<1> QED
  BY <1>6, <1>7, <1>8, <1>9 DEF ServerNext

(* What a step of gateway h does to the others, and to the server's cards  *)
Alone(h) ==
    /\ UNCHANGED <<status, owner>>
    /\ \A g \in Gateway \ {h} :
          /\ batch'[g] = batch[g] /\ outbox'[g] = outbox[g] /\ pulling'[g] = pulling[g]
          /\ local'[g] = local[g] /\ added'[g] = added[g] /\ seen'[g] = seen[g]
          /\ held'[g] = held[g] /\ lost'[g] = lost[g] /\ masked'[g] = masked[g]
          /\ operated'[g] = operated[g]

LEMMA AloneKeepsDelivery ==
  ASSUME DeliveryInv, ViewInv', NEW h \in Gateway, Alone(h), SessionFits(h)',
         \A c \in Followed(h)' : OnItsWay(h, c)'
  PROVE  DeliveryInv'
<1>1. OneActiveCardPerUser'
  BY DEF DeliveryInv, OneActiveCardPerUser, Alone
<1>2. ASSUME NEW g \in Gateway PROVE SessionFits(g)'
  BY DEF DeliveryInv, SessionFits, Alone
<1>3. ASSUME NEW g \in Gateway, NEW c \in Followed(g)' PROVE OnItsWay(g, c)'
  <2>1. CASE g = h
    BY <2>1
  <2>2. CASE g # h
    <3>1. c \in Followed(g)
      BY <2>2 DEF Alone, Followed
    <3> QED
      BY <2>2, <3>1, SameOnItsWay DEF DeliveryInv, Alone, Followed
  <2> QED
    BY <2>1, <2>2
<1> QED
  BY <1>1, <1>2, <1>3 DEF DeliveryInv

(* A commit writes what was in view.                                       *)
LEMMA FlushedIsView ==
  ASSUME TypeOK, NEW h \in Gateway, SessionFits(h), NEW c \in Card \ operated[h]
  PROVE  Flushed(h)[c] = View(h, c) /\ View(h, c) \in Status
  BY DEF TypeOK, Flushed, View, Loaded, SessionFits

LEMMA CommitShowsView ==
  ASSUME TypeOK, NEW h \in Gateway, SessionFits(h), SessionCommits(h), NEW c \in Card \ operated[h]
  PROVE  View(h, c)' = View(h, c)
<1>1. /\ local'[h][c] = View(h, c)
      /\ added'[h][c] = "NONE" /\ held'[h][c] = "NONE"
  BY FlushedIsView DEF SessionCommits, EmptySession, NoRows, TypeOK
<1> QED
  BY <1>1 DEF View, Loaded

LEMMA CommitFits ==
  ASSUME TypeOK, NEW h \in Gateway, SessionFits(h), SessionCommits(h),
         pulling'[h] = "idle" => batch'[h] = <<>>, operated' = operated
  PROVE  SessionFits(h)'
  BY DEF SessionFits, SessionCommits, EmptySession, NoRows, TypeOK

(* Losing what was received loses the cards it was about, or whose rows    *)
(* were not committed; the others are where they were.                     *)
LEMMA DropKeepsWay ==
  ASSUME DeliveryInv, NEW h \in Gateway, NEW cards, Drop(h, cards), CardsIn(batch[h]) \subseteq cards,
         \A c \in Card \ cards : View(h, c) = local[h][c],
         batch'[h] = <<>>, UNCHANGED <<status, outbox, local, masked, operated>>,
         \A c \in Card : added'[h][c] = "NONE" /\ held'[h][c] = "NONE"
  PROVE  \A c \in Followed(h)' : OnItsWay(h, c)'
<1> SUFFICES ASSUME NEW c \in Followed(h)' PROVE OnItsWay(h, c)'
  OBVIOUS
<1>1. c \in Card /\ c \in Followed(h) /\ c \notin cards /\ batch[h] \in Seq(Event)
  BY DEF Followed, Drop, DeliveryInv, ViewInv, ServerInv, TypeOK
<1>2. PICK m \in Status : Leads(batch[h], c, View(h, c), m) /\ Leads(outbox[h], c, m, status[c])
  BY <1>1 DEF DeliveryInv, OnItsWay
<1>3. View(h, c) = m
  BY <1>1, <1>2, LeadsHere
<1>4. View(h, c)' = m
  BY <1>1, <1>3 DEF View, Loaded
<1>5. Leads(<<>>, c, m, m)
  BY <1>1, LeadsNowhere
<1> QED
  BY <1>2, <1>4, <1>5 DEF OnItsWay, Leads

LEMMA ServeKeepsDelivery ==
  ASSUME DeliveryInv, ViewInv', NEW h \in Gateway, ServePull(h) PROVE DeliveryInv'
<1> USE DEF ServePull, serverVars, sessionVars, history
<1>1. TypeOK /\ SessionFits(h)
  BY DEF DeliveryInv, ViewInv, ServerInv
<1>2. Alone(h) /\ UNCHANGED <<lost, masked, operated>> /\ batch'[h] = outbox[h] /\ outbox'[h] = <<>>
  BY <1>1 DEF Alone, TypeOK
<1>3. SessionFits(h)'
  BY <1>1 DEF SessionFits, TypeOK
<1>4. ASSUME NEW c \in Followed(h) PROVE OnItsWay(h, c)'
  <2>0. c \in Card
    BY FollowedIsCard
  <2>1. PICK m \in Status : Leads(batch[h], c, View(h, c), m) /\ Leads(outbox[h], c, m, status[c])
    BY DEF DeliveryInv, OnItsWay
  <2>2. batch[h] = <<>>
    BY <1>1 DEF SessionFits
  <2>3. View(h, c) = m
    BY <2>0, <2>1, <2>2 DEF Leads
  <2>4. View(h, c)' = m /\ status[c] \in Status
    BY <1>1, <2>0, <2>3 DEF View, Loaded, TypeOK
  <2>5. Leads(<<>>, c, status[c], status[c])
    BY <2>0, <2>4, LeadsNowhere
  <2> QED
    BY <1>2, <2>1, <2>4, <2>5 DEF OnItsWay, Leads
<1> QED
  BY <1>2, <1>3, <1>4, AloneKeepsDelivery DEF Followed

(* An event that finds its row, or makes it, gives it its own status.      *)
LEMMA ApplyKeepsWay ==
  ASSUME DeliveryInv, NEW h \in Gateway, batch[h] # <<>>, batch'[h] = Tail(batch[h]),
         UNCHANGED <<status, outbox>>,
         NEW c \in Followed(h),
         View(h, c)' = IF Of(Head(batch[h]), c) THEN Head(batch[h]).status ELSE View(h, c)
  PROVE  OnItsWay(h, c)'
<1>1. PICK m \in Status : Leads(batch[h], c, View(h, c), m) /\ Leads(outbox[h], c, m, status[c])
  BY DEF DeliveryInv, OnItsWay
<1>2. batch[h] \in Seq(Event)
  BY DEF DeliveryInv, ViewInv, ServerInv, TypeOK
<1>3. Leads(Tail(batch[h]), c, View(h, c)', m)
  BY <1>1, <1>2, FollowedIsCard, LeadsTail
<1> QED
  BY <1>1, <1>3 DEF OnItsWay, Leads

LEMMA UpsertMeetsNoRow ==
  ASSUME DeliveryInv, NEW h \in Gateway, NextEventIs(h, "UPSERT"),
         NEW c \in Followed(h), c = Head(batch[h]).card
  PROVE  View(h, c) = "NONE" /\ Loaded(h, c) = "NONE" /\ held[h][c] = "NONE"
<1>1. PICK m \in Status : Leads(batch[h], c, View(h, c), m)
  BY DEF DeliveryInv, OnItsWay
<1>2. batch[h] \in Seq(Event) /\ 1 \in DOMAIN batch[h] /\ Head(batch[h]) = batch[h][1]
  BY DEF DeliveryInv, ViewInv, ServerInv, TypeOK, NextEventIs
<1>3. View(h, c) = "NONE"
  BY <1>1, <1>2 DEF Leads, Of, NextEventIs
<1> QED
  BY <1>3 DEF View, Loaded

LEMMA UpsertKeepsDelivery ==
  ASSUME DeliveryInv, ViewInv', NEW h \in Gateway, ApplyUpsert(h) PROVE DeliveryInv'
<1> DEFINE e == Head(batch[h])
<1>1. TypeOK /\ SessionFits(h)
  BY DEF DeliveryInv, ViewInv, ServerInv
<1>2. e.card \in Card /\ e.status \in Issued /\ NextEventIs(h, "UPSERT") /\ e.kind = "UPSERT"
  BY <1>1, HeadIsTyped DEF ApplyUpsert, NextEventIs
<1>3. /\ batch' = [batch EXCEPT ![h] = Tail(@)] /\ pulling[h] = "applying" /\ batch[h] # <<>>
      /\ UNCHANGED <<serverVars, outbox, pulling, local, broken, history>>
  BY DEF ApplyUpsert, NextEventIs
<1>4. \/ Loaded(h, e.card) = "NONE" /\ added' = [added EXCEPT ![h][e.card] = e.status]
         /\ UNCHANGED <<seen, held>>
      \/ Loaded(h, e.card) # "NONE" /\ UNCHANGED <<added, seen, held>>
      \/ Loaded(h, e.card) # "NONE" /\ Assign(h, e.card, e.status) /\ UNCHANGED added
  BY DEF ApplyUpsert
<1> HIDE DEF e
<1>5. Alone(h)
  BY <1>1, <1>2, <1>3, <1>4 DEF Alone, Assign, TypeOK, serverVars, history
<1>6. SessionFits(h)'
  <2>1. pulling' = pulling /\ local' = local /\ operated' = operated
    BY <1>3 DEF history
  <2>2. ASSUME NEW c \in Card PROVE held'[h][c] = "NONE" => seen'[h][c] = "NONE"
    BY <1>1, <1>2, <1>4 DEF SessionFits, Assign, TypeOK, Issued, Terminal
  <2>3. ASSUME NEW c \in Card \ operated[h], added'[h][c] # "NONE"
        PROVE  local[h][c] = "NONE" /\ held'[h][c] = "NONE"
    BY <1>1, <1>2, <1>3, <1>4, <2>3 DEF SessionFits, Assign, Loaded, TypeOK
  <2>4. ASSUME NEW c \in Card \ operated[h], held'[h][c] # "NONE"
        PROVE  local[h][c] # "NONE" /\ seen'[h][c] = local[h][c]
    <3>1. CASE held' = held /\ seen' = seen
      BY <1>1, <2>4, <3>1 DEF SessionFits
    <3>2. CASE Loaded(h, e.card) # "NONE" /\ Assign(h, e.card, e.status)
      BY <1>1, <2>4, <3>2 DEF SessionFits, Assign, Loaded, TypeOK
    <3> QED
      BY <1>4, <3>1, <3>2
  <2> QED
    BY <1>3, <2>1, <2>2, <2>3, <2>4 DEF SessionFits
<1>7. ASSUME NEW c \in Followed(h) PROVE OnItsWay(h, c)'
  <2>0. c \in Card
    BY FollowedIsCard
  <2>1. CASE c = e.card
    <3>1. Loaded(h, c) = "NONE" /\ held[h][c] = "NONE"
      BY <1>2, <2>1, UpsertMeetsNoRow DEF e
    <3>2. View(h, c)' = e.status
      BY <1>1, <1>2, <1>3, <1>4, <2>1, <3>1 DEF View, Loaded, TypeOK, Issued, Terminal
    <3>3. Of(e, c)
      BY <1>2, <2>1 DEF Of
    <3> QED
      BY <1>1, <1>3, <3>2, <3>3, ApplyKeepsWay DEF TypeOK, serverVars, e
  <2>2. CASE c # e.card
    <3>1. View(h, c)' = View(h, c)
      BY <1>1, <1>2, <1>3, <1>4, <2>0, <2>2 DEF View, Loaded, Assign, TypeOK
    <3>2. ~ Of(e, c)
      BY <2>2 DEF Of
    <3> QED
      BY <1>1, <1>3, <3>1, <3>2, ApplyKeepsWay DEF TypeOK, serverVars, e
  <2> QED
    BY <2>1, <2>2
<1> QED
  BY <1>3, <1>5, <1>6, <1>7, AloneKeepsDelivery DEF Followed, history

LEMMA DisabledKeepsDelivery ==
  ASSUME DeliveryInv, ViewInv', NEW h \in Gateway, ApplyDisabled(h) PROVE DeliveryInv'
<1> DEFINE e == Head(batch[h])
<1>1. TypeOK /\ SessionFits(h)
  BY DEF DeliveryInv, ViewInv, ServerInv
<1>2. e.card \in Card /\ e.status \in Issued /\ e.kind = "DISABLED"
  BY <1>1, HeadIsTyped DEF ApplyDisabled, NextEventIs
<1>3. /\ batch' = [batch EXCEPT ![h] = Tail(@)] /\ pulling[h] = "applying" /\ batch[h] # <<>>
      /\ UNCHANGED <<serverVars, outbox, pulling, local, added, broken, lost, operated>>
  BY DEF ApplyDisabled, NextEventIs
<1>4. \/ Loaded(h, e.card) = "NONE" /\ masked' = [masked EXCEPT ![h] = @ \union {e.card}]
         /\ UNCHANGED <<seen, held>>
      \/ Loaded(h, e.card) # "NONE" /\ Assign(h, e.card, e.status) /\ UNCHANGED masked
  BY DEF ApplyDisabled
<1> HIDE DEF e
<1>5. Alone(h) /\ masked[h] \subseteq masked'[h]
  BY <1>1, <1>2, <1>3, <1>4 DEF Alone, Assign, TypeOK, serverVars
<1>6. SessionFits(h)'
  <2>1. pulling' = pulling /\ local' = local /\ operated' = operated
    BY <1>3 DEF history
  <2>2. ASSUME NEW c \in Card PROVE held'[h][c] = "NONE" => seen'[h][c] = "NONE"
    BY <1>1, <1>2, <1>4 DEF SessionFits, Assign, TypeOK, Issued, Terminal
  <2>3. ASSUME NEW c \in Card \ operated[h], added'[h][c] # "NONE"
        PROVE  local[h][c] = "NONE" /\ held'[h][c] = "NONE"
    BY <1>1, <1>2, <1>3, <1>4, <2>3 DEF SessionFits, Assign, Loaded, TypeOK
  <2>4. ASSUME NEW c \in Card \ operated[h], held'[h][c] # "NONE"
        PROVE  local[h][c] # "NONE" /\ seen'[h][c] = local[h][c]
    <3>1. CASE held' = held /\ seen' = seen
      BY <1>1, <2>4, <3>1 DEF SessionFits
    <3>2. CASE Loaded(h, e.card) # "NONE" /\ Assign(h, e.card, e.status)
      BY <1>1, <2>4, <3>2 DEF SessionFits, Assign, Loaded, TypeOK
    <3> QED
      BY <1>4, <3>1, <3>2
  <2> QED
    BY <1>3, <2>1, <2>2, <2>3, <2>4 DEF SessionFits
<1>7. ASSUME NEW c \in Followed(h)' PROVE OnItsWay(h, c)'
  <2>0. c \in Card /\ c \in Followed(h)
    BY <1>3, <1>5 DEF Followed
  <2>1. CASE c = e.card
    <3>1. Loaded(h, c) # "NONE" /\ Assign(h, c, e.status)
      BY <1>1, <1>3, <1>4, <2>0, <2>1 DEF TypeOK, Followed
    <3>2. added[h][c] = "NONE"
      BY <1>1, <2>0, <3>1 DEF SessionFits, Loaded, Followed
    <3>3. View(h, c)' = e.status
      BY <1>1, <1>2, <1>3, <2>0, <3>1, <3>2 DEF View, Loaded, Assign, TypeOK, Issued, Terminal
    <3>4. Of(e, c)
      BY <1>2, <2>1 DEF Of
    <3> QED
      BY <1>1, <1>3, <2>0, <3>3, <3>4, ApplyKeepsWay DEF TypeOK, serverVars, e
  <2>2. CASE c # e.card
    <3>1. View(h, c)' = View(h, c)
      BY <1>1, <1>2, <1>3, <1>4, <2>0, <2>2 DEF View, Loaded, Assign, TypeOK
    <3>2. ~ Of(e, c)
      BY <2>2 DEF Of
    <3> QED
      BY <1>1, <1>3, <2>0, <3>1, <3>2, ApplyKeepsWay DEF TypeOK, serverVars, e
  <2> QED
    BY <2>1, <2>2
<1> QED
  BY <1>5, <1>6, <1>7, AloneKeepsDelivery

(* The commits: inside a batch, at its end, and from the MQTT thread       *)
LEMMA CommitKeepsDelivery ==
  ASSUME DeliveryInv, ViewInv', NEW h \in Gateway,
         ApplyAuth(h) \/ CommitBatch(h) \/ CommitFromMqtt(h)
  PROVE  DeliveryInv'
<1>1. TypeOK /\ SessionFits(h)
  BY DEF DeliveryInv, ViewInv, ServerInv
<1>2. /\ SessionCommits(h) /\ UNCHANGED <<serverVars, outbox, history>>
      /\ \/ batch[h] # <<>> /\ Head(batch[h]).kind = "AUTH" /\ batch' = [batch EXCEPT ![h] = Tail(@)]
            /\ pulling' = pulling /\ pulling[h] = "applying"
         \/ batch[h] = <<>> /\ batch' = batch /\ pulling' = [pulling EXCEPT ![h] = "idle"]
         \/ UNCHANGED <<batch, pulling>>
  BY DEF ApplyAuth, CommitBatch, CommitFromMqtt, NextEventIs
<1>3. Alone(h)
  BY <1>1, <1>2 DEF Alone, SessionCommits, EmptySession, TypeOK, serverVars, history
<1>4. SessionFits(h)'
  <2>1. pulling'[h] = "idle" => batch'[h] = <<>>
    BY <1>1, <1>2 DEF SessionFits, TypeOK
  <2> QED
    BY <1>1, <1>2, <2>1, CommitFits DEF history
<1>5. ASSUME NEW c \in Followed(h) PROVE OnItsWay(h, c)'
  <2>1. View(h, c)' = View(h, c)
    BY <1>1, <1>2, CommitShowsView DEF Followed
  <2>2. CASE batch[h] # <<>> /\ Head(batch[h]).kind = "AUTH" /\ batch' = [batch EXCEPT ![h] = Tail(@)]
    <3>1. ~ Of(Head(batch[h]), c) /\ batch'[h] = Tail(batch[h])
      BY <1>1, <2>2 DEF Of, TypeOK
    <3> QED
      BY <1>2, <2>1, <2>2, <3>1, ApplyKeepsWay DEF serverVars
  <2>3. CASE batch' = batch
    <3>1. PICK m \in Status : Leads(batch[h], c, View(h, c), m) /\ Leads(outbox[h], c, m, status[c])
      BY DEF DeliveryInv, OnItsWay
    <3> QED
      BY <1>2, <2>1, <2>3, <3>1 DEF OnItsWay, Leads, serverVars
  <2> QED
    BY <1>2, <2>2, <2>3
<1> QED
  BY <1>2, <1>3, <1>4, <1>5, AloneKeepsDelivery DEF Followed, history

LEMMA DropKeepsDelivery ==
  ASSUME DeliveryInv, ViewInv', NEW h \in Gateway,
         ReceiveOnBrokenSession(h) \/ LoseReply(h) \/ Restart(h) \/ CommitFails(h)
  PROVE  DeliveryInv'
<1>1. TypeOK /\ SessionFits(h)
  BY DEF DeliveryInv, ViewInv, ServerInv
<1>2. CASE ReceiveOnBrokenSession(h) \/ LoseReply(h)
  <2>1. /\ pulling[h] = "reply" /\ pulling' = [pulling EXCEPT ![h] = "idle"]
        /\ batch' = [batch EXCEPT ![h] = <<>>] /\ Drop(h, CardsIn(batch[h]))
        /\ UNCHANGED <<serverVars, outbox, local, sessionVars, masked, operated>>
    BY <1>2 DEF ReceiveOnBrokenSession, LoseReply
  <2>2. Alone(h) /\ SessionFits(h)'
    BY <1>1, <2>1 DEF Alone, SessionFits, Drop, TypeOK, serverVars, sessionVars
  <2>3. \A c \in Card : /\ View(h, c) = local[h][c]
                        /\ added'[h][c] = "NONE" /\ held'[h][c] = "NONE"
    BY <1>1, <2>1 DEF SessionFits, View, Loaded, sessionVars
  <2>4. \A c \in Followed(h)' : OnItsWay(h, c)'
    BY <1>1, <2>1, <2>3, DropKeepsWay DEF TypeOK, serverVars
  <2> QED
    BY <2>2, <2>4, AloneKeepsDelivery
<1>3. CASE Restart(h) \/ CommitFails(h)
  <2> DEFINE cards == CardsIn(batch[h]) \union RowsIn(added[h]) \union RowsIn(held[h])
  <2>1. /\ pulling' = [pulling EXCEPT ![h] = "idle"] /\ EmptySession(h)
        /\ batch' = [batch EXCEPT ![h] = <<>>] /\ Drop(h, cards)
        /\ UNCHANGED <<serverVars, outbox, local, masked, operated>>
    BY <1>3 DEF Restart, CommitFails, SessionBreaks
  <2>2. \A c \in Card \ cards : View(h, c) = local[h][c]
    BY DEF RowsIn, View, Loaded
  <2> HIDE DEF cards
  <2>3. Alone(h) /\ SessionFits(h)'
    BY <1>1, <2>1 DEF Alone, SessionFits, EmptySession, NoRows, Drop, TypeOK, serverVars
  <2>4. \A c \in Card : added'[h][c] = "NONE" /\ held'[h][c] = "NONE"
    BY <1>1, <2>1 DEF EmptySession, NoRows, TypeOK
  <2>5. CardsIn(batch[h]) \subseteq cards
    BY DEF cards
  <2>6. \A c \in Followed(h)' : OnItsWay(h, c)'
    BY <1>1, <2>1, <2>2, <2>4, <2>5, DropKeepsWay DEF TypeOK, serverVars
  <2> QED
    BY <2>3, <2>6, AloneKeepsDelivery
<1> QED
  BY <1>2, <1>3

LEMMA ReceiveKeepsDelivery ==
  ASSUME DeliveryInv, ViewInv', NEW h \in Gateway, ReceiveReply(h) PROVE DeliveryInv'
<1> USE DEF ReceiveReply, serverVars, sessionVars, history
<1>1. TypeOK /\ SessionFits(h)
  BY DEF DeliveryInv, ViewInv, ServerInv
<1>2. Alone(h) /\ SessionFits(h)'
  BY <1>1 DEF Alone, SessionFits, TypeOK
<1>3. \A c \in Followed(h) : OnItsWay(h, c)'
  BY FollowedIsCard, SameOnItsWay DEF DeliveryInv
<1> QED
  BY <1>2, <1>3, AloneKeepsDelivery DEF Followed

(* What a command writes is followed no longer; the rest is as it was.     *)
LEMMA OperatorKeepsDelivery ==
  ASSUME DeliveryInv, ViewInv', NEW h \in Gateway, OperatorNext(h) PROVE DeliveryInv'
<1>1. TypeOK /\ SessionFits(h)
  BY DEF DeliveryInv, ViewInv, ServerInv
<1>2. /\ \A c \in Card \ operated'[h] : local'[h][c] = local[h][c]
      /\ \A g \in Gateway \ {h} : local'[g] = local[g] /\ operated'[g] = operated[g]
      /\ UNCHANGED <<serverVars, outbox, batch, pulling, sessionVars, lost, masked>>
      /\ operated[h] \subseteq operated'[h]
  BY <1>1, CommandWrites DEF TypeOK
<1>3. Alone(h)
  BY <1>2 DEF Alone, serverVars, sessionVars
<1>4. SessionFits(h)'
  BY <1>1, <1>2 DEF SessionFits, sessionVars
<1>5. ASSUME NEW c \in Followed(h)' PROVE OnItsWay(h, c)'
  <2>1. c \in Followed(h) /\ local'[h][c] = local[h][c]
    BY <1>2 DEF Followed
  <2>2. View(h, c)' = View(h, c)
    BY <1>2, <2>1 DEF View, Loaded, sessionVars
  <2>3. PICK m \in Status : Leads(batch[h], c, View(h, c), m) /\ Leads(outbox[h], c, m, status[c])
    BY <2>1 DEF DeliveryInv, OnItsWay
  <2> QED
    BY <1>2, <2>2, <2>3 DEF OnItsWay, Leads, serverVars
<1> QED
  BY <1>3, <1>4, <1>5, AloneKeepsDelivery

LEMMA DeliveryStep ==
  ASSUME DeliveryInv, [Next]_vars PROVE DeliveryInv'
<1>1. ViewInv'
  BY ViewInvStep DEF DeliveryInv
<1>3. CASE UNCHANGED vars
  BY <1>1, <1>3 DEF vars, DeliveryInv, OneActiveCardPerUser, SessionFits, Followed, OnItsWay, Leads,
     View, Loaded
<1>4. ASSUME NEW g \in Gateway, PullNext(g) \/ CommitFromMqtt(g) \/ FaultNext(g) PROVE DeliveryInv'
  BY <1>1, <1>4, ServeKeepsDelivery, ReceiveKeepsDelivery, UpsertKeepsDelivery,
     DisabledKeepsDelivery, CommitKeepsDelivery, DropKeepsDelivery DEF PullNext, FaultNext
<1> QED
  BY <1>1, <1>3, <1>4, ServerKeepsDelivery, OperatorKeepsDelivery DEF Next

LEMMA DeliveryInit == Init => DeliveryInv
<1> SUFFICES ASSUME Init PROVE DeliveryInv
  OBVIOUS
<1>1. ViewInv
  BY ViewInvInit
<1>2. OneActiveCardPerUser /\ \A g \in Gateway : SessionFits(g)
  BY DEF Init, OneActiveCardPerUser, SessionFits, NoRows
<1>3. ASSUME NEW g \in Gateway, NEW c \in Card PROVE OnItsWay(g, c)
  <2>1. View(g, c) = "NONE" /\ batch[g] = <<>> /\ outbox[g] = <<>> /\ status[c] = "NONE"
    BY DEF Init, View, Loaded, NoRows
  <2>2. Leads(<<>>, c, "NONE", "NONE") /\ "NONE" \in Status
    BY LeadsNowhere DEF Status
  <2> QED
    BY <2>1, <2>2 DEF OnItsWay
<1> QED
  BY <1>1, <1>2, <1>3 DEF DeliveryInv, Followed

(* A gateway that has nothing outstanding holds the server's status of     *)
(* every card, but for cards with an event that was lost or found no row   *)
(* and cards that its operator wrote: there is no further way for the gate *)
(* to decide on a stale status, and a command on one card makes no other   *)
(* stale except by breaking the session, which loses events.               *)
THEOREM StaleHasCause == Spec => []StaleOnlyIfLostOrMasked
<1>1. DeliveryInv => StaleOnlyIfLostOrMasked
  <2> SUFFICES ASSUME DeliveryInv, NEW g \in Gateway, NEW c \in Followed(g), Synced(g)
               PROVE  local[g][c] = status[c]
    BY DEF StaleOnlyIfLostOrMasked, Followed
  <2>1. PICK m \in Status : Leads(batch[g], c, View(g, c), m) /\ Leads(outbox[g], c, m, status[c])
    BY DEF DeliveryInv, OnItsWay
  <2>2. batch[g] = <<>> /\ outbox[g] = <<>> /\ View(g, c) = local[g][c]
    BY FollowedIsCard DEF Synced, DeliveryInv, SessionFits, View, Loaded
  <2> QED
    BY <2>1, <2>2 DEF Leads
<1>2. DeliveryInv /\ [Next]_vars => DeliveryInv'
  BY DeliveryStep
<1>3. QED
  BY <1>1, <1>2, DeliveryInit, PTL DEF Spec
-----------------------------------------------------------------------------
(* The server's table and the gateways' tables implement CardCopies *)

LEMMA CopiesInit == Init => Copies!Init
  BY DEF Init, Copies!Init, NoRows

LEMMA StagesAreStatuses == Copies!Stage = Status /\ Copies!Revoked = Terminal
  BY DEF Copies!Stage, Copies!Revoked, Status, Issued, Terminal

(* Binding a card issues it, in place of at most one other.                *)
LEMMA BindIssues ==
  ASSUME TypeOK, OneActiveCardPerUser, NEW u \in User, NEW c \in Card, BindCard(u, c)
  PROVE  Copies!Issue(c)
<1>1. /\ status[c] = "NONE"
      /\ UNCHANGED <<local, operated>>
      /\ status' = [d \in Card |-> IF d = c THEN "ACTIVE"
                                   ELSE IF d \in ActiveCards(u) THEN "REPLACED"
                                   ELSE status[d]]
  BY DEF BindCard, NeverIssued, history
<1>2. ActiveCards(u) \in SUBSET {d \in Card : status[d] = "ACTIVE"}
  BY DEF ActiveCards
<1>3. \A d, e \in ActiveCards(u) : d = e
  BY DEF ActiveCards, OneActiveCardPerUser
<1> QED
  BY <1>1, <1>2, <1>3 DEF Copies!Issue

(* A change that was read on an ACTIVE card is written to an issued one.   *)
LEMMA ChangeRevokes ==
  ASSUME ServerInv, NEW c \in Card, NEW to \in {"LOST", "DISABLED"}, CommitChange(c, to)
  PROVE  Copies!Revoke(c, to)
<1>1. status[c] # "NONE"
  BY DEF CommitChange, ServerInv, ChangesAreOfIssued
<1> QED
  BY <1>1 DEF CommitChange, history, Copies!Revoke

(* A commit only brings rows forward: it makes no row disappear and turns  *)
(* no terminal row back.                                                   *)
LEMMA CommitAdvances ==
  ASSUME SessionInv, NEW h \in Gateway, SessionCommits(h), NEW c \in Card
  PROVE  Copies!Reached(local[h][c], local'[h][c])
<1>1. ASSUME local[h][c] # "NONE" PROVE local'[h][c] # "NONE"
  <2>1. local'[h][c] = Flushed(h)[c]
    BY DEF SessionCommits, SessionInv, TypeOK
  <2>2. held[h][c] # seen[h][c] => held[h][c] # "NONE"
    BY DEF SessionInv, HeldActiveUnchanged
  <2> QED
    BY <1>1, <2>1, <2>2 DEF Flushed
<1>2. ASSUME local[h][c] \in Terminal PROVE local'[h][c] \in Terminal
  BY <1>2, CommitActivatesNothing
<1> QED
  BY <1>1, <1>2, StagesAreStatuses DEF Copies!Reached

(* ... and, off the operator's cards, none past the server.                *)
LEMMA CommitRefreshes ==
  ASSUME SessionInv, ViewInv, ViewInv', NEW h \in Gateway, SessionCommits(h),
         UNCHANGED <<status, operated>>
  PROVE  Copies!Refresh(h)
<1>1. Copies!Writes(h)
  <2>1. local' = [local EXCEPT ![h] = local'[h]]
    BY DEF SessionCommits, SessionInv, TypeOK
  <2>2. local'[h] \in [Card -> Status]
    BY DEF ViewInv, ServerInv, TypeOK
  <2> QED
    BY <2>1, <2>2, StagesAreStatuses DEF Copies!Writes
<1>2. \A c \in Card : Copies!Reached(local[h][c], local'[h][c])
  BY CommitAdvances
<1>3. \A c \in Card \ operated[h] : Copies!Reached(local'[h][c], status[c])
  BY StagesAreStatuses DEF ViewInv, RowsTrue, RowTrue, Copies!Reached
<1> QED
  BY <1>1, <1>2, <1>3 DEF Copies!Refresh

(* A command overrules the rows that it names and leaves the others.       *)
LEMMA CommandOverrules ==
  ASSUME TypeOK, TypeOK', NEW h \in Gateway, OperatorNext(h)
  PROVE  Copies!Overrule(h)
<1>1. /\ operated' = [operated EXCEPT ![h] = operated'[h]]
      /\ operated'[h] \in SUBSET Card
      /\ operated[h] \subseteq operated'[h]
      /\ \A c \in Card \ operated'[h] : local'[h][c] = local[h][c]
  BY CommandWrites DEF TypeOK
<1>2. Copies!Writes(h)
  <2>1. \A g \in Gateway \ {h} : local'[g] = local[g]
    BY CommandWrites
  <2>2. local' = [local EXCEPT ![h] = local'[h]] /\ local'[h] \in [Card -> Status]
    BY <2>1 DEF TypeOK
  <2>3. status' = status
    BY CommandWrites DEF serverVars
  <2> QED
    BY <2>2, <2>3, StagesAreStatuses DEF Copies!Writes
<1> QED
  BY <1>1, <1>2 DEF Copies!Overrule

CopiesInv == SessionInv /\ ViewInv /\ OneActiveCardPerUser

LEMMA CopiesStep == CopiesInv /\ CopiesInv' /\ [Next]_vars => [Copies!Next]_Copies!vars
<1> SUFFICES ASSUME CopiesInv, CopiesInv', [Next]_vars PROVE [Copies!Next]_Copies!vars
  OBVIOUS
<1>0. TypeOK /\ TypeOK' /\ ServerInv
  BY DEF CopiesInv, ViewInv, ServerInv
<1>1. ASSUME NEW u \in User, NEW c \in Card, BindCard(u, c) PROVE Copies!Next
  BY <1>0, <1>1, BindIssues DEF CopiesInv, Copies!Next
<1>2. ASSUME NEW c \in Card, NEW to \in {"LOST", "DISABLED"}, CommitChange(c, to)
      PROVE  Copies!Next
  BY <1>0, <1>2, ChangeRevokes DEF Copies!Next
<1>3. ASSUME NEW g \in Gateway, ApplyAuth(g) \/ CommitBatch(g) \/ CommitFromMqtt(g)
      PROVE  Copies!Next
  <2>1. SessionCommits(g) /\ UNCHANGED <<status, operated>>
    BY <1>3 DEF ApplyAuth, CommitBatch, CommitFromMqtt, serverVars, history
  <2> QED
    BY <2>1, CommitRefreshes DEF CopiesInv, Copies!Next
<1>4. ASSUME NEW g \in Gateway, OperatorNext(g) PROVE Copies!Next
  BY <1>0, <1>4, CommandOverrules DEF Copies!Next
<1>5. ASSUME \/ \E c \in Card, to \in {"LOST", "DISABLED"} : ReadForChange(c, to)
             \/ RequestGateAuth
      PROVE  UNCHANGED <<status, local, operated>>
  BY <1>5 DEF ReadForChange, RequestGateAuth, history
<1>6. ASSUME NEW g \in Gateway,
             \/ ServePull(g) \/ ReceiveReply(g) \/ ReceiveOnBrokenSession(g)
             \/ ApplyUpsert(g) \/ ApplyDisabled(g) \/ CommitFails(g)
             \/ LoseReply(g) \/ Restart(g)
      PROVE  UNCHANGED <<status, local, operated>>
  BY <1>6 DEF ServePull, ReceiveReply, ReceiveOnBrokenSession, ApplyUpsert, ApplyDisabled,
     CommitFails, SessionBreaks, LoseReply, Restart, serverVars, history
<1>7. UNCHANGED <<status, local, operated>> => UNCHANGED Copies!vars
  BY DEF Copies!vars
<1> QED
  BY <1>1, <1>2, <1>3, <1>4, <1>5, <1>6, <1>7
     DEF Next, ServerNext, PullNext, FaultNext, vars

(* The outbox, the pulls, the sessions and their faults implement the      *)
(* abstract promise: one life for each card, and at each gateway a copy    *)
(* that follows it and is overruled only where an operator says so.        *)
THEOREM ImplementsCopies == Spec => CopiesSpec
<1>1. Init => CopiesInv
  BY SessionInvInit, ViewInvInit DEF CopiesInv, Init, OneActiveCardPerUser, NoRows
<1>2. CopiesInv /\ [Next]_vars => CopiesInv'
  BY SessionInvStep, ViewInvStep, OneActiveStep DEF CopiesInv, SessionInv
<1>3. QED
  BY <1>1, <1>2, CopiesInit, CopiesStep, PTL DEF Spec, CopiesSpec, Copies!Spec
==============================================================================
