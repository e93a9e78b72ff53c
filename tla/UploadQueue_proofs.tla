-------------------------- MODULE UploadQueue_proofs --------------------------
(***************************************************************************)
(* Proofs about the upload queue, for any number of events, pushers,       *)
(* overlapping requests and crashes.                                       *)
(***************************************************************************)
EXTENDS UploadQueue, TLAPS

(* What a session holds was loaded from the queue, and what travels to the *)
(* server was queued before.                                               *)
OnlyQueued ==
    /\ \A p \in Pusher : \A e \in Event :
          /\ e \in todo[p] => row[e] # "NONE"
          /\ held[p][e] # "NONE" => row[e] # "NONE"
          /\ held[p][e] = "NONE" => seen[p][e] = "NONE"
    /\ \A r \in Request :
          phase[r] # "free" \/ sender[r] # Nobody => row[event[r]] # "NONE"
    /\ \A e \in ledger : row[e] # "NONE"

(* An answer "ok", and an object marked ACKED because of it, exist only    *)
(* for events the server has committed.                                    *)
AnswersAreTrue ==
    /\ \A r \in Request : phase[r] = "ok" => event[r] \in ledger
    /\ \A p \in Pusher : \A e \in Event : held[p][e] = "ACKED" => e \in ledger

IInv == TypeOK /\ AppliedOnce /\ NothingClaimedEarly /\ OnlyQueued /\ AnswersAreTrue

-----------------------------------------------------------------------------
(* Type correctness: every variable holds values of its kind in every      *)
(* reachable state.                                                        *)
LEMMA TypeInit == Init => TypeOK
  BY ConstantsOK DEF Init, TypeOK, NoRows, RowStatus, Phase, Event

LEMMA TypeStep == TypeOK /\ [Next]_vars => TypeOK'
<1> SUFFICES ASSUME TypeOK, [Next]_vars PROVE TypeOK'
  OBVIOUS
<1> USE DEF TypeOK, RowStatus, Phase
<1>1. ASSUME NEW e \in Event, RecordLocally(e) PROVE TypeOK'
  BY <1>1 DEF RecordLocally, loopVars, requestVars, serverVars
<1>2. ASSUME NEW e \in Event, EnqueueEventUpload(e) PROVE TypeOK'
  BY <1>2 DEF EnqueueEventUpload, loopVars, requestVars, serverVars
<1>3. ASSUME NEW p \in Pusher, StartPush(p) PROVE TypeOK'
  BY <1>3 DEF StartPush, ToUpload, gatewayVars, requestVars, serverVars
<1>4. ASSUME NEW p \in Pusher, NEW r \in Request, Send(p, r) PROVE TypeOK'
  BY <1>4 DEF Send, gatewayVars, serverVars
<1>5. ASSUME NEW p \in Pusher, NEW r \in Request, ReceiveOk(p, r) PROVE TypeOK'
  BY <1>5 DEF ReceiveOk, gatewayVars, serverVars
<1>6. ASSUME NEW p \in Pusher, NEW r \in Request, ReceiveError(p, r) PROVE TypeOK'
  BY <1>6 DEF ReceiveError, gatewayVars, serverVars
<1>7. ASSUME NEW p \in Pusher, NEW r \in Request, TimeOut(p, r) PROVE TypeOK'
  BY <1>7 DEF TimeOut, gatewayVars, serverVars
<1>8. ASSUME NEW p \in Pusher, FinishPush(p) PROVE TypeOK'
  BY <1>8 DEF FinishPush, Flush, NoRows, requestVars, serverVars
<1>9. ASSUME NEW p \in Pusher, CommitFromMqtt(p) PROVE TypeOK'
  BY <1>9 DEF CommitFromMqtt, Flush, requestVars, serverVars
<1>10. ASSUME NEW p \in Pusher, Crash(p) PROVE TypeOK'
  BY <1>10, ConstantsOK DEF Crash, NoRows, gatewayVars, serverVars
<1>11. ASSUME NEW r \in Request, AnswerDuplicate(r) PROVE TypeOK'
  BY <1>11 DEF AnswerDuplicate, Answer, gatewayVars, loopVars, serverVars
<1>12. ASSUME NEW r \in Request, FindNew(r) PROVE TypeOK'
  BY <1>12 DEF FindNew, gatewayVars, loopVars, serverVars
<1>13. ASSUME NEW r \in Request, ApplyEvent(r) PROVE TypeOK'
  BY <1>13 DEF ApplyEvent, Answer, gatewayVars, loopVars
<1>14. ASSUME NEW r \in Request, InsertConflict(r) PROVE TypeOK'
  BY <1>14 DEF InsertConflict, Answer, gatewayVars, loopVars, serverVars
<1>15. ASSUME NEW r \in Request, Refuse(r) PROVE TypeOK'
  BY <1>15 DEF Refuse, Answer, gatewayVars, loopVars, serverVars
<1>16. ASSUME NEW r \in Request, Lose(r) PROVE TypeOK'
  BY <1>16 DEF Lose, Answer, gatewayVars, loopVars, serverVars
<1>17. CASE UNCHANGED vars
  BY <1>17 DEF vars
<1>18. QED
  BY <1>1, <1>2, <1>3, <1>4, <1>5, <1>6, <1>7, <1>8, <1>9, <1>10, <1>11, <1>12,
     <1>13, <1>14, <1>15, <1>16, <1>17
     DEF Next, ProduceNext, LoopStep, ServerStep

THEOREM TypeCorrect == Spec => []TypeOK
  BY TypeInit, TypeStep, PTL DEF Spec

-----------------------------------------------------------------------------
(* The inductive invariant                                                 *)

LEMMA InvInit == Init => IInv
<1> SUFFICES ASSUME Init PROVE IInv
  OBVIOUS
<1>1. TypeOK
  BY TypeInit
<1>2. AppliedOnce /\ NothingClaimedEarly
  BY DEF Init, AppliedOnce, NothingClaimedEarly, NoRows
<1>3. OnlyQueued /\ AnswersAreTrue
  BY DEF Init, OnlyQueued, AnswersAreTrue, NoRows
<1>4. QED
  BY <1>1, <1>2, <1>3 DEF IInv

(* A request that gets an answer while somebody waits for it, and one that *)
(* is freed because nobody does, keep all claims true.                     *)
LEMMA AnswerKeepsQueued ==
  ASSUME IInv, TypeOK', NEW r \in Request, NEW a, phase[r] # "free", Answer(r, a),
         UNCHANGED <<row, todo, seen, held, event, sender>>,
         \A e \in ledger' : e \in ledger \/ e = event[r]
  PROVE  OnlyQueued'
  BY DEF IInv, TypeOK, OnlyQueued, Answer

LEMMA AnswerKeepsTruth ==
  ASSUME IInv, TypeOK', NEW r \in Request, NEW a, Answer(r, a),
         UNCHANGED <<held, event>>, ledger \subseteq ledger',
         a = "ok" => event[r] \in ledger'
  PROVE  AnswersAreTrue'
  BY DEF IInv, TypeOK, AnswersAreTrue, Answer

(* A flush writes nothing the server has not confirmed and removes no row. *)
LEMMA FlushIsTrue ==
  ASSUME IInv, NEW p \in Pusher, Flush(p), UNCHANGED <<ledger, applied>>
  PROVE  /\ AppliedOnce'
         /\ NothingClaimedEarly'
         /\ \A e \in Event : row[e] # "NONE" => row'[e] # "NONE"
<1>1. AppliedOnce'
  BY DEF IInv, AppliedOnce
<1>2. NothingClaimedEarly'
  BY ConstantsOK DEF IInv, TypeOK, NothingClaimedEarly, AnswersAreTrue, Flush
<1>3. \A e \in Event : row[e] # "NONE" => row'[e] # "NONE"
  BY DEF IInv, TypeOK, OnlyQueued, Flush
<1>4. QED
  BY <1>1, <1>2, <1>3

LEMMA InvStep == IInv /\ [Next]_vars => IInv'
<1> SUFFICES ASSUME IInv, [Next]_vars PROVE IInv'
  OBVIOUS
<1>0. TypeOK /\ TypeOK'
  BY TypeStep DEF IInv
<1> DEFINE Rest == AppliedOnce /\ NothingClaimedEarly /\ OnlyQueued /\ AnswersAreTrue
<1> USE DEF TypeOK, RowStatus, Phase
<1>1. ASSUME NEW e \in Event, RecordLocally(e) PROVE Rest'
  BY <1>0, <1>1 DEF IInv, RecordLocally, AppliedOnce, NothingClaimedEarly, OnlyQueued,
     AnswersAreTrue, loopVars, requestVars, serverVars
<1>2. ASSUME NEW e \in Event, EnqueueEventUpload(e) PROVE Rest'
  BY <1>0, <1>2 DEF IInv, EnqueueEventUpload, AppliedOnce, NothingClaimedEarly, OnlyQueued,
     AnswersAreTrue, loopVars, requestVars, serverVars
<1>3. ASSUME NEW p \in Pusher, StartPush(p) PROVE Rest'
  <2>1. AppliedOnce' /\ NothingClaimedEarly'
    BY <1>3 DEF IInv, StartPush, AppliedOnce, NothingClaimedEarly, gatewayVars, serverVars
  <2>2. OnlyQueued'
    BY <1>0, <1>3 DEF IInv, StartPush, ToUpload, OnlyQueued, gatewayVars, requestVars, serverVars
  <2>3. AnswersAreTrue'
    BY <1>0, <1>3 DEF IInv, StartPush, ToUpload, NothingClaimedEarly, AnswersAreTrue,
       gatewayVars, requestVars, serverVars
  <2>4. QED
    BY <2>1, <2>2, <2>3
<1>4. ASSUME NEW p \in Pusher, NEW r \in Request, Send(p, r) PROVE Rest'
  <2>1. AppliedOnce' /\ NothingClaimedEarly'
    BY <1>4 DEF IInv, Send, AppliedOnce, NothingClaimedEarly, gatewayVars, serverVars
  <2>2. OnlyQueued'
    BY <1>0, <1>4 DEF IInv, Send, OnlyQueued, gatewayVars, serverVars
  <2>3. AnswersAreTrue'
    BY <1>0, <1>4 DEF IInv, Send, AnswersAreTrue, gatewayVars, serverVars
  <2>4. QED
    BY <2>1, <2>2, <2>3
<1>5. ASSUME NEW p \in Pusher, NEW r \in Request, ReceiveOk(p, r) PROVE Rest'
  BY <1>0, <1>5 DEF IInv, ReceiveOk, AppliedOnce, NothingClaimedEarly, OnlyQueued,
     AnswersAreTrue, gatewayVars, serverVars
<1>6. ASSUME NEW p \in Pusher, NEW r \in Request, ReceiveError(p, r) PROVE Rest'
  BY <1>0, <1>6 DEF IInv, ReceiveError, AppliedOnce, NothingClaimedEarly, OnlyQueued,
     AnswersAreTrue, gatewayVars, serverVars
<1>7. ASSUME NEW p \in Pusher, NEW r \in Request, TimeOut(p, r) PROVE Rest'
  <2> p # Nobody
    BY ConstantsOK
  <2>1. AppliedOnce' /\ NothingClaimedEarly'
    BY <1>7 DEF IInv, TimeOut, AppliedOnce, NothingClaimedEarly, gatewayVars, serverVars
  <2>2. OnlyQueued'
    BY <1>0, <1>7 DEF IInv, TimeOut, OnlyQueued, gatewayVars, serverVars
  <2>3. AnswersAreTrue'
    BY <1>0, <1>7 DEF IInv, TimeOut, AnswersAreTrue, gatewayVars, serverVars
  <2>4. QED
    BY <2>1, <2>2, <2>3
<1>8. ASSUME NEW p \in Pusher, FinishPush(p) PROVE Rest'
  <2>1. /\ AppliedOnce' /\ NothingClaimedEarly'
        /\ \A e \in Event : row[e] # "NONE" => row'[e] # "NONE"
    BY <1>8, FlushIsTrue DEF FinishPush, serverVars
  <2>2. OnlyQueued'
    BY <1>0, <1>8, <2>1 DEF IInv, FinishPush, OnlyQueued, NoRows, requestVars, serverVars
  <2>3. AnswersAreTrue'
    BY <1>0, <1>8 DEF IInv, FinishPush, AnswersAreTrue, NoRows, requestVars, serverVars
  <2>4. QED
    BY <2>1, <2>2, <2>3
<1>9. ASSUME NEW p \in Pusher, CommitFromMqtt(p) PROVE Rest'
  <2>1. /\ AppliedOnce' /\ NothingClaimedEarly'
        /\ \A e \in Event : row[e] # "NONE" => row'[e] # "NONE"
    BY <1>9, FlushIsTrue DEF CommitFromMqtt, serverVars
  <2>2. OnlyQueued'
    BY <1>0, <1>9, <2>1 DEF IInv, CommitFromMqtt, OnlyQueued, requestVars, serverVars
  <2>3. AnswersAreTrue'
    BY <1>0, <1>9 DEF IInv, CommitFromMqtt, AnswersAreTrue, requestVars, serverVars
  <2>4. QED
    BY <2>1, <2>2, <2>3
<1>10. ASSUME NEW p \in Pusher, Crash(p) PROVE Rest'
  <2>1. AppliedOnce' /\ NothingClaimedEarly'
    BY <1>10 DEF IInv, Crash, AppliedOnce, NothingClaimedEarly, gatewayVars, serverVars
  <2>2. OnlyQueued'
    BY <1>0, <1>10 DEF IInv, Crash, OnlyQueued, NoRows, gatewayVars, serverVars
  <2>3. AnswersAreTrue'
    BY <1>0, <1>10 DEF IInv, Crash, AnswersAreTrue, NoRows, gatewayVars, serverVars
  <2>4. QED
    BY <2>1, <2>2, <2>3
<1>11. ASSUME NEW r \in Request, AnswerDuplicate(r) PROVE Rest'
  BY <1>0, <1>11, AnswerKeepsQueued, AnswerKeepsTruth
     DEF IInv, AnswerDuplicate, AppliedOnce, NothingClaimedEarly, gatewayVars, loopVars, serverVars
<1>12. ASSUME NEW r \in Request, FindNew(r) PROVE Rest'
  BY <1>0, <1>12 DEF IInv, FindNew, AppliedOnce, NothingClaimedEarly, OnlyQueued,
     AnswersAreTrue, gatewayVars, loopVars, serverVars
<1>13. ASSUME NEW r \in Request, ApplyEvent(r) PROVE Rest'
  <2>1. AppliedOnce' /\ NothingClaimedEarly'
    BY <1>0, <1>13 DEF IInv, ApplyEvent, AppliedOnce, NothingClaimedEarly, gatewayVars
  <2>2. OnlyQueued' /\ AnswersAreTrue'
    BY <1>0, <1>13, AnswerKeepsQueued, AnswerKeepsTruth DEF ApplyEvent, gatewayVars, loopVars
  <2>3. QED
    BY <2>1, <2>2
<1>14. ASSUME NEW r \in Request, InsertConflict(r) PROVE Rest'
  BY <1>0, <1>14, AnswerKeepsQueued, AnswerKeepsTruth
     DEF IInv, InsertConflict, AppliedOnce, NothingClaimedEarly, gatewayVars, loopVars, serverVars
<1>15. ASSUME NEW r \in Request, Refuse(r) PROVE Rest'
  BY <1>0, <1>15, AnswerKeepsQueued, AnswerKeepsTruth
     DEF IInv, Refuse, AppliedOnce, NothingClaimedEarly, gatewayVars, loopVars, serverVars
<1>16. ASSUME NEW r \in Request, Lose(r) PROVE Rest'
  BY <1>0, <1>16, AnswerKeepsQueued, AnswerKeepsTruth
     DEF IInv, Lose, AppliedOnce, NothingClaimedEarly, gatewayVars, loopVars, serverVars
<1>17. CASE UNCHANGED vars
  BY <1>17 DEF vars, IInv, AppliedOnce, NothingClaimedEarly, OnlyQueued, AnswersAreTrue
<1>18. QED
  BY <1>0, <1>1, <1>2, <1>3, <1>4, <1>5, <1>6, <1>7, <1>8, <1>9, <1>10, <1>11, <1>12,
     <1>13, <1>14, <1>15, <1>16, <1>17
     DEF IInv, Next, ProduceNext, LoopStep, ServerStep

LEMMA Invariance == Spec => []IInv
  BY InvInit, InvStep, PTL DEF Spec

(* The server commits the effect of an event at most once, and exactly     *)
(* when it has recorded the event_id, for any number of retries and of     *)
(* overlapping requests.                                                   *)
THEOREM EffectAtMostOnce == Spec => []AppliedOnce
  BY Invariance, PTL DEF IInv

(* What the gateway's database calls ACKED or UPLOADED the server has      *)
(* committed, through lost answers, crashes and commits in the middle of   *)
(* the loop.                                                               *)
THEOREM ClaimsAreTrue == Spec => []NothingClaimedEarly
  BY Invariance, PTL DEF IInv

-----------------------------------------------------------------------------
(* Refinement of EventDelivery *)

LEMMA DeliveryInit == Init => Delivery!Init
  BY DEF Init, Delivery!Init, NoRows

(* A step that leaves the queue rows and the effects alone is a stutter.   *)
LEMMA DeliveryStutter ==
  ASSUME UNCHANGED <<row, applied>>
  PROVE  UNCHANGED Delivery!vars
  BY DEF Delivery!vars

LEMMA DeliveryQueue ==
  ASSUME IInv, NEW e \in Event, EnqueueEventUpload(e)
  PROVE  Delivery!Queue(e)
  BY DEF EnqueueEventUpload, Delivery!Queue, IInv, TypeOK, serverVars

LEMMA DeliveryEffect ==
  ASSUME IInv, NEW r \in Request, ApplyEvent(r)
  PROVE  Delivery!TakeEffect(event[r])
<1>1. event[r] \in Event /\ row[event[r]] # "NONE"
  BY DEF ApplyEvent, IInv, TypeOK, OnlyQueued
<1>2. applied[event[r]] = 0
  BY <1>1 DEF ApplyEvent, IInv, AppliedOnce
<1>3. applied' = [applied EXCEPT ![event[r]] = 1]
  BY <1>2 DEF ApplyEvent
<1>4. row' = row
  BY DEF ApplyEvent, gatewayVars
<1>5. QED
  BY <1>1, <1>2, <1>3, <1>4 DEF Delivery!TakeEffect

LEMMA DeliveryRecord ==
  ASSUME IInv, IInv', NEW p \in Pusher, Flush(p), UNCHANGED <<ledger, applied>>
  PROVE  Delivery!Record
<1>1. \A e \in Event : row'[e] # "NONE" <=> row[e] # "NONE"
  BY DEF IInv, TypeOK, OnlyQueued, Flush
<1>2. \A e \in Event : row'[e] = "ACKED" => row[e] # "NONE" /\ applied[e] = 1
  BY <1>1 DEF IInv, NothingClaimedEarly, AppliedOnce
<1>3. QED
  BY <1>1, <1>2 DEF Delivery!Record

LEMMA DeliveryStep == IInv /\ IInv' /\ [Next]_vars => [Delivery!Next]_Delivery!vars
<1> SUFFICES ASSUME IInv, IInv', [Next]_vars PROVE [Delivery!Next]_Delivery!vars
  OBVIOUS
<1>1. ASSUME NEW e \in Event, EnqueueEventUpload(e) PROVE Delivery!Next
  BY <1>1, DeliveryQueue DEF Delivery!Next
<1>2. ASSUME NEW r \in Request, ApplyEvent(r) PROVE Delivery!Next
  BY <1>2, DeliveryEffect DEF Delivery!Next, IInv, TypeOK
<1>3. ASSUME NEW p \in Pusher, FinishPush(p) \/ CommitFromMqtt(p) PROVE Delivery!Next
  BY <1>3, DeliveryRecord DEF FinishPush, CommitFromMqtt, serverVars, Delivery!Next
<1>4. ASSUME NEW e \in Event, RecordLocally(e) PROVE UNCHANGED <<row, applied>>
  BY <1>4 DEF RecordLocally, serverVars
<1>5. ASSUME NEW p \in Pusher,
             \/ StartPush(p)
             \/ \E r \in Request : Send(p, r) \/ ReceiveOk(p, r) \/ ReceiveError(p, r) \/ TimeOut(p, r)
             \/ Crash(p)
      PROVE UNCHANGED <<row, applied>>
  BY <1>5 DEF StartPush, Send, ReceiveOk, ReceiveError, TimeOut, Crash, gatewayVars, serverVars
<1>6. ASSUME NEW r \in Request,
             \/ AnswerDuplicate(r) \/ FindNew(r) \/ InsertConflict(r)
             \/ Refuse(r) \/ Lose(r)
      PROVE UNCHANGED <<row, applied>>
  BY <1>6 DEF AnswerDuplicate, FindNew, InsertConflict, Refuse, Lose, gatewayVars, serverVars
<1>7. CASE UNCHANGED vars
  BY <1>7, DeliveryStutter DEF vars
<1>8. QED
  BY <1>1, <1>2, <1>3, <1>4, <1>5, <1>6, <1>7, DeliveryStutter
     DEF Next, ProduceNext, LoopStep, ServerStep

(* The gateway's queue, the requests and the server's table implement the  *)
(* abstract promise: at most one effect, acknowledged only once it exists. *)
THEOREM ImplementsDelivery == Spec => DeliverySpec
  BY DeliveryInit, DeliveryStep, Invariance, PTL DEF Spec, DeliverySpec, Delivery!Spec

-----------------------------------------------------------------------------
(* A row that only one pusher has in hand                                  *)

(* A pusher works on rows it has loaded, one request at a time; a row that *)
(* was never in two hands is in one at most, and once it is ACKED in none  *)
(* that could send it or write another status over it.                     *)
InHand(p, e) == held[p][e] # "NONE"

LoopInv ==
    \A p \in Pusher :
       /\ p \notin pushing => \A e \in Event : ~ InHand(p, e)
       /\ \A e \in todo[p] : InHand(p, e)
       /\ \A r \in Request : sender[r] = p => InHand(p, event[r]) /\ event[r] \notin todo[p]
       /\ \A r, s \in Request : sender[r] = p /\ sender[s] = p => r = s

OneHand ==
    \A e \in Event \ contested : \A p, q \in Pusher :
       InHand(p, e) /\ InHand(q, e) => p = q

AckedAtRest ==
    \A e \in Event \ contested : \A p \in Pusher :
       "ACKED" \in {row[e], held[p][e]} =>
          /\ held[p][e] \in {"NONE", "ACKED"}
          /\ e \notin todo[p]
          /\ \A r \in Request : sender[r] = p => event[r] # e

HandInv == LoopInv /\ OneHand /\ AckedAtRest

LEMMA HandInit == Init => HandInv
  BY ConstantsOK DEF Init, HandInv, LoopInv, OneHand, AckedAtRest, InHand, NoRows

(* Where only one pusher has the row, a flush keeps what is ACKED.         *)
LEMMA OneHandFlush ==
  ASSUME IInv, HandInv, NEW p \in Pusher, Flush(p), NEW e \in Event \ contested
  PROVE  /\ row[e] = "ACKED" => row'[e] = "ACKED"
         /\ row'[e] = "ACKED" => row[e] = "ACKED" \/ held[p][e] = "ACKED"
  BY DEF IInv, OnlyQueued, HandInv, AckedAtRest, Flush

(* What an answer or its absence does to the session's object              *)
LEMMA AnswerHand ==
  ASSUME IInv, HandInv, NEW p \in Pusher, NEW r \in Request,
         ReceiveOk(p, r) \/ ReceiveError(p, r) \/ TimeOut(p, r)
  PROVE  HandInv'
<1>0. TypeOK
  BY DEF IInv
<1> USE DEF TypeOK, RowStatus, Phase
<1>1. /\ sender[r] = p /\ sender' = [sender EXCEPT ![r] = Nobody] /\ p # Nobody
      /\ UNCHANGED <<row, pushing, todo, contested, event>>
      /\ \E x \in {"ACKED", "FAILED"} : held' = [held EXCEPT ![p][event[r]] = x]
  BY ConstantsOK DEF ReceiveOk, ReceiveError, TimeOut, gatewayVars
<1>2. InHand(p, event[r])
  BY <1>1 DEF HandInv, LoopInv
<1>3. \A q \in Pusher, e \in Event : InHand(q, e)' <=> InHand(q, e)
  BY <1>0, <1>1, <1>2 DEF InHand
<1>4. \A s \in Request : \A q \in Pusher : sender'[s] = q => sender[s] = q /\ s # r
  BY <1>0, <1>1, ConstantsOK
<1>5. LoopInv' /\ OneHand'
  BY <1>0, <1>1, <1>3, <1>4 DEF HandInv, LoopInv, OneHand
<1>6. AckedAtRest'
  <2> SUFFICES ASSUME NEW e \in Event \ contested, NEW q \in Pusher,
                      "ACKED" \in {row[e], held'[q][e]}
               PROVE  /\ held'[q][e] \in {"NONE", "ACKED"}
                      /\ e \notin todo[q]
                      /\ \A s \in Request : sender'[s] = q => event[s] # e
    BY <1>1 DEF AckedAtRest
  <2>1. CASE q = p /\ e = event[r]
    <3>1. row[e] # "ACKED"
      BY <1>1, <2>1 DEF HandInv, AckedAtRest
    <3>2. held'[q][e] = "ACKED"
      BY <3>1
    <3> QED
      BY <1>0, <1>1, <1>4, <2>1, <3>2 DEF HandInv, LoopInv
  <2>2. CASE ~ (q = p /\ e = event[r])
    <3>1. held'[q][e] = held[q][e]
      BY <1>0, <1>1, <2>2
    <3> QED
      BY <1>4, <3>1 DEF HandInv, AckedAtRest
  <2> QED
    BY <2>1, <2>2
<1> QED
  BY <1>5, <1>6 DEF HandInv

(* A pusher that stops, by its last commit or by a crash, has nothing in   *)
(* hand; what it leaves ACKED it had marked so.                            *)
LEMMA StopHand ==
  ASSUME IInv, HandInv, NEW p \in Pusher, FinishPush(p) \/ Crash(p)
  PROVE  HandInv'
<1>0. TypeOK
  BY DEF IInv
<1> USE DEF TypeOK, RowStatus, Phase
<1>1. /\ held' = [held EXCEPT ![p] = NoRows]
      /\ pushing' = pushing \ {p}
      /\ todo'[p] = {} /\ \A q \in Pusher : q # p => todo'[q] = todo[q]
      /\ \A r \in Request : \A q \in Pusher : sender'[r] = q => sender[r] = q /\ q # p
      /\ UNCHANGED <<contested, event>>
  BY <1>0, ConstantsOK DEF FinishPush, Crash, Waiting, requestVars
<1>2. \A e \in Event \ contested : row'[e] = "ACKED" => row[e] = "ACKED" \/ held[p][e] = "ACKED"
  BY OneHandFlush DEF FinishPush, Crash, gatewayVars
<1>3. \A e \in Event : held'[p][e] = "NONE" /\ \A q \in Pusher : q # p => held'[q][e] = held[q][e]
  BY <1>0, <1>1 DEF NoRows
<1>4. LoopInv' /\ OneHand'
  <2>1. \A q \in Pusher, e \in Event : InHand(q, e)' <=> q # p /\ InHand(q, e)
    BY <1>3 DEF InHand
  <2>2. OneHand'
    BY <1>1, <2>1 DEF HandInv, OneHand
  <2> SUFFICES ASSUME NEW q \in Pusher
               PROVE  /\ q \notin pushing' => \A e \in Event : ~ InHand(q, e)'
                      /\ \A e \in todo'[q] : InHand(q, e)'
                      /\ \A r \in Request : sender'[r] = q => InHand(q, event[r])' /\ event[r] \notin todo'[q]
                      /\ \A r, s \in Request : sender'[r] = q /\ sender'[s] = q => r = s
    BY <1>1, <2>2 DEF LoopInv, InHand
  <2>3. q \notin pushing' => \A e \in Event : ~ InHand(q, e)'
    BY <1>1, <2>1 DEF HandInv, LoopInv
  <2>4. \A e \in todo'[q] : InHand(q, e)'
    BY <1>0, <1>1, <2>1 DEF HandInv, LoopInv
  <2>5. \A r \in Request : event[r] \in Event
    BY <1>0
  <2>6. \A r \in Request : sender'[r] = q =>
           sender[r] = q /\ q # p /\ todo'[q] = todo[q] /\ (InHand(q, event[r])' <=> InHand(q, event[r]))
    BY <1>1, <1>3, <2>5 DEF InHand
  <2>7. \A r \in Request : sender[r] = q => InHand(q, event[r]) /\ event[r] \notin todo[q]
    BY DEF HandInv, LoopInv
  <2>8. \A r, s \in Request : sender'[r] = q /\ sender'[s] = q => r = s
    BY <2>6 DEF HandInv, LoopInv
  <2> QED
    BY <2>3, <2>4, <2>6, <2>7, <2>8
<1>5. AckedAtRest'
  <2> SUFFICES ASSUME NEW e \in Event \ contested, NEW q \in Pusher,
                      "ACKED" \in {row'[e], held'[q][e]}
               PROVE  /\ held'[q][e] \in {"NONE", "ACKED"}
                      /\ e \notin todo'[q]
                      /\ \A r \in Request : sender'[r] = q => event[r] # e
    BY <1>1 DEF AckedAtRest
  <2>1. CASE q = p
    BY <1>1, <1>3, <2>1
  <2>2. CASE q # p /\ "ACKED" \in {row[e], held[q][e]}
    BY <1>1, <1>3, <2>2 DEF HandInv, AckedAtRest
  <2>3. CASE q # p /\ held[p][e] = "ACKED"
    <3>1. held[q][e] = "NONE"
      BY <2>3 DEF HandInv, OneHand, InHand
    <3> QED
      BY <1>1, <1>3, <2>3, <3>1 DEF HandInv, LoopInv, InHand
  <2> QED
    BY <1>2, <1>3, <2>1, <2>2, <2>3
<1> QED
  BY <1>4, <1>5 DEF HandInv

LEMMA MqttHand ==
  ASSUME IInv, HandInv, NEW p \in Pusher, CommitFromMqtt(p)
  PROVE  HandInv'
<1>1. UNCHANGED <<pushing, todo, held, contested, event, sender>>
  BY DEF CommitFromMqtt, requestVars
<1>2. \A e \in Event \ contested : row'[e] = "ACKED" => row[e] = "ACKED" \/ held[p][e] = "ACKED"
  BY OneHandFlush DEF CommitFromMqtt
<1>3. LoopInv' /\ OneHand'
  BY <1>1 DEF HandInv, LoopInv, OneHand, InHand
<1>4. AckedAtRest'
  <2> SUFFICES ASSUME NEW e \in Event \ contested, NEW q \in Pusher,
                      "ACKED" \in {row'[e], held[q][e]}
               PROVE  /\ held[q][e] \in {"NONE", "ACKED"}
                      /\ e \notin todo[q]
                      /\ \A r \in Request : sender[r] = q => event[r] # e
    BY <1>1 DEF AckedAtRest
  <2>1. CASE q = p \/ "ACKED" \in {row[e], held[q][e]}
    BY <1>2, <2>1 DEF HandInv, AckedAtRest
  <2>2. CASE q # p /\ held[p][e] = "ACKED"
    <3>1. held[q][e] = "NONE"
      BY <2>2 DEF HandInv, OneHand, InHand
    <3> QED
      BY <3>1 DEF HandInv, LoopInv, InHand
  <2> QED
    BY <1>2, <2>1, <2>2
<1> QED
  BY <1>3, <1>4 DEF HandInv

(* Loading the open rows makes those contested that another pusher has.    *)
LEMMA StartHand ==
  ASSUME IInv, HandInv, NEW p \in Pusher, StartPush(p)
  PROVE  HandInv'
<1>0. TypeOK
  BY DEF IInv
<1> USE DEF TypeOK, RowStatus, Phase
<1>1. /\ \A e \in Event : held'[p][e] = IF ToUpload(e) THEN row[e] ELSE "NONE"
      /\ todo'[p] = {e \in Event : ToUpload(e)}
      /\ \A q \in Pusher : q # p => held'[q] = held[q] /\ todo'[q] = todo[q]
      /\ pushing' = pushing \union {p} /\ p \notin pushing
      /\ UNCHANGED <<row, event, sender>>
  BY <1>0 DEF StartPush, gatewayVars, requestVars
<1>2. \A e \in Event \ contested' :
         e \notin contested /\ (ToUpload(e) => \A q \in pushing : ~ InHand(q, e))
  BY DEF StartPush, InHand
<1>3. \A e \in Event : InHand(p, e)' <=> ToUpload(e)
  BY <1>0, <1>1 DEF InHand, ToUpload
<1>4. \A q \in Pusher, e \in Event : q # p => (InHand(q, e)' <=> InHand(q, e))
  BY <1>1 DEF InHand
<1>5. \A r \in Request : sender[r] # p
  BY <1>0, <1>1 DEF HandInv, LoopInv
<1>6. LoopInv'
  BY <1>0, <1>1, <1>3, <1>4, <1>5 DEF HandInv, LoopInv
<1>7. OneHand'
  BY <1>1, <1>2, <1>3, <1>4 DEF HandInv, OneHand, LoopInv
<1>8. AckedAtRest'
  <2>1. ASSUME NEW e \in Event \ contested', "ACKED" \in {row[e], held'[p][e]}
        PROVE  ~ ToUpload(e)
    BY <1>1, <2>1 DEF ToUpload
  <2> QED
    BY <1>0, <1>1, <1>2, <1>5, <2>1 DEF HandInv, AckedAtRest
<1> QED
  BY <1>6, <1>7, <1>8 DEF HandInv

LEMMA HandStep == IInv /\ HandInv /\ [Next]_vars => HandInv'
<1> SUFFICES ASSUME IInv, HandInv, [Next]_vars PROVE HandInv'
  OBVIOUS
<1>0. TypeOK
  BY DEF IInv
<1> USE DEF TypeOK, RowStatus, Phase
<1>1. CASE \E e \in Event : RecordLocally(e)
  BY <1>1 DEF HandInv, LoopInv, OneHand, AckedAtRest, InHand, RecordLocally, loopVars, requestVars
<1>2. CASE \E e \in Event : EnqueueEventUpload(e)
  <2>1. /\ \A e \in Event : row'[e] = "ACKED" => row[e] = "ACKED"
        /\ UNCHANGED <<pushing, todo, held, contested, event, sender>>
    BY <1>0, <1>2 DEF EnqueueEventUpload, loopVars, requestVars
  <2> QED
    BY <2>1 DEF HandInv, LoopInv, OneHand, AckedAtRest, InHand
<1>3. ASSUME NEW p \in Pusher, NEW r \in Request, Send(p, r) PROVE HandInv'
  <2>1. PICK e \in todo[p] : todo' = [todo EXCEPT ![p] = @ \ {e}] /\ event' = [event EXCEPT ![r] = e]
    BY <1>3 DEF Send
  <2>2. /\ sender' = [sender EXCEPT ![r] = p]
        /\ UNCHANGED <<row, pushing, held, contested>>
        /\ \A s \in Request : sender[s] # p
    BY <1>3 DEF Send, Waiting, gatewayVars
  <2>3. phase[r] = "free" /\ e \in Event
    BY <1>0, <1>3, <2>1 DEF Send
  <2>4. \A s \in Request : s # r => sender'[s] = sender[s] /\ event'[s] = event[s]
    BY <1>0, <2>1, <2>2
  <2>5. sender'[r] = p /\ event'[r] = e
    BY <1>0, <2>1, <2>2, <2>3
  <2>6. todo'[p] = todo[p] \ {e} /\ \A q \in Pusher : q # p => todo'[q] = todo[q]
    BY <1>0, <2>1
  <2>7. LoopInv' /\ OneHand'
    BY <2>2, <2>4, <2>5, <2>6 DEF HandInv, LoopInv, OneHand, InHand
  <2>8. AckedAtRest'
    BY <2>1, <2>2, <2>4, <2>5, <2>6 DEF HandInv, AckedAtRest
  <2> QED
    BY <2>7, <2>8 DEF HandInv
<1>4. CASE UNCHANGED <<row, loopVars, event, sender>>
  BY <1>4 DEF HandInv, LoopInv, OneHand, AckedAtRest, InHand, loopVars
<1>5. ASSUME NEW r \in Request, ServerStep(r) \/ Refuse(r) \/ Lose(r)
      PROVE  UNCHANGED <<row, loopVars, event, sender>>
  BY <1>5 DEF ServerStep, AnswerDuplicate, FindNew, ApplyEvent, InsertConflict, Refuse, Lose,
     gatewayVars
<1>6. UNCHANGED vars => UNCHANGED <<row, loopVars, event, sender>>
  BY DEF vars, loopVars
<1> QED
  BY <1>1, <1>2, <1>3, <1>4, <1>5, <1>6, StartHand, AnswerHand, StopHand, MqttHand
     DEF Next, ProduceNext, LoopStep

(* An acknowledged row stays ACKED and its event is not sent again, for    *)
(* any number of pushers, through lost answers, crashes and the MQTT       *)
(* thread's commits, unless two pushers have had the row in hand at once.  *)
THEOREM AcknowledgedForGood == Spec => AckedIsFinal
<1> DEFINE Final ==
      \A e \in Event \ contested :
         row[e] = "ACKED" =>
            /\ row'[e] = "ACKED"
            /\ \A r \in Request : event'[r] = e /\ phase'[r] = "sent" => phase[r] = "sent"
<1>1. ASSUME IInv, HandInv, [Next]_vars PROVE Final
  <2> SUFFICES ASSUME NEW e \in Event \ contested, row[e] = "ACKED"
               PROVE  /\ row'[e] = "ACKED"
                      /\ \A r \in Request : event'[r] = e /\ phase'[r] = "sent" => phase[r] = "sent"
    OBVIOUS
  <2>0. TypeOK
    BY <1>1 DEF IInv
  <2>1. row'[e] = "ACKED"
    <3>1. \/ row' = row
          \/ \E d \in Event : row[d] = "NONE" /\ row' = [row EXCEPT ![d] = "PENDING"]
          \/ \E p \in Pusher : Flush(p)
      BY <1>1 DEF Next, ProduceNext, LoopStep, ServerStep, RecordLocally, EnqueueEventUpload,
         StartPush, Send, ReceiveOk, ReceiveError, TimeOut, FinishPush, CommitFromMqtt, Crash,
         AnswerDuplicate, FindNew, ApplyEvent, InsertConflict, Refuse, Lose, gatewayVars, vars
    <3>2. ASSUME NEW p \in Pusher, Flush(p) PROVE row'[e] = "ACKED"
      BY <1>1, <3>2, OneHandFlush
    <3> QED
      BY <2>0, <3>1, <3>2 DEF TypeOK
  <2>2. ASSUME NEW r \in Request, event'[r] = e, phase'[r] = "sent" PROVE phase[r] = "sent"
    <3>1. CASE \E p \in Pusher, s \in Request : Send(p, s)
      BY <1>1, <2>0, <2>2, <3>1 DEF Send, HandInv, AckedAtRest, TypeOK
    <3>2. CASE ~ \E p \in Pusher, s \in Request : Send(p, s)
      <4>1. CASE UNCHANGED phase
        BY <2>2, <4>1
      <4>2. ASSUME NEW p \in Pusher, NEW s \in Request,
                   ReceiveOk(p, s) \/ ReceiveError(p, s) \/ TimeOut(p, s)
            PROVE  phase[r] = "sent"
        BY <2>0, <2>2, <4>2 DEF ReceiveOk, ReceiveError, TimeOut, TypeOK
      <4>3. ASSUME NEW s \in Request, ServerStep(s) \/ Refuse(s) \/ Lose(s) PROVE phase[r] = "sent"
        BY <2>0, <2>2, <4>3 DEF ServerStep, AnswerDuplicate, FindNew, ApplyEvent, InsertConflict,
           Refuse, Lose, Answer, TypeOK
      <4>4. ASSUME NEW p \in Pusher, StartPush(p) \/ FinishPush(p) \/ CommitFromMqtt(p)
            PROVE  UNCHANGED phase
        BY <4>4 DEF StartPush, FinishPush, CommitFromMqtt, requestVars
      <4>5. ProduceNext \/ UNCHANGED vars => UNCHANGED phase
        BY DEF ProduceNext, RecordLocally, EnqueueEventUpload, requestVars, vars
      <4>6. ASSUME NEW p \in Pusher, Crash(p) PROVE phase[r] = "sent"
        BY <2>0, <2>2, <4>6 DEF Crash, TypeOK
      <4> QED
        BY <1>1, <3>2, <4>1, <4>2, <4>3, <4>4, <4>5, <4>6 DEF Next, LoopStep
    <3> QED
      BY <3>1, <3>2
  <2> QED
    BY <2>1, <2>2
<1>2. IInv /\ HandInv /\ [Next]_vars => HandInv'
  BY HandStep
<1>3. IInv /\ HandInv /\ [Next]_vars => [Final]_vars
  BY <1>1
<1>4. QED
  BY <1>2, <1>3, HandInit, Invariance, PTL DEF Spec, AckedIsFinal
=============================================================================
