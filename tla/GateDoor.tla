------------------------------ MODULE GateDoor ------------------------------
(***************************************************************************)
(* What people at the gate may rely on, with no threads, batches, commits  *)
(* or crashes in it.  The gate shows codes and gives answers, with a code  *)
(* or without.  It opens only for an access that is on record, and once    *)
(* for each; a code is answered once, and its answer stands.  Codes that   *)
(* are excused may be answered again, or expire after the answer.          *)
(***************************************************************************)
EXTENDS Naturals, Sequences

CONSTANTS
    Code,     \* the codes shown; 0 stands for no code
    Access    \* accesses; 0 stands for none

VARIABLES
    answers,  \* what the gate has shown and answered, in order
    record,   \* accesses that are complete and on record
    excused   \* codes for which the promises are off

vars == <<answers, record, excused>>

Init == answers = <<>> /\ record = {} /\ excused = {}

(* An access on record that no answer has used yet                         *)
Unused == {a \in Access : /\ a \in record
                          /\ \A k \in 1..Len(answers) : answers[k].session # a}

(* Final answers, with code n                                              *)
Verdict(n) ==
    {[code |-> n, session |-> a, status |-> "GRANTED"] : a \in Unused}
       \union {[code |-> n, session |-> 0, status |-> "DENIED"]}

Show(n) ==
    /\ answers' = Append(answers, [code |-> n, session |-> 0, status |-> "PENDING"])
    /\ \A k \in 1..Len(answers) : answers[k].code # n
    /\ UNCHANGED <<record, excused>>

(* The answer to a card, or to a phone at the gate's tag                   *)
Answer ==
    /\ \E r \in Verdict(0) : answers' = Append(answers, r)
    /\ UNCHANGED <<record, excused>>

(* A code may be answered after it has expired.                            *)
Decide(k) ==
    LET n == answers[k].code IN
    /\ n # 0
    /\ answers[k].status \in {"PENDING", "EXPIRED"} \/ n \in excused
    /\ \E r \in Verdict(n) : answers' = [answers EXCEPT ![k] = r]
    /\ excused' \in {excused, excused \union {n}}
    /\ UNCHANGED record

Expire(k) ==
    /\ answers[k].code # 0
    /\ answers[k].status = "PENDING" \/ answers[k].code \in excused
    /\ answers' = [answers EXCEPT ![k].status = "EXPIRED"]
    /\ UNCHANGED <<record, excused>>

(* An access is complete: it stays on record.                              *)
Record(a) ==
    /\ UNCHANGED <<answers, excused>>
    /\ record' = record \union {a}

Excuse(n) ==
    /\ UNCHANGED <<answers, record>>
    /\ excused' = excused \union {n}

Next ==
    \/ \E n \in Code : Show(n) \/ Excuse(n)
    \/ \E k \in 1..Len(answers) : Decide(k) \/ Expire(k)
    \/ \E a \in Access : Record(a)
    \/ Answer

Spec == Init /\ [][Next]_vars
=============================================================================
