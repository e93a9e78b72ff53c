----------------------------- MODULE Tags_proofs -----------------------------
(***************************************************************************)
(* Proofs about the registry of tags, for any number of tags, devices,     *)
(* parcels and overlapping operations.                                     *)
(***************************************************************************)
EXTENDS Tags, WellFoundedInduction, TLAPS

Kind == {"none", "register", "ble", "bind", "release"}

(* What an operation may have read: some rows, as they were.               *)
Seen == UNION {[tags -> Row] : tags \in SUBSET TagId}

OpType == [kind : Kind, seen : Seen, goal : TagStatus \union {"NONE"}, parcel : SUBSET Parcel,
           release : SUBSET (Parcel \X TagId), device : MaybeDevice, no : 0..MaxTag,
           late : BOOLEAN]

OpTypes == op \in [Op -> OpType]

(* A binding was named by somebody, and its tag has a row.                 *)
BoundTagsExist == \A b \in ever : b \in named /\ Exists(b[2])

(* A registration is for a device and has worked out a number; a bind does *)
(* what its command names; a release has read the rows of the tags it      *)
(* releases.                                                               *)
KindSound(o) ==
    /\ op[o].kind = "register" => op[o].no \in TagId /\ op[o].device \in Device
    /\ op[o].kind = "ble" => op[o].goal \in {"ONLINE", "RUNNING"}
    /\ op[o].kind = "bind" => op[o].parcel # {} /\ (op[o].parcel \X DOMAIN op[o].seen) \subseteq named
    /\ op[o].kind = "release" => \A b \in op[o].release : b[2] \in DOMAIN op[o].seen

KindsSound == \A o \in Op : KindSound(o)

TypeInv == TypeOK /\ OpTypes /\ BoundTagsExist /\ KindsSound

-----------------------------------------------------------------------------
(* What an operation does to the others *)

(* Of q nothing changes but that it may have become late; it is not late   *)
(* if it has read no row of tags and does not depend on a new number.      *)
Kept(q, tags, numbering) ==
    /\ op'[q].kind = op[q].kind /\ op'[q].seen = op[q].seen /\ op'[q].goal = op[q].goal
    /\ op'[q].parcel = op[q].parcel /\ op'[q].release = op[q].release
    /\ op'[q].device = op[q].device /\ op'[q].no = op[q].no
    /\ ~op'[q].late => /\ ~op[q].late
                       /\ DOMAIN op[q].seen \cap tags = {}
                       /\ numbering => op[q].kind # "register"

LEMMA SeenRows ==
    ASSUME NEW f \in Seen
    PROVE  DOMAIN f \subseteq TagId /\ \A t \in DOMAIN f : f[t] \in Row
  BY DEF Seen

LEMMA ReadRows ==
    ASSUME row \in [TagId -> Row], NEW tags \in SUBSET TagId
    PROVE  /\ Read(tags) \in Seen
           /\ DOMAIN Read(tags) = tags
           /\ \A t \in tags : Read(tags)[t] = row[t]
<1>1. Read(tags) \in [tags -> Row]
  BY DEF Read
<1> QED
  BY <1>1 DEF Seen, Read

LEMMA FreeIsOp == Free \in OpType /\ DOMAIN Free.seen = {} /\ Free.kind = "none"
<1>1. <<>> \in [{} -> Row] /\ DOMAIN <<>> = {}
  OBVIOUS
<1>2. <<>> \in Seen
  BY <1>1 DEF Seen
<1>3. 0 \in 0..MaxTag
  BY ConstantsOK
<1> QED
  BY <1>1, <1>2, <1>3 DEF Free, OpType, Kind, MaybeDevice

LEMMA TouchedOps ==
    ASSUME OpTypes, NEW tags, NEW numbering \in BOOLEAN
    PROVE  /\ Touched(tags, numbering) \in [Op -> OpType]
           /\ \A q \in Op : LET new == Touched(tags, numbering)[q] IN
                 /\ new.kind = op[q].kind /\ new.seen = op[q].seen /\ new.goal = op[q].goal
                 /\ new.parcel = op[q].parcel /\ new.release = op[q].release
                 /\ new.device = op[q].device /\ new.no = op[q].no
                 /\ ~new.late => /\ ~op[q].late
                                 /\ DOMAIN op[q].seen \cap tags = {}
                                 /\ numbering => op[q].kind # "register"
  BY ZenonT(40) DEF Touched, OpTypes, OpType

LEMMA FinishEffect ==
    ASSUME OpTypes, NEW o \in Op, NEW tags, NEW numbering \in BOOLEAN, Finish(o, tags, numbering)
    PROVE  /\ OpTypes'
           /\ op'[o] = Free
           /\ \A q \in Op \ {o} : Kept(q, tags, numbering)
           /\ overlapped \subseteq overlapped'
           /\ op[o].late => tags \subseteq overlapped'
           /\ overlapped' \subseteq overlapped \union tags
<1>1. op' = [Touched(tags, numbering) EXCEPT ![o] = Free]
  BY DEF Finish
<1>2. OpTypes' /\ op'[o] = Free
  BY <1>1, TouchedOps, FreeIsOp DEF OpTypes
<1>3. \A q \in Op \ {o} : op'[q] = Touched(tags, numbering)[q]
  BY <1>1, TouchedOps
<1>4. \A q \in Op \ {o} : Kept(q, tags, numbering)
  BY <1>3, TouchedOps DEF Kept
<1> QED
  BY <1>2, <1>4 DEF Finish

LEMMA AtOnceEffect ==
    ASSUME OpTypes, NEW tags, NEW numbering \in BOOLEAN, AtOnce(tags, numbering)
    PROVE  OpTypes' /\ \A q \in Op : Kept(q, tags, numbering)
<1>1. op' = Touched(tags, numbering)
  BY DEF AtOnce
<1> QED
  BY <1>1, TouchedOps DEF OpTypes, Kept

LEMMA StartEffect ==
    ASSUME OpTypes, NEW o \in Op, NEW what \in OpType, Start(o, what)
    PROVE  /\ OpTypes'
           /\ op'[o] = what
           /\ \A q \in Op \ {o} : op'[q] = op[q] /\ Kept(q, {}, FALSE)
  BY DEF OpTypes, Start, Kept, OpType

-----------------------------------------------------------------------------
(* Type correctness: every variable holds values of its kind, an operation *)
(* has read only rows that exist and releases only bindings that do.       *)

(* The conjuncts of TypeOK about the rows and the history                  *)
RowTypes ==
    /\ row \in [TagId -> Row]
    /\ active \subseteq ever /\ ever \subseteq Parcel \X TagId
    /\ token \in {"none", "valid"}
    /\ done \in 0..MaxDone
    /\ named \subseteq Parcel \X TagId
    /\ woken \subseteq TagId /\ serverBound \subseteq TagId /\ seeded \subseteq ever
    /\ given \subseteq TagId /\ overlapped \subseteq TagId

(* Rows do not go away, neither do bindings.                               *)
Grows ==
    /\ \A t \in TagId : Exists(t) => Exists(t)'
    /\ ever \subseteq ever' /\ named \subseteq named'

OpSound(o) ==
    /\ DOMAIN op[o].seen \subseteq TagId
    /\ op[o].release \subseteq ever
    /\ \A t \in DOMAIN op[o].seen : Exists(t) /\ op[o].seen[t].status # "NONE"
    /\ KindSound(o)

LEMMA KeptIsSound ==
    ASSUME NEW q, NEW tags, NEW numbering, Kept(q, tags, numbering), OpSound(q), Grows
    PROVE  OpSound(q)'
  BY DEF Kept, OpSound, KindSound, Grows

LEMMA SetStatusTypes ==
    ASSUME TypeInv, NEW o \in Op, NEW goal \in TagStatus, SetStatus(o, goal)
    PROVE  /\ row' \in [TagId -> Row]
           /\ \A t \in TagId : Exists(t) => Exists(t)'
<1>1. \A t \in DOMAIN op[o].seen : op[o].seen[t] \in Row
  BY SeenRows DEF TypeInv, OpTypes, OpType
<1>2. row \in [TagId -> Row]
  BY DEF TypeInv, TypeOK
<1>3. ASSUME NEW t \in TagId PROVE row'[t] \in Row /\ (Exists(t) => Exists(t)')
  <2>1. CASE t \in DOMAIN op[o].seen
    <3>1. row'[t] = [row[t] EXCEPT !.status = Written(op[o].seen[t].status, row[t].status, goal)]
      BY <2>1 DEF SetStatus
    <3> QED
      BY <3>1, <1>2 DEF Written, Row, TagStatus, Exists
  <2>2. CASE t \notin DOMAIN op[o].seen
    <3>1. row'[t] = row[t]
      BY <2>2 DEF SetStatus
    <3> QED
      BY <3>1, <1>2 DEF Exists
  <2> QED
    BY <2>1, <2>2
<1>4. row' = [t \in TagId |-> row'[t]]
  BY DEF SetStatus
<1> QED
  BY <1>3, <1>4

LEMMA NextNumber ==
    ASSUME row \in [TagId -> Row], NextLocalNo <= MaxTag
    PROVE  /\ NextLocalNo \in TagId
           /\ \A t \in TagId : row[t].no < NextLocalNo
<1> DEFINE left == {MaxTag - row[t].no : t \in TagId}
           less == {ss \in Nat \X Nat : ss[1] < ss[2]}
<1>1. \A t \in TagId : row[t].no \in 0..MaxTag
  BY DEF Row
<1>2. left \subseteq Nat /\ left # {}
  BY <1>1, ConstantsOK DEF TagId
<1>3. IsWellFoundedOn(less, Nat)
  BY NatLessThanWellFounded DEF OpToRel
<1>4. \E x \in left : \A y \in left : <<y, x>> \notin less
  BY <1>2, <1>3, WFMin
<1>5. PICK x \in left : \A y \in left : ~(y < x)
  BY <1>2, <1>4
<1>6. PICK u \in TagId : x = MaxTag - row[u].no
  BY <1>5
<1>7. MaxTag \in Nat
  BY ConstantsOK
<1>8. ASSUME NEW t \in TagId PROVE row[t].no <= row[u].no
  <2>1. MaxTag - row[t].no \in left
    OBVIOUS
  <2>2. ~(MaxTag - row[t].no < MaxTag - row[u].no)
    BY <2>1, <1>5, <1>6
  <2>3. row[t].no \in Nat /\ row[u].no \in Nat
    BY <1>1
  <2> QED
    BY <2>2, <2>3, <1>7
<1>9. PICK n \in {row[t].no : t \in TagId} : NextLocalNo = 1 + n /\ \A t \in TagId : row[t].no <= n
  <2>1. \E n \in {row[t].no : t \in TagId} : \A t \in TagId : row[t].no <= n
    BY <1>8
  <2> QED
    BY <2>1 DEF NextLocalNo
<1>10. n \in Nat
  BY <1>1
<1>11. \A t \in TagId : row[t].no \in Nat
  BY <1>1
<1>12. ASSUME NEW t \in TagId PROVE row[t].no < NextLocalNo
  BY <1>9, <1>10, <1>11
<1> QED
  BY <1>7, <1>9, <1>10, <1>12 DEF TagId

LEMMA Collect ==
    ASSUME RowTypes', OpTypes', BoundTagsExist', \A o \in Op : OpSound(o)'
    PROVE  TypeInv'
  BY DEF RowTypes, OpSound, TypeInv, TypeOK, KindsSound

LEMMA Sound ==
    ASSUME TypeInv, NEW o \in Op
    PROVE  OpSound(o) /\ op[o] \in OpType
  BY DEF TypeInv, TypeOK, OpSound, OpTypes, KindsSound

LEMMA TypesOfStart ==
    ASSUME TypeInv, NEW o \in Op, NEW what \in OpType, Start(o, what), RowTypes', Grows,
           BoundTagsExist', OpSound(o)'
    PROVE  TypeInv'
<1>1. OpTypes' /\ \A q \in Op \ {o} : Kept(q, {}, FALSE)
  BY StartEffect DEF TypeInv
<1>2. \A q \in Op : OpSound(q)'
  BY <1>1, KeptIsSound, Sound
<1> QED
  BY <1>1, <1>2, Collect

LEMMA FreeIsSound == ASSUME NEW o \in Op, op'[o] = Free PROVE OpSound(o)'
<1>1. op'[o].release = {} /\ DOMAIN op'[o].seen = {} /\ op'[o].kind = "none"
  BY FreeIsOp DEF Free
<1> QED
  BY <1>1 DEF OpSound, KindSound

LEMMA TypesOfFinish ==
    ASSUME TypeInv, NEW o \in Op, NEW tags, NEW numbering \in BOOLEAN,
           Finish(o, tags, numbering), RowTypes', Grows, BoundTagsExist'
    PROVE  TypeInv'
<1>1. OpTypes' /\ op'[o] = Free /\ \A q \in Op \ {o} : Kept(q, tags, numbering)
  BY FinishEffect DEF TypeInv
<1>2. \A q \in Op : OpSound(q)'
  BY <1>1, KeptIsSound, FreeIsSound, Sound
<1> QED
  BY <1>1, <1>2, Collect

LEMMA TypesOfAtOnce ==
    ASSUME TypeInv, NEW tags, NEW numbering \in BOOLEAN,
           AtOnce(tags, numbering), RowTypes', Grows, BoundTagsExist'
    PROVE  TypeInv'
<1>1. OpTypes' /\ \A q \in Op : Kept(q, tags, numbering)
  BY AtOnceEffect DEF TypeInv
<1>2. \A q \in Op : OpSound(q)'
  BY <1>1, KeptIsSound, Sound
<1> QED
  BY <1>1, <1>2, Collect

LEMMA TypeInit == Init => TypeInv
<1> SUFFICES ASSUME Init PROVE TypeInv
  OBVIOUS
<1>1. NoRow \in Row
  BY ConstantsOK DEF NoRow, Row, TagStatus, MaybeDevice
<1>2. OpTypes
  BY FreeIsOp DEF Init, OpTypes
<1>3. \A o \in Op : OpSound(o)
  BY FreeIsOp DEF Init, OpSound, KindSound, Free
<1>4. RowTypes /\ BoundTagsExist
  BY <1>1, ConstantsOK DEF Init, RowTypes, BoundTagsExist
<1> QED
  BY <1>2, <1>3, <1>4 DEF TypeInv, TypeOK, OpSound, RowTypes, KindsSound

(* The operation that starts has read the rows of tags, which exist.       *)
LEMMA ReadIsSound ==
    ASSUME TypeInv, NEW o \in Op, NEW what \in OpType, Start(o, what), NEW tags \in SUBSET TagId,
           what.seen = Read(tags), \A t \in tags : Exists(t), what.release \subseteq ever, Grows,
           what.kind = "register" => what.no \in TagId /\ what.device \in Device,
           what.kind = "ble" => what.goal \in {"ONLINE", "RUNNING"},
           what.kind # "bind",
           what.kind = "release" => \A b \in what.release : b[2] \in tags
    PROVE  OpSound(o)'
<1>1. op'[o] = what
  BY StartEffect DEF TypeInv
<1>2. DOMAIN Read(tags) = tags /\ \A t \in tags : Read(tags)[t] = row[t]
  BY ReadRows DEF TypeInv, TypeOK
<1>3. \A t \in tags : Exists(t)' /\ row[t].status # "NONE"
  BY DEF Exists, Grows
<1> QED
  BY <1>1, <1>2, <1>3 DEF OpSound, KindSound, Grows

LEMMA StartCounts ==
    ASSUME done \in 0..MaxDone, NEW o, NEW what, Start(o, what)
    PROVE  done' \in 0..MaxDone
  BY ConstantsOK DEF Start

LEMMA TypesOfSend ==
    ASSUME TypeInv, NEW o \in Op, NEW t \in TagId, NEW goal \in {"ONLINE", "RUNNING"}, SendCommand(o, t, goal),
           woken' \subseteq TagId
    PROVE  TypeInv'
<1> DEFINE what == [Free EXCEPT !.kind = "ble", !.seen = Read({t}), !.goal = goal]
<1>1. Start(o, what) /\ Exists(t) /\ UNCHANGED <<row, active, ever, token, named, serverBound, seeded, given, overlapped>>
  BY DEF SendCommand
<1>2. what \in OpType /\ what.seen = Read({t}) /\ what.release = {} /\ what.kind = "ble"
        /\ what.goal = goal
  BY ZenonT(40), ReadRows, FreeIsOp DEF Free, OpType, Kind, TagStatus, TypeInv, TypeOK
<1>3. RowTypes' /\ Grows /\ BoundTagsExist'
  BY <1>1, StartCounts DEF RowTypes, Grows, BoundTagsExist, TypeInv, TypeOK, Exists
<1>4. OpSound(o)'
  BY ZenonT(40), <1>1, <1>2, <1>3, ReadIsSound
<1> QED
  BY <1>1, <1>2, <1>3, <1>4, TypesOfStart

LEMMA BindingType == \A b \in Parcel \X TagId : b[1] \in Parcel /\ b[2] \in TagId
  OBVIOUS

LEMMA TypesOfRelease ==
    ASSUME TypeInv, NEW o \in Op, NEW tags \in SUBSET TagId, \A t \in tags : Exists(t),
           NEW release \in SUBSET ever, \A b \in release : b[2] \in tags, named' \subseteq Parcel \X TagId, named \subseteq named',
           Start(o, [Free EXCEPT !.kind = "release", !.release = release, !.seen = Read(tags)]),
           UNCHANGED <<row, active, ever, token, woken, serverBound, seeded, given, overlapped>>
    PROVE  TypeInv'
<1> DEFINE what == [Free EXCEPT !.kind = "release", !.release = release, !.seen = Read(tags)]
<1>1. what \in OpType /\ what.seen = Read(tags) /\ what.release = release /\ what.kind = "release"
  BY ReadRows, FreeIsOp DEF Free, OpType, Kind, TypeInv, TypeOK
<1>2. RowTypes' /\ Grows /\ BoundTagsExist'
  BY StartCounts DEF RowTypes, Grows, BoundTagsExist, TypeInv, TypeOK, Exists
<1>3. OpSound(o)'
  BY <1>1, <1>2, ReadIsSound
<1> QED
  BY <1>1, <1>2, <1>3, TypesOfStart

LEMMA TypeStep == TypeInv /\ [Next]_vars => TypeInv'
<1> SUFFICES ASSUME TypeInv, [Next]_vars PROVE TypeInv'
  OBVIOUS
<1>0. RowTypes /\ OpTypes /\ BoundTagsExist
  BY DEF TypeInv, TypeOK, RowTypes
<1>00. NoDevice \in MaybeDevice /\ Device \subseteq MaybeDevice /\ 0 \in 0..MaxTag /\ TagId \subseteq 0..MaxTag
  BY ConstantsOK DEF MaybeDevice, TagId
<1>1. CASE IssueToken \/ EndToken
  <2>1. RowTypes' /\ op' = op /\ row' = row /\ ever' = ever /\ named' = named
    BY <1>0, <1>1, ConstantsOK DEF IssueToken, EndToken, Session, RowTypes
  <2> QED
    BY <2>1 DEF TypeInv, TypeOK, OpTypes, BoundTagsExist, KindsSound, KindSound, RowTypes, Exists
<1>2. ASSUME NEW o \in Op, NEW d \in Device, RegisterFromBle(o, d) PROVE TypeInv'
  <2>1. PICK tags \in (IF Known(d) = {} THEN {{}} ELSE {{t} : t \in Known(d)}) :
          Start(o, [Free EXCEPT !.kind = "register", !.seen = Read(tags), !.device = d, !.no = NextLocalNo])
    BY <1>2 DEF RegisterFromBle
  <2> DEFINE what == [Free EXCEPT !.kind = "register", !.seen = Read(tags), !.device = d, !.no = NextLocalNo]
  <2>2. tags \in SUBSET TagId /\ \A t \in tags : Exists(t)
    BY <2>1 DEF Known
  <2>3. NextLocalNo \in TagId
    BY <1>0, <1>2, NextNumber DEF RegisterFromBle, RowTypes
  <2>4. /\ what \in OpType /\ what.seen = Read(tags) /\ what.release = {} /\ what.kind = "register"
        /\ what.no = NextLocalNo /\ what.device = d
    BY <1>0, <1>00, <2>2, <2>3, ReadRows, FreeIsOp DEF Free, OpType, Kind, RowTypes
  <2>5. RowTypes' /\ Grows /\ BoundTagsExist'
    BY <1>0, <1>2, <2>1, StartCounts DEF RegisterFromBle, RowTypes, Grows, BoundTagsExist, Exists
  <2>6. OpSound(o)'
    BY <2>1, <2>2, <2>3, <2>4, <2>5, ReadIsSound
  <2> QED
    BY <2>1, <2>4, <2>5, <2>6, TypesOfStart
<1>3. ASSUME NEW o \in Op, CommitNew(o) PROVE TypeInv'
  <2> DEFINE d == op[o].device
             t == op[o].no
             new == [status |-> "ONLINE", no |-> t, uid |-> d, name |-> d, addr |-> d]
  <2>1. t \in TagId /\ d \in Device
    BY <1>3 DEF CommitNew, TypeInv, KindsSound, KindSound
  <2>2. new \in Row /\ new.status = "ONLINE"
    BY <2>1, <1>00 DEF Row, TagStatus
  <2>3. UNCHANGED <<active, ever, token, done, woken, named, serverBound, seeded, given>>
    BY <1>3 DEF CommitNew
  <2>4. CASE Exists(t)
    <3>1. Finish(o, {}, FALSE) /\ row' = row
      BY <1>3, <2>4 DEF CommitNew
    <3>2. overlapped' \subseteq overlapped \union {}
      BY <1>0, <3>1, FinishEffect
    <3>3. RowTypes' /\ Grows /\ BoundTagsExist'
      BY <1>0, <2>3, <3>1, <3>2 DEF RowTypes, Grows, BoundTagsExist, Exists
    <3> QED
      BY <3>1, <3>3, TypesOfFinish
  <2>5. CASE ~Exists(t)
    <3>1. Finish(o, {t}, TRUE) /\ row' = [row EXCEPT ![t] = new]
      BY <1>3, <2>5 DEF CommitNew
    <3>2. overlapped' \subseteq overlapped \union {t}
      BY <1>0, <3>1, FinishEffect
    <3>3. row' \in [TagId -> Row] /\ \A u \in TagId : Exists(u) => Exists(u)'
      BY <1>0, <2>2, <3>1 DEF RowTypes, Exists
    <3>4. RowTypes' /\ Grows /\ BoundTagsExist'
      BY <1>0, <2>1, <2>3, <3>2, <3>3, BindingType DEF RowTypes, Grows, BoundTagsExist
    <3> QED
      BY <3>1, <3>4, TypesOfFinish
  <2> QED
    BY <2>4, <2>5
<1>4. ASSUME NEW o \in Op, CommitKnown(o) PROVE TypeInv'
  <2> DEFINE d == op[o].device
             seen == op[o].seen
  <2>1. d \in Device /\ op[o].no \in 0..MaxTag
    BY <1>4, <1>0 DEF CommitKnown, TypeInv, KindsSound, KindSound, OpTypes, OpType
  <2>2. PICK t \in DOMAIN seen :
           /\ row' = [row EXCEPT ![t] =
                [status |-> Written(seen[t].status, @.status, "ONLINE"),
                 no     |-> IF seen[t].no = 0 THEN op[o].no ELSE @.no,
                 uid    |-> Written(seen[t].uid, @.uid, Fill(seen[t].uid, d)),
                 name   |-> Written(seen[t].name, @.name, KeepName(seen[t].name, d)),
                 addr   |-> Written(seen[t].addr, @.addr, d)]]
           /\ Finish(o, {t}, TRUE)
    BY <1>4 DEF CommitKnown
  <2>3. t \in TagId /\ seen[t] \in Row /\ Exists(t)
    BY <1>0, <2>2, SeenRows, Sound DEF OpSound, OpTypes, OpType
  <2>4. UNCHANGED <<active, ever, token, done, woken, named, serverBound, seeded, given>>
    BY <1>4 DEF CommitKnown
  <2>5. overlapped' \subseteq overlapped \union {t}
    BY <1>0, <2>2, FinishEffect
  <2>6. row[t] \in Row /\ row[t].status # "NONE"
    BY <1>0, <2>3 DEF RowTypes, Exists
  <2> DEFINE new == [status |-> Written(seen[t].status, row[t].status, "ONLINE"),
                     no     |-> IF seen[t].no = 0 THEN op[o].no ELSE row[t].no,
                     uid    |-> Written(seen[t].uid, row[t].uid, Fill(seen[t].uid, d)),
                     name   |-> Written(seen[t].name, row[t].name, KeepName(seen[t].name, d)),
                     addr   |-> Written(seen[t].addr, row[t].addr, d)]
  <2>7. row' = [row EXCEPT ![t] = new]
    BY <2>2
  <2>8. new \in Row /\ new.status # "NONE"
    BY <1>00, <2>1, <2>3, <2>6 DEF Row, TagStatus, Written, Fill, KeepName
  <2>9. row' \in [TagId -> Row] /\ \A u \in TagId : Exists(u) => Exists(u)'
    <3> HIDE DEF new
    <3> QED
      BY <1>0, <2>3, <2>7, <2>8 DEF RowTypes, Exists
  <2>10. RowTypes' /\ Grows /\ BoundTagsExist'
    BY <1>0, <2>3, <2>4, <2>5, <2>9, BindingType DEF RowTypes, Grows, BoundTagsExist
  <2> QED
    BY <2>2, <2>10, TypesOfFinish
<1>5. ASSUME NEW t \in TagId, NEW u \in MaybeDevice, RegisterTag(t, u) PROVE TypeInv'
  <2>1. row[t] \in Row /\ NoRow \in Row
    BY <1>0, <1>00 DEF RowTypes, NoRow, Row
  <2> DEFINE new == IF Exists(t) THEN [row[t] EXCEPT !.uid = Given(row[t].uid, u)]
                    ELSE [NoRow EXCEPT !.status = "IDLE", !.uid = u]
  <2>2. row' = [row EXCEPT ![t] = new] /\ AtOnce({t}, TRUE)
        /\ UNCHANGED <<active, ever, token, woken, named, serverBound, seeded, overlapped>>
    BY <1>5 DEF RegisterTag
  <2>3. new \in Row /\ new.status # "NONE"
    BY <2>1, <1>00 DEF Row, TagStatus, NoRow, Exists, Given
  <2>4. row' \in [TagId -> Row] /\ \A v \in TagId : Exists(v) => Exists(v)'
    <3> HIDE DEF new
    <3> QED
      BY <1>0, <2>2, <2>3 DEF RowTypes, Exists
  <2>5. given' \subseteq TagId /\ done' \in 0..MaxDone
    BY <1>0, <1>5, ConstantsOK DEF RegisterTag, AtOnce, RowTypes
  <2>6. RowTypes' /\ Grows /\ BoundTagsExist'
    BY <1>0, <2>2, <2>4, <2>5, BindingType DEF RowTypes, Grows, BoundTagsExist
  <2> QED
    BY <2>2, <2>6, TypesOfAtOnce
<1>6. ASSUME NEW d \in Device, ScanTags(d) PROVE TypeInv'
  <2>1. PICK t \in TagId : Exists(t) /\ row' = [row EXCEPT ![t].addr = d] /\ AtOnce({t}, FALSE)
    BY <1>6 DEF ScanTags
  <2>2. row' \in [TagId -> Row] /\ \A v \in TagId : Exists(v) => Exists(v)'
    BY <1>0, <1>00, <2>1 DEF RowTypes, Row, Exists
  <2>3. UNCHANGED <<active, ever, token, woken, named, serverBound, seeded, given, overlapped>> /\ done' \in 0..MaxDone
    BY <1>0, <1>6, <2>1, ConstantsOK DEF ScanTags, AtOnce, RowTypes
  <2>4. RowTypes' /\ Grows /\ BoundTagsExist'
    BY <1>0, <2>2, <2>3, BindingType DEF RowTypes, Grows, BoundTagsExist
  <2> QED
    BY <2>1, <2>4, TypesOfAtOnce
<1>7. ASSUME NEW t \in TagId, ReportTagException(t) PROVE TypeInv'
  <2>1. row' = [row EXCEPT ![t].status = "ERROR"] /\ AtOnce({t}, FALSE)
        /\ UNCHANGED <<active, ever, token, woken, named, serverBound, seeded, given, overlapped>>
    BY <1>7 DEF ReportTagException
  <2>2. row' \in [TagId -> Row] /\ \A v \in TagId : Exists(v) => Exists(v)'
    BY <1>0, <2>1 DEF RowTypes, Row, TagStatus, Exists
  <2>3. done' \in 0..MaxDone
    BY <1>0, <2>1, ConstantsOK DEF AtOnce, RowTypes
  <2>4. RowTypes' /\ Grows /\ BoundTagsExist'
    BY <1>0, <2>1, <2>2, <2>3, BindingType DEF RowTypes, Grows, BoundTagsExist
  <2> QED
    BY <2>1, <2>4, TypesOfAtOnce
<1>8. ASSUME NEW o \in Op, NEW t \in TagId,
             ConnectTag(o, t) \/ WakeTag(o, t) \/ StopTag(o, t) \/ ReadTagStatus(o, t)
      PROVE  TypeInv'
  <2>1. PICK goal \in {"ONLINE", "RUNNING"} : SendCommand(o, t, goal)
    BY <1>8 DEF ConnectTag, WakeTag, StopTag, ReadTagStatus
  <2>2. woken' \subseteq TagId
    BY <1>0, <1>8 DEF ConnectTag, WakeTag, StopTag, ReadTagStatus, RowTypes
  <2> QED
    BY <2>1, <2>2, TypesOfSend
<1>9. ASSUME NEW o \in Op, ApplyBleResult(o) PROVE TypeInv'
  <2>1. PICK status \in Outcome(op[o].goal) : SetStatus(o, status)
    BY <1>9 DEF ApplyBleResult
  <2>2. Finish(o, DOMAIN op[o].seen, FALSE)
        /\ UNCHANGED <<active, ever, token, done, woken, named, serverBound, seeded, given>>
    BY <1>9 DEF ApplyBleResult
  <2>3. status \in TagStatus
    BY <1>9, <2>1 DEF ApplyBleResult, Outcome, TagStatus, TypeInv, KindsSound, KindSound
  <2>4. row' \in [TagId -> Row] /\ \A t \in TagId : Exists(t) => Exists(t)'
    BY <2>1, <2>3, SetStatusTypes
  <2>5. overlapped' \subseteq overlapped \union DOMAIN op[o].seen /\ DOMAIN op[o].seen \subseteq TagId
    BY <1>0, <2>2, FinishEffect, Sound DEF OpSound
  <2>6. RowTypes' /\ Grows /\ BoundTagsExist'
    BY <1>0, <2>2, <2>4, <2>5, BindingType DEF RowTypes, Grows, BoundTagsExist
  <2> QED
    BY <2>2, <2>6, TypesOfFinish
<1>10. ASSUME NEW o \in Op, NEW p \in Parcel, NEW t \in TagId, BindTag(o, p, t) PROVE TypeInv'
  <2> DEFINE what == [Free EXCEPT !.kind = "bind", !.parcel = {p}, !.seen = [u \in {t} |-> row'[t]]]
  <2>1. /\ row' = [row EXCEPT ![t] = IF Exists(t) THEN @ ELSE [NoRow EXCEPT !.status = "IDLE"]]
        /\ Start(o, what)
        /\ named' = named \union {<<p, t>>}
        /\ UNCHANGED <<active, ever, token, woken, serverBound, seeded, given, overlapped>>
    BY <1>10 DEF BindTag
  <2>2. row' \in [TagId -> Row] /\ Exists(t)' /\ \A v \in TagId : Exists(v) => Exists(v)'
    BY <1>0, <1>00, <2>1 DEF RowTypes, Row, NoRow, TagStatus, Exists
  <2>3. done' \in 0..MaxDone
    BY <1>0, <2>1, ConstantsOK DEF Start, RowTypes
  <2>4. RowTypes' /\ Grows /\ BoundTagsExist'
    BY <1>0, <2>1, <2>2, <2>3, BindingType DEF RowTypes, Grows, BoundTagsExist
  <2>5. what.seen \in Seen /\ DOMAIN what.seen = {t} /\ what.seen[t] = row'[t]
    <3>1. what.seen = [u \in {t} |-> row'[t]] /\ what.seen \in [{t} -> Row]
      BY <2>2 DEF Free
    <3> QED
      BY <3>1 DEF Seen
  <2>6. what \in OpType /\ what.kind = "bind" /\ what.parcel = {p} /\ what.release = {}
    BY <2>5, FreeIsOp DEF Free, OpType, Kind
  <2>7. op'[o] = what
    BY <1>0, <2>1, <2>6, StartEffect
  <2>8. OpSound(o)'
    <3>1. /\ op'[o].kind = "bind" /\ op'[o].parcel = {p} /\ op'[o].release = {}
          /\ DOMAIN op'[o].seen = {t} /\ op'[o].seen[t] = row'[t]
      BY <2>5, <2>6, <2>7
    <3>2. ({p} \X {t}) \subseteq named'
      BY <2>1
    <3> QED
      BY <2>2, <3>1, <3>2 DEF OpSound, KindSound, Exists
  <2> QED
    BY <2>1, <2>4, <2>6, <2>8, TypesOfStart
<1>11. ASSUME NEW o \in Op, CommitBind(o) PROVE TypeInv'
  <2> DEFINE new == op[o].parcel \X DOMAIN op[o].seen
  <2>1. /\ active' = active \union new /\ ever' = ever \union new
        /\ SetStatus(o, "RUNNING") /\ Finish(o, DOMAIN op[o].seen, FALSE)
        /\ UNCHANGED <<token, done, woken, named, serverBound, seeded, given>>
    BY <1>11 DEF CommitBind
  <2>2. row' \in [TagId -> Row] /\ \A t \in TagId : Exists(t) => Exists(t)'
    BY <2>1, SetStatusTypes DEF TagStatus
  <2>3. overlapped' \subseteq overlapped \union DOMAIN op[o].seen
    BY <1>0, <2>1, FinishEffect
  <2>4. DOMAIN op[o].seen \subseteq TagId /\ new \subseteq named /\ \A t \in DOMAIN op[o].seen : Exists(t)
    BY <1>11, Sound DEF OpSound, KindSound, CommitBind
  <2>5. \A b \in new : b[2] \in DOMAIN op[o].seen
    OBVIOUS
  <2>6. RowTypes' /\ Grows /\ BoundTagsExist'
    BY <1>0, <2>1, <2>2, <2>3, <2>4, <2>5, BindingType DEF RowTypes, Grows, BoundTagsExist
  <2> QED
    BY <2>1, <2>6, TypesOfFinish
<1>12. ASSUME NEW o \in Op, NEW t \in TagId, ReleaseTag(o, t) PROVE TypeInv'
  <2>1. PICK only \in {Parcel} \union {{p} : p \in Parcel} :
          /\ Start(o, [Free EXCEPT !.kind = "release", !.seen = Read({t}), !.release = active \cap (only \X {t})])
          /\ named' = IF only = Parcel THEN named ELSE named \union (only \X {t})
    BY <1>12 DEF ReleaseTag
  <2> DEFINE release == active \cap (only \X {t})
  <2>2. release \in SUBSET ever /\ \A b \in release : b[2] \in {t}
    BY <1>0 DEF RowTypes
  <2>3. named' \subseteq Parcel \X TagId /\ named \subseteq named'
    BY <1>0, <2>1 DEF RowTypes
  <2>4. Exists(t) /\ UNCHANGED <<row, active, ever, token, woken, serverBound, seeded, given, overlapped>>
    BY <1>12 DEF ReleaseTag
  <2>5. Start(o, [Free EXCEPT !.kind = "release", !.release = release, !.seen = Read({t})])
    BY <2>1 DEF Free
  <2>6. {t} \in SUBSET TagId /\ \A v \in {t} : Exists(v)
    BY <2>4
  <2> HIDE DEF release
  <2> QED
    BY <2>2, <2>3, <2>4, <2>5, <2>6, TypesOfRelease
<1>13. ASSUME NEW o \in Op, NEW p \in Parcel, ConfirmPickup(o, p) PROVE TypeInv'
  <2>1. BindingsOf(p) \in SUBSET ever /\ Tags(BindingsOf(p)) \in SUBSET TagId
        /\ \A t \in Tags(BindingsOf(p)) : Exists(t)
    BY <1>0, BindingType DEF BindingsOf, Tags, RowTypes, BoundTagsExist
  <2>2. \A b \in BindingsOf(p) : b[2] \in Tags(BindingsOf(p))
    BY DEF Tags
  <2> QED
    BY <1>0, <1>13, <2>1, <2>2, TypesOfRelease DEF ConfirmPickup, RowTypes
<1>14. ASSUME NEW o \in Op, NEW p \in Parcel, ApplyPickup(o, p) PROVE TypeInv'
  <2> DEFINE all == {b \in ever : b[1] = p}
             tags == {t \in Tags(all) : Exists(t)}
  <2>1. all \in SUBSET ever /\ tags \in SUBSET TagId /\ \A t \in tags : Exists(t)
    BY <1>0, BindingType DEF Tags, RowTypes
  <2>2. \A b \in all : b[2] \in tags
    BY <1>0 DEF Tags, BoundTagsExist
  <2>3. Start(o, [Free EXCEPT !.kind = "release", !.release = all, !.seen = Read(tags)])
        /\ UNCHANGED <<row, active, ever, token, woken, named, serverBound, seeded, given, overlapped>>
    BY <1>14 DEF ApplyPickup
  <2> HIDE DEF all, tags
  <2> QED
    BY <1>0, <2>1, <2>2, <2>3, TypesOfRelease DEF RowTypes
<1>15. ASSUME NEW o \in Op, CommitRelease(o) PROVE TypeInv'
  <2>1. /\ active' = active \ op[o].release /\ woken' = woken \ DOMAIN op[o].seen
        /\ SetStatus(o, "IDLE") /\ Finish(o, DOMAIN op[o].seen, FALSE)
        /\ UNCHANGED <<ever, token, done, named, serverBound, seeded, given>>
    BY <1>15 DEF CommitRelease
  <2>2. row' \in [TagId -> Row] /\ \A t \in TagId : Exists(t) => Exists(t)'
    BY <2>1, SetStatusTypes DEF TagStatus
  <2>3. overlapped' \subseteq overlapped \union DOMAIN op[o].seen /\ DOMAIN op[o].seen \subseteq TagId
    BY <1>0, <2>1, FinishEffect, Sound DEF OpSound
  <2>4. RowTypes' /\ Grows /\ BoundTagsExist'
    BY <1>0, <2>1, <2>2, <2>3, BindingType DEF RowTypes, Grows, BoundTagsExist
  <2> QED
    BY <2>1, <2>4, TypesOfFinish
<1>16. ASSUME NEW p \in Parcel, NEW t \in TagId, ApplyBinding(p, t) PROVE TypeInv'
  <2>1. /\ row' = [row EXCEPT ![t] = IF Exists(t) THEN @ ELSE [NoRow EXCEPT !.status = "IDLE"]]
        /\ active' = active \union {<<p, t>>} /\ ever' = ever \union {<<p, t>>}
        /\ serverBound' = serverBound \union {t} /\ named' = named \union {<<p, t>>}
        /\ AtOnce({t}, TRUE) /\ UNCHANGED <<token, woken, seeded, given, overlapped>>
    BY <1>16 DEF ApplyBinding
  <2>2. row' \in [TagId -> Row] /\ Exists(t)' /\ \A v \in TagId : Exists(v) => Exists(v)'
    BY <1>0, <1>00, <2>1 DEF RowTypes, Row, NoRow, TagStatus, Exists
  <2>3. done' \in 0..MaxDone
    BY <1>0, <2>1, ConstantsOK DEF AtOnce, RowTypes
  <2>4. RowTypes' /\ Grows /\ BoundTagsExist'
    BY <1>0, <2>1, <2>2, <2>3, BindingType DEF RowTypes, Grows, BoundTagsExist
  <2> QED
    BY <2>1, <2>4, TypesOfAtOnce
<1>17. ASSUME NEW p \in Parcel, NEW t \in TagId, SeedDemoGate(p, t) PROVE TypeInv'
  <2>1. PICK new \in SUBSET {<<p, t>>} :
        /\ row' = [row EXCEPT ![t] = IF Exists(t) THEN @ ELSE [NoRow EXCEPT !.status = "IDLE"]]
        /\ active' = active \union new /\ ever' = ever \union new
        /\ seeded' = seeded \union new /\ named' = named \union {<<p, t>>}
        /\ AtOnce({t}, TRUE) /\ UNCHANGED <<token, woken, serverBound, given, overlapped>>
    BY <1>17 DEF SeedDemoGate
  <2>2. row' \in [TagId -> Row] /\ Exists(t)' /\ \A v \in TagId : Exists(v) => Exists(v)'
    BY <1>0, <1>00, <2>1 DEF RowTypes, Row, NoRow, TagStatus, Exists
  <2>3. done' \in 0..MaxDone
    BY <1>0, <2>1, ConstantsOK DEF AtOnce, RowTypes
  <2>4. RowTypes' /\ Grows /\ BoundTagsExist'
    BY <1>0, <2>1, <2>2, <2>3, BindingType DEF RowTypes, Grows, BoundTagsExist
  <2> QED
    BY <2>1, <2>4, TypesOfAtOnce
<1>18. CASE UNCHANGED vars
  BY <1>18 DEF vars, TypeInv, TypeOK, OpTypes, BoundTagsExist, KindsSound, KindSound, Exists
<1> QED
  BY <1>1, <1>2, <1>3, <1>4, <1>5, <1>6, <1>7, <1>8, <1>9, <1>10, <1>11, <1>12, <1>13, <1>14,
     <1>15, <1>16, <1>17, <1>18 DEF Next

-----------------------------------------------------------------------------
(* The inductive invariant.  Of an operation that is not late: what it has *)
(* read is still so; a registration's number is still the largest, and the *)
(* name it found on no row is on none; a wake is of a tag that was woken   *)
(* and not released since; a release leaves a tag on a parcel only if      *)
(* commands have named two parcels for it.                                 *)
TwoNamed(t) == \E b, c \in named : b[2] = t /\ c[2] = t /\ b[1] # c[1]

FreshRegister(q) ==
    op[q].kind = "register" =>
        /\ \A t \in TagId : row[t].no < op[q].no
        /\ DOMAIN op[q].seen = {} => \A t \in TagId : row[t].name # op[q].device

Fresh(q) ==
    /\ \A t \in DOMAIN op[q].seen : op[q].seen[t] = row[t]
    /\ FreshRegister(q)
    /\ op[q].kind = "ble" /\ op[q].goal = "RUNNING" => DOMAIN op[q].seen \subseteq woken
    /\ op[q].kind = "release" =>
          \A t \in DOMAIN op[q].seen : \A b \in active \ op[q].release : b[2] = t => TwoNamed(t)

(* A registration that has found a row has found one of its device.        *)
FoundOwn(q) ==
    op[q].kind = "register" =>
        \A t \in DOMAIN op[q].seen :
            op[q].device \in {op[q].seen[t].name, op[q].seen[t].uid} \/ Legacy[op[q].device] = t

OpInv(q) == (~op[q].late => Fresh(q)) /\ FoundOwn(q)

(* A tag is on a parcel by the binding seed-demo-gate made.                *)
BoundBySeed(t) == \E b \in active : b \in seeded /\ b[2] = t

(* Of a row: it is empty until it exists; its uid is its name, unless an   *)
(* operator has given it one; and what the properties say of it.           *)
Excused(t) == t \in given \union overlapped

TagInv(t) ==
    /\ Exists(t) \/ row[t] = NoRow
    /\ row[t].uid = row[t].name \/ Excused(t)
    /\ row[t].name # NoDevice /\ row[t].addr # row[t].name =>
          Excused(t) \/ \E d \in Device \ {row[t].name} : Legacy[d] = t
    /\ row[t].status = "RUNNING" => t \in Tags(active) \union woken \union overlapped
    /\ row[t].status = "IDLE" /\ t \in Tags(active) =>
          t \in serverBound \union overlapped \/ BoundBySeed(t) \/ TwoNamed(t)

PairInv(t, u) ==
    t # u =>
      /\ row[t].no # 0 /\ row[t].no = row[u].no => {t, u} \cap overlapped # {}
      /\ row[t].name # NoDevice /\ row[t].name = row[u].name =>
            {t, u} \cap (overlapped \union given \union {Legacy[row[t].name]}) # {}

PropInv ==
    /\ \A q \in Op : OpInv(q)
    /\ \A t \in TagId : TagInv(t)
    /\ \A t, u \in TagId : PairInv(t, u)

LEMMA Implied == PropInv => NumbersDiffer /\ DeviceNamedOnce /\ AddressIsOwn /\ BoundNotIdle /\ RunningHasReason
<1> SUFFICES ASSUME PropInv
             PROVE  NumbersDiffer /\ DeviceNamedOnce /\ AddressIsOwn /\ BoundNotIdle /\ RunningHasReason
  OBVIOUS
<1>1. NumbersDiffer
  BY DEF PropInv, PairInv, NumbersDiffer
<1>2. DeviceNamedOnce
  BY DEF PropInv, PairInv, DeviceNamedOnce
<1>3. AddressIsOwn
  BY DEF PropInv, TagInv, Excused, AddressIsOwn
<1>4. BoundNotIdle
  <2>1. \A t \in TagId : BoundBySeed(t) => t \in Tags(active \cap seeded)
    BY DEF BoundBySeed, Tags
  <2> QED
    BY <2>1 DEF PropInv, TagInv, TwoNamed, BoundNotIdle
<1>5. RunningHasReason
  BY DEF PropInv, TagInv, RunningHasReason
<1> QED
  BY <1>1, <1>2, <1>3, <1>4, <1>5

LEMMA PropInit == Init => PropInv
<1> SUFFICES ASSUME Init PROVE PropInv
  OBVIOUS
<1>1. \A q \in Op : OpInv(q)
  BY FreeIsOp DEF Init, OpInv, Fresh, FreshRegister, FoundOwn, Free
<1>2. \A t \in TagId : TagInv(t)
  BY DEF Init, TagInv, NoRow, Tags
<1>3. \A t, u \in TagId : PairInv(t, u)
  BY DEF Init, PairInv, NoRow
<1> QED
  BY <1>1, <1>2, <1>3 DEF PropInv

-----------------------------------------------------------------------------
(* A step leaves alone what is not about the tags it is about *)

Outside(tags) ==
    /\ \A t \in TagId \ tags : row'[t] = row[t]
    /\ \A b \in active' \ active : b[2] \in tags
    /\ \A b \in active \ active' : b[2] \in tags
    /\ \A t \in woken \ woken' : t \in tags
    /\ named \subseteq named' /\ overlapped \subseteq overlapped'
    /\ given \subseteq given' /\ serverBound \subseteq serverBound' /\ seeded \subseteq seeded'

SameNumberAndName(t) == row'[t].no = row[t].no /\ row'[t].name = row[t].name

LEMMA TwoNamedLasts == \A t : named \subseteq named' /\ TwoNamed(t) => TwoNamed(t)'
  BY DEF TwoNamed

LEMMA OtherOps ==
    ASSUME TypeInv, NEW q \in Op, OpInv(q), NEW tags, NEW numbering \in BOOLEAN,
           Kept(q, tags, numbering), Outside(tags),
           numbering \/ \A t \in TagId : SameNumberAndName(t)
    PROVE  OpInv(q)'
<1>1. DOMAIN op[q].seen \subseteq TagId
  BY Sound DEF OpSound
<1>2. FoundOwn(q)'
  BY DEF Kept, OpInv, FoundOwn
<1>3. ASSUME ~op'[q].late PROVE Fresh(q)'
  <2>1. DOMAIN op[q].seen \cap tags = {} /\ Fresh(q) /\ (numbering => op[q].kind # "register")
    BY <1>3 DEF Kept, OpInv
  <2>2. \A t \in DOMAIN op'[q].seen : op'[q].seen[t] = row'[t]
    BY <1>1, <2>1 DEF Kept, Fresh, Outside
  <2>3. FreshRegister(q)'
    BY <2>1 DEF Kept, Fresh, FreshRegister, SameNumberAndName
  <2>4. op'[q].kind = "ble" /\ op'[q].goal = "RUNNING" => DOMAIN op'[q].seen \subseteq woken'
    BY <2>1 DEF Kept, Fresh, Outside
  <2>5. op'[q].kind = "release" =>
          \A t \in DOMAIN op'[q].seen : \A b \in active' \ op'[q].release : b[2] = t => TwoNamed(t)'
    BY <2>1, TwoNamedLasts DEF Kept, Fresh, Outside
  <2> QED
    BY <2>2, <2>3, <2>4, <2>5 DEF Fresh
<1> QED
  BY <1>2, <1>3 DEF OpInv

LEMMA FreeOp == ASSUME NEW q \in Op, op'[q] = Free PROVE OpInv(q)'
  BY FreeIsOp DEF OpInv, Fresh, FreshRegister, FoundOwn

LEMMA OtherTags ==
    ASSUME NEW tags, Outside(tags), NEW t \in TagId, t \notin tags, TagInv(t)
    PROVE  TagInv(t)'
<1>1. row'[t] = row[t] /\ (t \in Tags(active) <=> t \in Tags(active'))
  BY DEF Outside, Tags
<1>2. (t \in woken => t \in woken') /\ (Excused(t) => Excused(t)') /\ (TwoNamed(t) => TwoNamed(t)')
      /\ (BoundBySeed(t) => BoundBySeed(t)')
  BY TwoNamedLasts DEF Outside, Excused, BoundBySeed
<1> QED
  BY <1>1, <1>2 DEF TagInv, Outside, Exists

LEMMA SamePairs ==
    ASSUME NEW tags, Outside(tags), NEW t \in TagId, NEW u \in TagId, PairInv(t, u),
           SameNumberAndName(t), SameNumberAndName(u)
    PROVE  PairInv(t, u)'
  BY DEF Outside, PairInv, SameNumberAndName

LEMMA QuietStep ==
    ASSUME PropInv, NEW tags, Outside(tags), \A q \in Op : OpInv(q)',
           \A t \in TagId : t \in tags => TagInv(t)', \A t \in TagId : SameNumberAndName(t)
    PROVE  PropInv'
<1>1. \A t \in TagId : TagInv(t)'
  BY OtherTags DEF PropInv
<1>2. \A t, u \in TagId : PairInv(t, u)'
  BY SamePairs DEF PropInv
<1> QED
  BY <1>1, <1>2 DEF PropInv

LEMMA StartStep ==
    ASSUME TypeInv, PropInv, NEW o \in Op, NEW what \in OpType, Start(o, what), OpInv(o)',
           UNCHANGED <<row, active, serverBound, seeded, given, overlapped>>,
           named \subseteq named', woken \subseteq woken'
    PROVE  PropInv'
<1>1. Outside({}) /\ \A t \in TagId : SameNumberAndName(t)
  BY DEF Outside, SameNumberAndName
<1>2. \A q \in Op \ {o} : Kept(q, {}, FALSE)
  BY StartEffect DEF TypeInv
<1>3. \A q \in Op : OpInv(q)'
  BY <1>1, <1>2, OtherOps DEF PropInv
<1> QED
  BY <1>1, <1>3, QuietStep

LEMMA FinishStep ==
    ASSUME TypeInv, PropInv, NEW o \in Op, NEW tags, Finish(o, tags, FALSE), Outside(tags),
           \A t \in TagId : t \in tags => TagInv(t)', \A t \in TagId : SameNumberAndName(t)
    PROVE  PropInv'
<1>1. op'[o] = Free /\ \A q \in Op \ {o} : Kept(q, tags, FALSE)
  BY FinishEffect DEF TypeInv
<1>2. \A q \in Op : OpInv(q)'
  BY <1>1, OtherOps, FreeOp DEF PropInv
<1> QED
  BY <1>2, QuietStep

LEMMA AtOnceStep ==
    ASSUME TypeInv, PropInv, NEW tags, NEW numbering \in BOOLEAN, AtOnce(tags, numbering), Outside(tags),
           \A t \in TagId : t \in tags => TagInv(t)', \A t \in TagId : SameNumberAndName(t)
    PROVE  PropInv'
<1>1. \A q \in Op : Kept(q, tags, numbering)
  BY AtOnceEffect DEF TypeInv
<1>2. \A q \in Op : OpInv(q)'
  BY <1>1, OtherOps DEF PropInv
<1> QED
  BY <1>2, QuietStep

(* A status that an operation writes late is excused; one that it writes   *)
(* in time is the one it wants.                                            *)
LEMMA StatusWritten ==
    ASSUME TypeInv, PropInv, NEW o \in Op, NEW goal \in TagStatus, SetStatus(o, goal)
    PROVE  /\ \A t \in TagId : SameNumberAndName(t) /\ row'[t].uid = row[t].uid /\ row'[t].addr = row[t].addr
           /\ \A t \in TagId \ DOMAIN op[o].seen : row'[t] = row[t]
           /\ ~op[o].late => \A t \in DOMAIN op[o].seen : row'[t].status = goal
           /\ \A t \in DOMAIN op[o].seen : Exists(t)'
<1>1. row \in [TagId -> Row] /\ DOMAIN op[o].seen \subseteq TagId /\ \A t \in DOMAIN op[o].seen : Exists(t)
  BY Sound DEF TypeInv, TypeOK, OpSound
<1>2. ASSUME NEW t \in DOMAIN op[o].seen
      PROVE  row'[t] = [row[t] EXCEPT !.status = Written(op[o].seen[t].status, row[t].status, goal)]
  BY <1>1 DEF SetStatus
<1>3. ASSUME NEW t \in TagId \ DOMAIN op[o].seen PROVE row'[t] = row[t]
  BY DEF SetStatus
<1>4. ASSUME NEW t \in DOMAIN op[o].seen
      PROVE  /\ SameNumberAndName(t) /\ row'[t].uid = row[t].uid /\ row'[t].addr = row[t].addr
             /\ row'[t].status = Written(op[o].seen[t].status, row[t].status, goal)
  <2> DEFINE w == Written(op[o].seen[t].status, row[t].status, goal)
  <2>1. row[t] \in Row /\ row'[t] = [row[t] EXCEPT !.status = w]
    BY <1>1, <1>2
  <2> HIDE DEF w
  <2>2. SameNumberAndName(t) /\ row'[t].uid = row[t].uid /\ row'[t].addr = row[t].addr /\ row'[t].status = w
    BY <2>1 DEF SameNumberAndName, Row
  <2> QED
    BY <2>2 DEF w
<1>5. ~op[o].late => \A t \in DOMAIN op[o].seen : op[o].seen[t] = row[t]
  BY DEF PropInv, OpInv, Fresh
<1>6. \A t \in DOMAIN op[o].seen : Exists(t)'
  BY <1>1, SetStatusTypes
<1>7. ~op[o].late => \A t \in DOMAIN op[o].seen : row'[t].status = goal
  BY <1>4, <1>5 DEF Written
<1>8. \A t \in TagId : SameNumberAndName(t) /\ row'[t].uid = row[t].uid /\ row'[t].addr = row[t].addr
  BY <1>3, <1>4 DEF SameNumberAndName
<1> QED
  BY <1>3, <1>6, <1>7, <1>8

(* What TagInv says besides the status is kept when no name changes.       *)
LEMMA StatusOnly ==
    ASSUME NEW t \in TagId, TagInv(t), SameNumberAndName(t), row'[t].uid = row[t].uid, row'[t].addr = row[t].addr,
           Exists(t)', given \subseteq given', overlapped \subseteq overlapped',
           row'[t].status = "RUNNING" => t \in Tags(active') \union woken' \union overlapped',
           row'[t].status = "IDLE" /\ t \in Tags(active') =>
              t \in serverBound' \union overlapped' \/ BoundBySeed(t)' \/ TwoNamed(t)'
    PROVE  TagInv(t)'
  BY DEF TagInv, SameNumberAndName, Excused

LEMMA PairSym == \A t, u \in TagId : PairInv(t, u)' => PairInv(u, t)'
  BY DEF PairInv

(* A step that may give one row a number and a name                        *)
LEMMA NumberingStep ==
    ASSUME TypeInv, PropInv, NEW o \in Op, NEW t \in TagId, Finish(o, {t}, TRUE), Outside({t}),
           TagInv(t)', \A u \in TagId : PairInv(t, u)'
    PROVE  PropInv'
<1>1. op'[o] = Free /\ \A q \in Op \ {o} : Kept(q, {t}, TRUE)
  BY FinishEffect DEF TypeInv
<1>2. \A q \in Op : OpInv(q)'
  BY <1>1, OtherOps, FreeOp DEF PropInv
<1>3. \A u \in TagId : TagInv(u)'
  BY OtherTags DEF PropInv
<1>4. ASSUME NEW u \in TagId, NEW v \in TagId PROVE PairInv(u, v)'
  <2>1. CASE u = t \/ v = t
    BY <2>1, PairSym
  <2>2. CASE u # t /\ v # t
    BY <2>2, SamePairs DEF PropInv, Outside, SameNumberAndName
  <2> QED
    BY <2>1, <2>2
<1> QED
  BY <1>2, <1>3, <1>4 DEF PropInv

LEMMA PropCommitNew ==
    ASSUME TypeInv, PropInv, NEW o \in Op, CommitNew(o)
    PROVE  PropInv'
<1> PICK d, t : d = op[o].device /\ t = op[o].no
  OBVIOUS
<1>1. /\ op[o].kind = "register" /\ op[o].seen = <<>>
      /\ UNCHANGED <<active, ever, token, done, woken, named, serverBound, seeded, given>>
  BY DEF CommitNew
<1>2. t \in TagId /\ d \in Device
  BY <1>1 DEF TypeInv, KindsSound, KindSound
<1>3. OpTypes /\ row \in [TagId -> Row]
  BY DEF TypeInv, TypeOK
<1>4. CASE Exists(t)
  <2>1. Finish(o, {}, FALSE) /\ row' = row
    BY <1>4 DEF CommitNew
  <2>2. Outside({}) /\ \A u \in TagId : SameNumberAndName(u)
    BY <1>1, <1>3, <2>1, FinishEffect DEF Outside, SameNumberAndName
  <2> QED
    BY <2>1, <2>2, FinishStep
<1>5. CASE ~Exists(t)
  <2>1. /\ row' = [row EXCEPT ![t] = [status |-> "ONLINE", no |-> t, uid |-> d, name |-> d, addr |-> d]]
        /\ Finish(o, {t}, TRUE)
    BY <1>5 DEF CommitNew
  <2>2. overlapped \subseteq overlapped' /\ (op[o].late => t \in overlapped')
    BY ZenonT(40), <1>3, <2>1, FinishEffect
  <2>3. /\ row'[t].status = "ONLINE" /\ row'[t].no = t /\ row'[t].uid = d /\ row'[t].name = d /\ row'[t].addr = d
        /\ \A u \in TagId \ {t} : row'[u] = row[u]
    BY <1>2, <1>3, <2>1
  <2>4. Outside({t})
    BY <1>1, <2>2, <2>3 DEF Outside
  <2>5. TagInv(t)'
    BY <2>3 DEF TagInv, Exists
  <2>6. ~op[o].late => \A u \in TagId : row[u].no < t /\ row[u].name # d
    BY <1>1, FreeIsOp DEF PropInv, OpInv, Fresh, FreshRegister, Free
  <2>7. \A u \in TagId : row[u].no \in Nat
    BY <1>3 DEF Row
  <2>8. ASSUME NEW u \in TagId PROVE PairInv(t, u)'
    <3>1. CASE op[o].late
      BY <2>2, <3>1 DEF PairInv
    <3>2. CASE ~op[o].late
      <4>1. t # u => row'[u].no # t /\ row'[u].name # d
        BY <1>2, <2>3, <2>6, <2>7, <3>2 DEF TagId
      <4> QED
        BY <2>3, <4>1 DEF PairInv
    <3> QED
      BY <3>1, <3>2
  <2> QED
    BY <1>2, <2>1, <2>4, <2>5, <2>8, NumberingStep
<1> QED
  BY <1>4, <1>5

LEMMA PropCommitKnown ==
    ASSUME TypeInv, PropInv, NEW o \in Op, CommitKnown(o)
    PROVE  PropInv'
<1> DEFINE d == op[o].device
<1>1. /\ op[o].kind = "register"
      /\ UNCHANGED <<active, ever, token, done, woken, named, serverBound, seeded, given>>
  BY DEF CommitKnown
<1>2. d \in Device /\ d # NoDevice /\ op[o].no \in TagId
  BY <1>1, ConstantsOK DEF TypeInv, KindsSound, KindSound
<1>3. OpTypes /\ row \in [TagId -> Row] /\ op[o].seen \in Seen
  BY DEF TypeInv, TypeOK, OpTypes, OpType
<1>4. PICK t \in DOMAIN op[o].seen :
        LET was == op[o].seen[t] IN
          /\ row' = [row EXCEPT ![t] =
                [status |-> Written(was.status, row[t].status, "ONLINE"),
                 no     |-> IF was.no = 0 THEN op[o].no ELSE row[t].no,
                 uid    |-> Written(was.uid, row[t].uid, Fill(was.uid, d)),
                 name   |-> Written(was.name, row[t].name, KeepName(was.name, d)),
                 addr   |-> Written(was.addr, row[t].addr, d)]]
          /\ Finish(o, {t}, TRUE)
  BY DEF CommitKnown
<1> DEFINE was == op[o].seen[t]
<1>5. t \in TagId /\ Exists(t)
  BY <1>4, Sound DEF OpSound
<1>6. /\ row'[t].status = Written(was.status, row[t].status, "ONLINE")
      /\ row'[t].no     = IF was.no = 0 THEN op[o].no ELSE row[t].no
      /\ row'[t].uid    = Written(was.uid, row[t].uid, Fill(was.uid, d))
      /\ row'[t].name   = Written(was.name, row[t].name, KeepName(was.name, d))
      /\ row'[t].addr   = Written(was.addr, row[t].addr, d)
      /\ \A u \in TagId \ {t} : row'[u] = row[u]
  BY <1>3, <1>4, <1>5
<1>7. overlapped \subseteq overlapped' /\ (op[o].late => t \in overlapped')
  BY <1>3, <1>4, FinishEffect
<1>8. Outside({t})
  BY <1>1, <1>6, <1>7 DEF Outside
<1>9. Exists(t)'
  BY <1>5, <1>6 DEF Exists, Written
<1>10. CASE op[o].late
  <2>1. TagInv(t)'
    BY <1>7, <1>9, <1>10 DEF TagInv, Excused
  <2>2. \A u \in TagId : PairInv(t, u)'
    BY <1>7, <1>10 DEF PairInv
  <2> QED
    BY <1>4, <1>5, <1>8, <2>1, <2>2, NumberingStep
<1>11. CASE ~op[o].late
  <2>1. was = row[t] /\ FreshRegister(o)
    BY <1>4, <1>11 DEF PropInv, OpInv, Fresh
  <2>2. row'[t].status = "ONLINE" /\ row'[t].addr = d
    BY <1>6, <2>1 DEF Written
  <2>3. row'[t].uid = Fill(row[t].uid, d) /\ row'[t].name = Fill(row[t].name, d)
    BY <1>6, <2>1 DEF Written, Fill, KeepName
  <2>4. d \in {row[t].name, row[t].uid} \/ Legacy[d] = t
    BY <1>1, <1>4, <2>1 DEF PropInv, OpInv, FoundOwn
  <2>5. row[t].uid = row[t].name \/ Excused(t)
    BY <1>5 DEF PropInv, TagInv
  <2>6. Excused(t) => Excused(t)'
    BY <1>1, <1>7 DEF Excused
  <2>7. row'[t].uid = row'[t].name \/ Excused(t)'
    BY <2>3, <2>5, <2>6
  <2>8. row'[t].addr # row'[t].name => Excused(t)' \/ \E e \in Device \ {row'[t].name} : Legacy[e] = t
    <3>1. SUFFICES ASSUME d # row'[t].name PROVE Excused(t)' \/ \E e \in Device \ {row'[t].name} : Legacy[e] = t
      BY <2>2
    <3>2. d # row[t].name
      BY <1>2, <2>3, <3>1 DEF Fill
    <3> QED
      BY <1>2, <2>4, <2>5, <2>6, <3>1, <3>2
  <2>9. TagInv(t)'
    BY <1>9, <2>2, <2>7, <2>8 DEF TagInv
  <2>10. \A u \in TagId : row[u].no \in Nat
    BY <1>3 DEF Row
  <2>11. ASSUME NEW u \in TagId PROVE PairInv(t, u)'
    <3>1. SUFFICES ASSUME t # u PROVE PairInv(t, u)'
      BY DEF PairInv
    <3>2. row'[u] = row[u] /\ PairInv(t, u)
      BY <1>5, <1>6, <3>1 DEF PropInv
    <3>3. row'[t].no # 0 /\ row'[t].no = row'[u].no => {t, u} \cap overlapped' # {}
      <4>1. CASE row[t].no = 0
        <5>1. row'[t].no = op[o].no /\ row[u].no < op[o].no
          BY <1>1, <1>6, <2>1, <4>1 DEF FreshRegister
        <5> QED
          BY <1>2, <2>10, <3>2, <5>1 DEF TagId
      <4>2. CASE row[t].no # 0
        BY <1>6, <1>7, <2>1, <3>1, <3>2, <4>2 DEF PairInv
      <4> QED
        BY <4>1, <4>2
    <3>4. row'[t].name = row'[u].name => {t, u} \cap (overlapped' \union given' \union {Legacy[row'[t].name]}) # {}
      <4>1. CASE row[t].name = NoDevice
        <5>1. row'[t].name = d
          BY <2>3, <4>1 DEF Fill
        <5> QED
          BY <1>2, <2>4, <2>5, <2>6, <4>1, <5>1 DEF Excused
      <4>2. CASE row[t].name # NoDevice
        <5>1. row'[t].name = row[t].name
          BY <2>3, <4>2 DEF Fill
        <5> QED
          BY <1>1, <1>7, <3>1, <3>2, <4>2, <5>1 DEF PairInv
      <4> QED
        BY <4>1, <4>2
    <3> QED
      BY <3>3, <3>4 DEF PairInv
  <2> QED
    BY <1>4, <1>5, <1>8, <2>9, <2>11, NumberingStep
<1> QED
  BY <1>10, <1>11

(* A pickup of p begins to release some bindings of p, all ACTIVE ones     *)
(* among them, and has read the rows of their tags.                        *)
PropRelease(o, p, gone, tags) ==
    /\ Start(o, [Free EXCEPT !.kind = "release", !.release = gone, !.seen = Read(tags)])
    /\ UNCHANGED <<row, active, ever, token, woken, named, serverBound, seeded, given, overlapped>>
    /\ gone \subseteq ever /\ BindingsOf(p) \subseteq gone
    /\ tags \in SUBSET TagId /\ \A t \in tags : \E b \in gone : b[2] = t /\ b[1] = p

LEMMA PropPickup ==
    ASSUME TypeInv, PropInv, NEW o \in Op, NEW p, NEW gone, NEW tags, PropRelease(o, p, gone, tags)
    PROVE  PropInv'
<1> DEFINE what == [Free EXCEPT !.kind = "release", !.release = gone, !.seen = Read(tags)]
<1>1. /\ Start(o, what) /\ UNCHANGED <<row, active, ever, token, woken, named, serverBound, seeded, given, overlapped>>
      /\ gone \subseteq ever /\ BindingsOf(p) \subseteq gone
      /\ tags \in SUBSET TagId /\ \A t \in tags : \E b \in gone : b[2] = t /\ b[1] = p
  BY DEF PropRelease
<1>2. OpTypes /\ row \in [TagId -> Row] /\ ever \subseteq Parcel \X TagId /\ active \subseteq ever
  BY DEF TypeInv, TypeOK
<1>3. Read(tags) \in Seen /\ DOMAIN Read(tags) = tags /\ \A t \in tags : Read(tags)[t] = row[t]
  BY <1>1, <1>2, ReadRows
<1>4. what \in OpType /\ what.seen = Read(tags) /\ what.kind = "release" /\ what.release = gone
  BY <1>1, <1>2, <1>3, FreeIsOp DEF Free, OpType, Kind
<1>5. op'[o] = what
  BY <1>1, <1>2, <1>4, StartEffect
<1>6. ASSUME NEW t \in tags, NEW b \in active \ gone, b[2] = t PROVE TwoNamed(t)
  <2>1. PICK c \in gone : c[2] = t /\ c[1] = p
    BY <1>1
  <2>2. b[1] # p
    BY <1>1, <1>6 DEF BindingsOf
  <2>3. b \in named /\ c \in named
    BY <1>1, <1>2, <2>1 DEF TypeInv, BoundTagsExist
  <2> QED
    BY <1>6, <2>1, <2>2, <2>3 DEF TwoNamed
<1>7. OpInv(o)'
  <2>1. \A t : TwoNamed(t) => TwoNamed(t)'
    BY <1>1, TwoNamedLasts
  <2> HIDE DEF what
  <2> QED
    BY <1>1, <1>3, <1>4, <1>5, <1>6, <2>1 DEF OpInv, Fresh, FreshRegister, FoundOwn
<1> HIDE DEF what
<1> QED
  BY <1>1, <1>4, <1>7, StartStep

LEMMA PropStep == TypeInv /\ PropInv /\ [Next]_vars => PropInv'
<1> SUFFICES ASSUME TypeInv, PropInv, [Next]_vars PROVE PropInv'
  OBVIOUS
<1>0. row \in [TagId -> Row] /\ ever \subseteq Parcel \X TagId /\ active \subseteq ever /\ OpTypes
  BY DEF TypeInv, TypeOK
<1>00. NoDevice \in MaybeDevice /\ Device \subseteq MaybeDevice /\ 0 \in 0..MaxTag /\ TagId \subseteq 0..MaxTag
       /\ NoDevice \notin Device
  BY ConstantsOK DEF MaybeDevice, TagId
<1>1. CASE IssueToken \/ EndToken
  BY <1>1 DEF IssueToken, EndToken, Session, PropInv, OpInv, Fresh, FreshRegister, FoundOwn, TagInv, PairInv,
     Excused, TwoNamed, BoundBySeed, Exists
<1>2. ASSUME NEW o \in Op, NEW d \in Device, RegisterFromBle(o, d) PROVE PropInv'
  <2>1. PICK tags \in (IF Known(d) = {} THEN {{}} ELSE {{t} : t \in Known(d)}) :
          Start(o, [Free EXCEPT !.kind = "register", !.seen = Read(tags), !.device = d, !.no = NextLocalNo])
    BY <1>2 DEF RegisterFromBle
  <2> DEFINE what == [Free EXCEPT !.kind = "register", !.seen = Read(tags), !.device = d, !.no = NextLocalNo]
  <2>2. tags \in SUBSET TagId /\ tags \subseteq Known(d) /\ (tags = {} => Known(d) = {})
    BY <2>1 DEF Known
  <2>3. NextLocalNo \in TagId /\ \A t \in TagId : row[t].no < NextLocalNo
    BY <1>0, <1>2, NextNumber DEF RegisterFromBle
  <2>4. Read(tags) \in Seen /\ DOMAIN Read(tags) = tags /\ \A t \in tags : Read(tags)[t] = row[t]
    BY <1>0, <2>2, ReadRows
  <2>5. /\ what \in OpType /\ what.seen = Read(tags) /\ what.kind = "register"
        /\ what.no = NextLocalNo /\ what.device = d
    BY <1>00, <2>3, <2>4, FreeIsOp DEF Free, OpType, Kind
  <2>6. op'[o] = what /\ UNCHANGED <<row, active, woken, named, serverBound, seeded, given, overlapped>>
    BY <1>0, <1>2, <2>1, <2>5, StartEffect DEF RegisterFromBle
  <2>7. \A t \in TagId : tags = {} => row[t].name # d
    <3>1. ASSUME NEW t \in TagId, row[t].name = d PROVE t \in Known(d)
      <4>1. Exists(t)
        BY <1>00, <3>1 DEF PropInv, TagInv, NoRow
      <4> QED
        BY <3>1, <4>1 DEF Known
    <3> QED
      BY <2>2, <3>1
  <2>8. \A t \in tags : d \in {row[t].name, row[t].uid} \/ Legacy[d] = t
    BY <2>2 DEF Known
  <2>9. OpInv(o)'
    <3> HIDE DEF what
    <3> QED
      BY <2>3, <2>4, <2>5, <2>6, <2>7, <2>8 DEF OpInv, Fresh, FreshRegister, FoundOwn
  <2> QED
    BY <2>1, <2>5, <2>6, <2>9, StartStep
<1>3. ASSUME NEW o \in Op, NEW t \in TagId,
             ConnectTag(o, t) \/ WakeTag(o, t) \/ StopTag(o, t) \/ ReadTagStatus(o, t)
      PROVE  PropInv'
  <2>1. PICK goal \in {"ONLINE", "RUNNING"} :
           SendCommand(o, t, goal) /\ woken \subseteq woken' /\ (goal = "RUNNING" => t \in woken')
    BY <1>3 DEF ConnectTag, WakeTag, StopTag, ReadTagStatus
  <2> DEFINE what == [Free EXCEPT !.kind = "ble", !.seen = Read({t}), !.goal = goal]
  <2>2. Read({t}) \in Seen /\ DOMAIN Read({t}) = {t} /\ Read({t})[t] = row[t]
    BY <1>0, ReadRows
  <2>3. what \in OpType /\ what.seen = Read({t}) /\ what.kind = "ble" /\ what.goal = goal
    BY <2>2, FreeIsOp DEF Free, OpType, Kind, TagStatus
  <2>4. Start(o, what) /\ UNCHANGED <<row, active, named, serverBound, seeded, given, overlapped>>
    BY <2>1 DEF SendCommand
  <2>5. op'[o] = what
    BY <1>0, <2>3, <2>4, StartEffect
  <2>6. OpInv(o)'
    <3> HIDE DEF what
    <3> QED
      BY <2>1, <2>2, <2>3, <2>4, <2>5 DEF OpInv, Fresh, FreshRegister, FoundOwn
  <2> QED
    BY <2>1, <2>3, <2>4, <2>6, StartStep
<1>4. ASSUME NEW o \in Op, ApplyBleResult(o) PROVE PropInv'
  <2> DEFINE tags == DOMAIN op[o].seen
  <2>1. PICK status \in Outcome(op[o].goal) : SetStatus(o, status)
    BY <1>4 DEF ApplyBleResult
  <2>2. /\ op[o].kind = "ble" /\ Finish(o, tags, FALSE)
        /\ UNCHANGED <<active, ever, token, done, woken, named, serverBound, seeded, given>>
    BY <1>4 DEF ApplyBleResult
  <2>3. status \in TagStatus /\ status # "IDLE" /\ (status = "RUNNING" => op[o].goal = "RUNNING")
    BY <2>1, <2>2 DEF Outcome, TagStatus, TypeInv, KindsSound, KindSound
  <2>4. overlapped \subseteq overlapped' /\ (op[o].late => tags \subseteq overlapped')
    BY ZenonT(40), <1>0, <2>2, FinishEffect
  <2>5. Outside(tags)
    BY <2>1, <2>2, <2>3, <2>4, StatusWritten DEF Outside
  <2>6. ASSUME NEW t \in TagId, t \in tags PROVE TagInv(t)'
    <3>1. op[o].late \/ (row'[t].status = status /\ (status = "RUNNING" => t \in woken))
      BY <2>1, <2>2, <2>3, <2>6, StatusWritten DEF PropInv, OpInv, Fresh
    <3>2. SameNumberAndName(t) /\ row'[t].uid = row[t].uid /\ row'[t].addr = row[t].addr /\ Exists(t)'
      BY <2>1, <2>3, <2>6, StatusWritten
    <3> QED
      BY <2>2, <2>3, <2>4, <2>6, <3>1, <3>2, StatusOnly DEF PropInv
  <2> QED
    BY <2>1, <2>2, <2>3, <2>5, <2>6, FinishStep, StatusWritten
<1>5. ASSUME NEW o \in Op, CommitNew(o) PROVE PropInv'
  BY <1>5, PropCommitNew
<1>6. ASSUME NEW o \in Op, CommitKnown(o) PROVE PropInv'
  BY <1>6, PropCommitKnown
<1>7. ASSUME NEW t \in TagId, NEW u \in MaybeDevice, RegisterTag(t, u) PROVE PropInv'
  <2>1. /\ AtOnce({t}, TRUE) /\ UNCHANGED <<active, ever, token, woken, named, serverBound, seeded, overlapped>>
        /\ row' = [row EXCEPT ![t] = IF Exists(t) THEN [row[t] EXCEPT !.uid = Given(row[t].uid, u)]
                                     ELSE [NoRow EXCEPT !.status = "IDLE", !.uid = u]]
        /\ given \subseteq given' /\ (u # NoDevice => t \in given')
    BY <1>7 DEF RegisterTag
  <2>2. row[t] \in Row /\ \A v \in TagId \ {t} : row'[v] = row[v]
    BY <1>0, <2>1
  <2>3. Outside({t})
    BY <2>1, <2>2 DEF Outside
  <2>4. /\ row'[t].no = row[t].no /\ row'[t].name = row[t].name /\ row'[t].addr = row[t].addr
        /\ row'[t].uid = IF Exists(t) THEN Given(row[t].uid, u) ELSE u
        /\ row'[t].status = IF Exists(t) THEN row[t].status ELSE "IDLE"
    <3>1. CASE Exists(t)
      <4> DEFINE g == Given(row[t].uid, u)
      <4>1. row'[t] = [row[t] EXCEPT !.uid = g]
        BY <1>0, <2>1, <3>1
      <4> HIDE DEF g
      <4>2. row'[t].no = row[t].no /\ row'[t].name = row[t].name /\ row'[t].addr = row[t].addr
            /\ row'[t].uid = g /\ row'[t].status = row[t].status
        BY <2>2, <4>1 DEF Row
      <4> QED
        BY <3>1, <4>2 DEF g
    <3>2. CASE ~Exists(t)
      <4>1. row[t] = NoRow
        BY <3>2 DEF PropInv, TagInv
      <4>2. row'[t] = [NoRow EXCEPT !.status = "IDLE", !.uid = u]
        BY <1>0, <2>1, <3>2
      <4> QED
        BY <3>2, <4>1, <4>2 DEF NoRow
    <3> QED
      BY <3>1, <3>2
  <2>5. TagInv(t)'
    <3>1. TagInv(t) /\ (Excused(t) => Excused(t)') /\ (TwoNamed(t) => TwoNamed(t)') /\ Exists(t)'
      BY <2>1, <2>4, TwoNamedLasts DEF PropInv, Excused, Exists
    <3>2. row'[t].uid = row'[t].name \/ Excused(t)'
      BY <2>1, <2>4, <3>1 DEF TagInv, Given, Excused, NoRow
    <3>3. row'[t].name # NoDevice /\ row'[t].addr # row'[t].name =>
             Excused(t)' \/ \E e \in Device \ {row'[t].name} : Legacy[e] = t
      BY <2>4, <3>1 DEF TagInv
    <3>4. row'[t].status = "RUNNING" => t \in Tags(active) \union woken \union overlapped
      BY <2>4, <3>1 DEF TagInv
    <3>5. row'[t].status = "IDLE" /\ t \in Tags(active) =>
              t \in serverBound \union overlapped \/ BoundBySeed(t)' \/ TwoNamed(t)'
      <4>1. t \in Tags(active) => Exists(t)
        BY <1>0 DEF Tags, TypeInv, BoundTagsExist
      <4> QED
        BY <2>1, <2>4, <3>1, <4>1 DEF TagInv, BoundBySeed
    <3> QED
      BY <2>1, <3>1, <3>2, <3>3, <3>4, <3>5 DEF TagInv
  <2> QED
    BY <2>1, <2>2, <2>3, <2>4, <2>5, AtOnceStep DEF SameNumberAndName
<1>8. ASSUME NEW d \in Device, ScanTags(d) PROVE PropInv'
  <2>1. PICK t \in TagId :
          /\ Exists(t) /\ d \in {row[t].name, row[t].uid, row[t].addr}
          /\ row' = [row EXCEPT ![t].addr = d]
          /\ AtOnce({t}, FALSE)
    BY <1>8 DEF ScanTags
  <2>2. UNCHANGED <<active, ever, token, woken, named, serverBound, seeded, given, overlapped>>
    BY <1>8 DEF ScanTags
  <2>3. /\ row'[t].no = row[t].no /\ row'[t].name = row[t].name /\ row'[t].addr = d
        /\ row'[t].uid = row[t].uid /\ row'[t].status = row[t].status
        /\ \A v \in TagId \ {t} : row'[v] = row[v]
    BY <1>0, <2>1 DEF Row
  <2>4. Outside({t})
    BY <2>2, <2>3 DEF Outside
  <2>5. TagInv(t)'
    <3>1. TagInv(t) /\ Exists(t)' /\ (Excused(t) <=> Excused(t)') /\ (TwoNamed(t) <=> TwoNamed(t)')
          /\ (BoundBySeed(t) <=> BoundBySeed(t)')
      BY <2>1, <2>2, <2>3 DEF PropInv, Excused, TwoNamed, BoundBySeed, Exists
    <3>2. row'[t].name # NoDevice /\ row'[t].addr # row'[t].name =>
             Excused(t)' \/ \E e \in Device \ {row'[t].name} : Legacy[e] = t
      BY <2>1, <2>3, <3>1 DEF TagInv
    <3> QED
      BY <2>2, <2>3, <3>1, <3>2 DEF TagInv
  <2> QED
    BY <2>1, <2>3, <2>4, <2>5, AtOnceStep DEF SameNumberAndName
<1>9. ASSUME NEW t \in TagId, ReportTagException(t) PROVE PropInv'
  <2>1. /\ row' = [row EXCEPT ![t].status = "ERROR"] /\ AtOnce({t}, FALSE)
        /\ UNCHANGED <<active, ever, token, woken, named, serverBound, seeded, given, overlapped>>
    BY <1>9 DEF ReportTagException
  <2>2. /\ row'[t].no = row[t].no /\ row'[t].name = row[t].name /\ row'[t].addr = row[t].addr
        /\ row'[t].uid = row[t].uid /\ row'[t].status = "ERROR"
        /\ \A v \in TagId \ {t} : row'[v] = row[v]
    BY <1>0, <2>1 DEF Row
  <2>3. Outside({t}) /\ Exists(t)'
    BY <2>1, <2>2 DEF Outside, Exists
  <2>4. TagInv(t)'
    BY <2>1, <2>2, <2>3, StatusOnly DEF PropInv, SameNumberAndName
  <2> QED
    BY <2>1, <2>2, <2>3, <2>4, AtOnceStep DEF SameNumberAndName
<1>10. ASSUME NEW o \in Op, NEW p \in Parcel, NEW t \in TagId, BindTag(o, p, t) PROVE PropInv'
  <2> DEFINE what == [Free EXCEPT !.kind = "bind", !.parcel = {p}, !.seen = [u \in {t} |-> row'[t]]]
  <2>1. /\ row' = [row EXCEPT ![t] = IF Exists(t) THEN row[t] ELSE [NoRow EXCEPT !.status = "IDLE"]]
        /\ Start(o, what) /\ named \subseteq named'
        /\ UNCHANGED <<active, ever, token, woken, serverBound, seeded, given, overlapped>>
    BY <1>10 DEF BindTag
  <2>2. /\ SameNumberAndName(t) /\ row'[t].uid = row[t].uid /\ row'[t].addr = row[t].addr
        /\ row'[t].status = IF Exists(t) THEN row[t].status ELSE "IDLE"
        /\ \A v \in TagId \ {t} : row'[v] = row[v]
        /\ Exists(t) => row'[t] = row[t]
    <3>1. row'[t] = IF Exists(t) THEN row[t] ELSE [NoRow EXCEPT !.status = "IDLE"]
      BY <1>0, <2>1
    <3>2. Exists(t) \/ row[t] = NoRow
      BY DEF PropInv, TagInv
    <3> QED
      BY <1>0, <2>1, <3>1, <3>2 DEF NoRow, SameNumberAndName
  <2>3. row'[t] \in Row
    BY <1>0, <1>00, <2>1 DEF NoRow, Row, TagStatus
  <2>4. /\ what.kind = "bind" /\ what.seen = [u \in {t} |-> row'[t]] /\ what \in OpType
    <3>1. [u \in {t} |-> row'[t]] \in Seen
      <4>1. [u \in {t} |-> row'[t]] \in [{t} -> Row] /\ {t} \in SUBSET TagId
        BY <2>3
      <4> QED
        BY <4>1 DEF Seen
    <3> QED
      BY <3>1, FreeIsOp DEF Free, OpType, Kind
  <2>5. op'[o] = what /\ \A q \in Op \ {o} : op'[q] = op[q]
    BY <1>0, <2>1, <2>4, StartEffect
  <2>6. OpInv(o)'
    <3> HIDE DEF what
    <3> QED
      BY <2>4, <2>5 DEF OpInv, Fresh, FreshRegister, FoundOwn
  <2>7. PICK tags : tags = IF Exists(t) THEN {} ELSE {t}
    OBVIOUS
  <2>8. Outside(tags)
    BY <2>1, <2>2, <2>7 DEF Outside
  <2>9. \A q \in Op \ {o} : Kept(q, tags, FALSE)
    BY <2>5, <2>7, Sound DEF Kept, OpSound
  <2>10. \A q \in Op : OpInv(q)'
    BY <2>2, <2>6, <2>8, <2>9, OtherOps DEF PropInv, SameNumberAndName
  <2>11. ASSUME NEW u \in TagId, u \in tags PROVE TagInv(u)'
    <3>1. u = t /\ ~Exists(t) /\ row'[t].status = "IDLE" /\ Exists(t)'
      BY <2>2, <2>7, <2>11 DEF Exists
    <3>2. t \notin Tags(active')
      BY <1>0, <2>1, <3>1 DEF Tags, TypeInv, BoundTagsExist
    <3> QED
      BY <2>1, <2>2, <3>1, <3>2, StatusOnly DEF PropInv
  <2> QED
    BY <2>2, <2>8, <2>10, <2>11, QuietStep DEF SameNumberAndName
<1>11. ASSUME NEW o \in Op, CommitBind(o) PROVE PropInv'
  <2> DEFINE tags == DOMAIN op[o].seen
             new  == op[o].parcel \X tags
  <2>1. /\ op[o].kind = "bind" /\ active' = active \union new /\ SetStatus(o, "RUNNING") /\ Finish(o, tags, FALSE)
        /\ UNCHANGED <<token, done, woken, named, serverBound, seeded, given>>
    BY <1>11 DEF CommitBind
  <2>2. overlapped \subseteq overlapped' /\ (op[o].late => tags \subseteq overlapped')
    <3>1. Finish(o, tags, FALSE)
      BY <2>1
    <3> HIDE DEF tags
    <3> QED
      BY <1>0, <3>1, FinishEffect
  <2>3. op[o].parcel # {}
    BY <2>1 DEF TypeInv, KindsSound, KindSound
  <2>4. Outside(tags)
    BY <2>1, <2>2, StatusWritten DEF Outside, TagStatus
  <2>5. ASSUME NEW t \in TagId, t \in tags PROVE TagInv(t)'
    <3>1. SameNumberAndName(t) /\ row'[t].uid = row[t].uid /\ row'[t].addr = row[t].addr /\ Exists(t)'
          /\ (~op[o].late => row'[t].status = "RUNNING")
      BY <2>1, <2>5, StatusWritten DEF TagStatus
    <3>2. t \in Tags(active')
      <4>1. PICK p \in op[o].parcel : TRUE
        BY <2>3
      <4>2. <<p, t>> \in active' /\ <<p, t>>[2] = t
        BY <2>1, <2>5
      <4> QED
        BY <4>2 DEF Tags
    <3> QED
      BY <2>1, <2>2, <2>5, <3>1, <3>2, StatusOnly DEF PropInv
  <2> QED
    BY <2>1, <2>4, <2>5, FinishStep, StatusWritten DEF TagStatus
<1>12. ASSUME NEW o \in Op, NEW t \in TagId, ReleaseTag(o, t) PROVE PropInv'
  <2>1. PICK only \in {Parcel} \union {{p} : p \in Parcel} :
          /\ Start(o, [Free EXCEPT !.kind = "release", !.seen = Read({t}), !.release = active \cap (only \X {t})])
          /\ named' = IF only = Parcel THEN named ELSE named \union (only \X {t})
    BY <1>12 DEF ReleaseTag
  <2>2. UNCHANGED <<row, active, ever, token, woken, serverBound, seeded, given, overlapped>>
    BY <1>12 DEF ReleaseTag
  <2> DEFINE gone == active \cap (only \X {t})
             what == [Free EXCEPT !.kind = "release", !.seen = Read({t}), !.release = gone]
  <2>3. Read({t}) \in Seen /\ DOMAIN Read({t}) = {t} /\ Read({t})[t] = row[t]
    BY <1>0, ReadRows
  <2>4. what \in OpType /\ what.seen = Read({t}) /\ what.kind = "release" /\ what.release = gone
    BY <1>0, <2>3, FreeIsOp DEF Free, OpType, Kind
  <2>5. op'[o] = what
    BY <1>0, <2>1, <2>4, StartEffect
  <2>6. ASSUME NEW b \in active \ gone, b[2] = t PROVE TwoNamed(t)'
    <3>1. b \in Parcel \X TagId /\ b \in named /\ b = <<b[1], b[2]>> /\ b[1] \in Parcel
      BY <1>0 DEF TypeInv, BoundTagsExist
    <3>2. b[1] \notin only
      BY <2>6, <3>1
    <3>3. PICK p \in Parcel : only = {p} /\ b[1] # p
      BY <2>1, <3>1, <3>2
    <3>4. <<p, t>> \in named' /\ b \in named'
      BY <2>1, <3>1, <3>2, <3>3
    <3>5. <<p, t>>[1] = p /\ <<p, t>>[2] = t
      OBVIOUS
    <3> QED
      BY <2>6, <3>3, <3>4, <3>5 DEF TwoNamed
  <2>7. OpInv(o)'
    <3> HIDE DEF what, gone
    <3> QED
      BY <2>2, <2>3, <2>4, <2>5, <2>6 DEF OpInv, Fresh, FreshRegister, FoundOwn
  <2> QED
    BY <2>1, <2>2, <2>4, <2>7, StartStep
<1>13. ASSUME NEW o \in Op, NEW p \in Parcel, ConfirmPickup(o, p) PROVE PropInv'
  <2>1. PropRelease(o, p, BindingsOf(p), Tags(BindingsOf(p)))
    BY <1>0, <1>13, BindingType DEF ConfirmPickup, PropRelease, BindingsOf, Tags, TypeInv, BoundTagsExist
  <2> QED
    BY <2>1, PropPickup
<1>14. ASSUME NEW o \in Op, NEW p \in Parcel, ApplyPickup(o, p) PROVE PropInv'
  <2> DEFINE all == {b \in ever : b[1] = p}
             tags == {t \in Tags(all) : Exists(t)}
  <2>1. /\ Start(o, [Free EXCEPT !.kind = "release", !.release = all, !.seen = Read(tags)])
        /\ UNCHANGED <<row, active, ever, token, woken, named, serverBound, seeded, given, overlapped>>
    BY <1>14 DEF ApplyPickup
  <2>2. all \subseteq ever /\ BindingsOf(p) \subseteq all
    BY <1>0 DEF BindingsOf
  <2>3. tags \in SUBSET TagId /\ \A t \in tags : \E b \in all : b[2] = t /\ b[1] = p
    BY <1>0, BindingType DEF Tags
  <2>4. PropRelease(o, p, all, tags)
    <3> HIDE DEF all, tags
    <3> QED
      BY <2>1, <2>2, <2>3 DEF PropRelease
  <2> QED
    BY <2>4, PropPickup
<1>15. ASSUME NEW o \in Op, CommitRelease(o) PROVE PropInv'
  <2> DEFINE tags == DOMAIN op[o].seen
  <2>1. /\ op[o].kind = "release" /\ active' = active \ op[o].release /\ SetStatus(o, "IDLE")
        /\ woken' = woken \ tags /\ Finish(o, tags, FALSE)
        /\ UNCHANGED <<ever, token, done, named, serverBound, seeded, given>>
    BY <1>15 DEF CommitRelease
  <2>2. overlapped \subseteq overlapped' /\ (op[o].late => tags \subseteq overlapped')
    <3>1. Finish(o, tags, FALSE)
      BY <2>1
    <3> HIDE DEF tags
    <3> QED
      BY <1>0, <3>1, FinishEffect
  <2>3. \A b \in op[o].release : b[2] \in tags
    BY <2>1 DEF TypeInv, KindsSound, KindSound
  <2>4. Outside(tags)
    BY <2>1, <2>2, <2>3, StatusWritten DEF Outside, TagStatus
  <2>5. ASSUME NEW t \in TagId, t \in tags PROVE TagInv(t)'
    <3>1. SameNumberAndName(t) /\ row'[t].uid = row[t].uid /\ row'[t].addr = row[t].addr /\ Exists(t)'
          /\ (~op[o].late => row'[t].status = "IDLE")
      BY <2>1, <2>5, StatusWritten DEF TagStatus
    <3>2. ~op[o].late /\ t \in Tags(active') => TwoNamed(t)'
      <4>1. SUFFICES ASSUME ~op[o].late, NEW b \in active', b[2] = t PROVE TwoNamed(t)'
        BY DEF Tags
      <4>2. TwoNamed(t)
        BY <2>1, <2>5, <4>1 DEF PropInv, OpInv, Fresh
      <4> QED
        BY <2>1, <4>2, TwoNamedLasts
    <3> QED
      BY <2>1, <2>2, <2>5, <3>1, <3>2, StatusOnly DEF PropInv
  <2> QED
    BY <2>1, <2>4, <2>5, FinishStep, StatusWritten DEF TagStatus
<1>16. ASSUME NEW p \in Parcel, NEW t \in TagId, ApplyBinding(p, t) PROVE PropInv'
  <2>1. /\ row' = [row EXCEPT ![t] = IF Exists(t) THEN row[t] ELSE [NoRow EXCEPT !.status = "IDLE"]]
        /\ active' = active \union {<<p, t>>} /\ AtOnce({t}, TRUE) /\ t \in serverBound'
        /\ named \subseteq named' /\ serverBound \subseteq serverBound'
        /\ UNCHANGED <<token, woken, seeded, given, overlapped>>
    BY <1>16 DEF ApplyBinding
  <2>2. /\ SameNumberAndName(t) /\ row'[t].uid = row[t].uid /\ row'[t].addr = row[t].addr
        /\ row'[t].status = IF Exists(t) THEN row[t].status ELSE "IDLE"
        /\ \A v \in TagId \ {t} : row'[v] = row[v]
    <3>1. row'[t] = IF Exists(t) THEN row[t] ELSE [NoRow EXCEPT !.status = "IDLE"]
      BY <1>0, <2>1
    <3>2. Exists(t) \/ row[t] = NoRow
      BY DEF PropInv, TagInv
    <3> QED
      BY <1>0, <2>1, <3>1, <3>2 DEF NoRow, SameNumberAndName
  <2>3. Outside({t}) /\ Exists(t)'
    BY <2>1, <2>2 DEF Outside, Exists
  <2>4. row'[t].status = "RUNNING" => t \in Tags(active') \union woken' \union overlapped'
    BY <2>1, <2>2 DEF PropInv, TagInv, Tags
  <2>5. TagInv(t)'
    BY <2>1, <2>2, <2>3, <2>4, StatusOnly DEF PropInv
  <2> QED
    BY <2>1, <2>2, <2>3, <2>5, AtOnceStep DEF SameNumberAndName
<1>17. ASSUME NEW p \in Parcel, NEW t \in TagId, SeedDemoGate(p, t) PROVE PropInv'
  <2>1. PICK new \in {{}, {<<p, t>>}} :
        /\ row' = [row EXCEPT ![t] = IF Exists(t) THEN row[t] ELSE [NoRow EXCEPT !.status = "IDLE"]]
        /\ active' = active \union new /\ seeded' = seeded \union new /\ AtOnce({t}, TRUE)
        /\ named' = named \union {<<p, t>>} /\ UNCHANGED <<token, woken, serverBound, given, overlapped>>
    BY <1>17 DEF SeedDemoGate
  <2>2. /\ SameNumberAndName(t) /\ row'[t].uid = row[t].uid /\ row'[t].addr = row[t].addr
        /\ row'[t].status = IF Exists(t) THEN row[t].status ELSE "IDLE"
        /\ \A v \in TagId \ {t} : row'[v] = row[v]
    <3>1. row'[t] = IF Exists(t) THEN row[t] ELSE [NoRow EXCEPT !.status = "IDLE"]
      BY <1>0, <2>1
    <3>2. Exists(t) \/ row[t] = NoRow
      BY DEF PropInv, TagInv
    <3> QED
      BY <1>0, <2>1, <3>1, <3>2 DEF NoRow, SameNumberAndName
  <2>3. Outside({t}) /\ Exists(t)'
    BY <2>1, <2>2 DEF Outside, Exists
  <2>4. row'[t].status = "RUNNING" => t \in Tags(active') \union woken' \union overlapped'
    BY <2>1, <2>2 DEF PropInv, TagInv, Tags
  <2>5. row'[t].status = "IDLE" /\ t \in Tags(active') =>
           t \in serverBound' \union overlapped' \/ BoundBySeed(t)' \/ TwoNamed(t)'
    <3>1. CASE new = {}
      <4>1. t \in Tags(active) => Exists(t)
        BY <1>0 DEF Tags, TypeInv, BoundTagsExist
      <4>2. TagInv(t) /\ (TwoNamed(t) => TwoNamed(t)') /\ (BoundBySeed(t) => BoundBySeed(t)') /\ active' = active
        BY <2>1, <3>1, TwoNamedLasts DEF PropInv, BoundBySeed
      <4> QED
        BY <2>1, <2>2, <4>1, <4>2 DEF TagInv
    <3>2. CASE new = {<<p, t>>}
      <4>1. <<p, t>> \in active' /\ <<p, t>> \in seeded' /\ <<p, t>>[2] = t
        BY <2>1, <3>2
      <4> QED
        BY <4>1 DEF BoundBySeed
    <3> QED
      BY <2>1, <3>1, <3>2
  <2>6. TagInv(t)'
    BY <2>1, <2>2, <2>3, <2>4, <2>5, StatusOnly DEF PropInv
  <2> QED
    BY <2>1, <2>2, <2>3, <2>6, AtOnceStep DEF SameNumberAndName
<1>18. CASE UNCHANGED vars
  BY <1>18 DEF vars, PropInv, OpInv, Fresh, FreshRegister, FoundOwn, TagInv, PairInv,
     Excused, TwoNamed, BoundBySeed, Exists
<1> QED
  BY <1>1, <1>2, <1>3, <1>4, <1>5, <1>6, <1>7, <1>8, <1>9, <1>10, <1>11, <1>12, <1>13, <1>14,
     <1>15, <1>16, <1>17, <1>18 DEF Next

-----------------------------------------------------------------------------
LEMMA Invariant == Spec => [](TypeInv /\ PropInv)
  BY TypeInit, PropInit, TypeStep, PropStep, PTL DEF Spec

(* Every variable of the registry holds values of its kind; an operation   *)
(* under way has read only rows that exist.                                *)
THEOREM TypeCorrect == Spec => []TypeOK
<1>1. TypeInv => TypeOK
  BY DEF TypeInv
<1> QED
  BY <1>1, Invariant, PTL

(* Two tags get the same number only from registrations that overlapped.   *)
THEOREM NumbersAreTheirOwn == Spec => []NumbersDiffer
  BY Implied, Invariant, PTL

(* A device is registered for two tags only by operations that overlapped, *)
(* by an operator's hand, or because its old name is the id of one.        *)
THEOREM DevicesAreNamedOnce == Spec => []DeviceNamedOnce
  BY Implied, Invariant, PTL

(* A tag is reached at the address of its own device, but for a uid given  *)
(* by hand, overlapping operations or an old name.                         *)
THEOREM AddressesAreOwn == Spec => []AddressIsOwn
  BY Implied, Invariant, PTL

(* A tag on a parcel is not reported as free, but for a binding of the     *)
(* server or of seed-demo-gate, a tag named for two parcels, or            *)
(* overlapping operations.                                                 *)
THEOREM BoundTagsAreNotIdle == Spec => []BoundNotIdle
  BY Implied, Invariant, PTL

(* A tag reported as running is on a parcel or has been woken, unless      *)
(* operations on it overlapped.                                            *)
THEOREM RunningTagsHaveReason == Spec => []RunningHasReason
  BY Implied, Invariant, PTL
=============================================================================
