-------------------------------- MODULE Tags --------------------------------
(***************************************************************************)
(* The gateway's registry of clip tags and their bindings to parcels.  The *)
(* local API registers, finds and commands tags over Bluetooth, the        *)
(* command line registers, binds, releases and reports them, the run loop  *)
(* applies the server's bindings and pickups.  Each of these reads rows in *)
(* a session of its own, may wait (for a tag's answer, or for nothing but  *)
(* the scheduler) and writes then, without looking at the rows again; only *)
(* the columns are written whose value differs from the one that was read. *)
(***************************************************************************)
EXTENDS Naturals, FiniteSets

CONSTANTS
    Device,    \* tags that can be seen over Bluetooth
    NoDevice,  \* an empty column
    Legacy,    \* the tag id that a device with an old name has as its name, or 0
    Parcel,
    Op,        \* operations that may overlap
    MaxTag,    \* bound: tag ids, SPS-TAG-0001 to SPS-TAG-<MaxTag>
    MaxDone    \* bound: operations, commands, and sessions made or ended

ASSUME ConstantsOK ==
    /\ NoDevice \notin Device
    /\ MaxTag \in Nat \ {0} /\ MaxDone \in Nat
    /\ Legacy \in [Device -> 0..MaxTag]

TagId == 1..MaxTag

(* ERROR stands for LOW_BATTERY too.                                       *)
TagStatus   == {"IDLE", "RUNNING", "ONLINE", "ERROR"}
MaybeDevice == Device \union {NoDevice}
Row == [status : TagStatus \union {"NONE"}, no : 0..MaxTag, uid : MaybeDevice,
        name : MaybeDevice, addr : MaybeDevice]

NoRow == [status |-> "NONE", no |-> 0, uid |-> NoDevice, name |-> NoDevice, addr |-> NoDevice]

(* An operation under way.  seen: the rows it has read and will write;     *)
(* release: the bindings it will release; device, no: what a registration  *)
(* is for and the local number it has worked out.                          *)
Free == [kind |-> "none", seen |-> <<>>, goal |-> "NONE", parcel |-> {}, release |-> {},
         device |-> NoDevice, no |-> 0, late |-> FALSE]

VARIABLES
    row,         \* local_tags by tag_id
    active,      \* ACTIVE bindings, <<parcel, tag id>>
    ever,        \* all bindings
    token,       \* the operator's local API session: "valid", or "none" that is
    op,          \* the operations under way
    done,        \* number of operations, commands and sessions so far
    woken,       \* history: tags an operator has woken since they were released
    named,       \* history: <<parcel, tag id>> of all commands
    serverBound, \* history: tags the server has bound
    seeded,      \* history: bindings made by seed-demo-gate
    given,       \* history: tags an operator has given a uid by hand
    overlapped   \* history: tags written on the ground of rows changed since

vars == <<row, active, ever, token, op, done, woken, named, serverBound, seeded, given, overlapped>>

Init ==
    /\ row = [t \in TagId |-> NoRow]
    /\ active = {} /\ ever = {}
    /\ token \in {"none", "valid"}
    /\ op = [o \in Op |-> Free]
    /\ done = 0
    /\ woken = {} /\ named = {} /\ serverBound = {} /\ seeded = {} /\ given = {} /\ overlapped = {}

Exists(t) == row[t].status # "NONE"

-----------------------------------------------------------------------------
(* Sessions *)

(* validate_local_session, for a gateway that is bound                     *)
Authorized == token = "valid"

(* A token is made and revoked by hand; it also expires, and is replaced.  *)
Session(old, new) ==
    /\ token = old /\ token' = new
    /\ done < MaxDone /\ done' = done + 1
    /\ UNCHANGED <<row, active, ever, op, woken, named, serverBound, seeded, given, overlapped>>

IssueToken == Session("none", "valid")
EndToken   == Session("valid", "none")

Start(o, what) ==
    /\ op[o] = Free
    /\ done < MaxDone
    /\ done' = done + 1
    /\ op' = [op EXCEPT ![o] = what]

Read(tags) == [t \in tags |-> row[t]]

(* The operations that have read something a commit changes.               *)
Touched(tags, numbering) ==
    [o \in Op |-> IF DOMAIN op[o].seen \cap tags # {} \/ (numbering /\ op[o].kind = "register")
                  THEN [op[o] EXCEPT !.late = TRUE] ELSE op[o]]

Finish(o, tags, numbering) ==
    /\ op' = [Touched(tags, numbering) EXCEPT ![o] = Free]
    /\ overlapped' = IF op[o].late THEN overlapped \union tags ELSE overlapped

AtOnce(tags, numbering) ==
    /\ done < MaxDone
    /\ done' = done + 1
    /\ op' = Touched(tags, numbering)

(* A column is written if the new value is not the one that was read.      *)
Written(was, now, new) == IF new = was THEN now ELSE new

SetStatus(o, goal) ==
    row' = [t \in TagId |-> IF t \in DOMAIN op[o].seen
                            THEN [row[t] EXCEPT !.status = Written(op[o].seen[t].status, @, goal)]
                            ELSE row[t]]

-----------------------------------------------------------------------------
(* Registration *)

(* Slip: the number after that of the last row, instead of the largest.    *)
NumberAfterLast ==
    LET rows == {t \in TagId : Exists(t)} IN
    IF rows = {} THEN 1 ELSE 1 + row[CHOOSE t \in rows : \A u \in rows : u <= t].no

NextLocalNo == 1 + CHOOSE n \in {row[t].no : t \in TagId} : \A t \in TagId : row[t].no <= n

(* Slips: by the address instead of the name; an old name is taken for a   *)
(* row that need not exist.                                                *)
KnownByAddress(d) == {t \in TagId : Exists(t) /\ (row[t].addr = d \/ Legacy[d] = t)}
KnownByOldName(d) == {t \in TagId : d \in {row[t].name, row[t].uid} \/ Legacy[d] = t}

Known(d) == {t \in TagId : Exists(t) /\ (d \in {row[t].name, row[t].uid} \/ Legacy[d] = t)}

(* register_from_ble reads the row of the device, if it has one.           *)
RegisterFromBle(o, d) ==
    /\ Authorized
    /\ NextLocalNo <= MaxTag
    /\ \E tags \in IF Known(d) = {} THEN {{}} ELSE {{t} : t \in Known(d)} :
          Start(o, [Free EXCEPT !.kind = "register", !.seen = Read(tags), !.device = d,
                                !.no = NextLocalNo])
    /\ UNCHANGED <<row, active, ever, token, woken, named, serverBound, seeded, given, overlapped>>

(* Its commit: a row with the next number, whose id is made of the number  *)
(* and may be taken; or the columns of the row that were empty.            *)
CommitNew(o) ==
    LET d == op[o].device
        t == op[o].no IN
    /\ op[o].kind = "register" /\ op[o].seen = <<>>
    /\ IF Exists(t)
       THEN Finish(o, {}, FALSE) /\ UNCHANGED row
       ELSE /\ row' = [row EXCEPT ![t] = [status |-> "ONLINE", no |-> t, uid |-> d, name |-> d, addr |-> d]]
            /\ Finish(o, {t}, TRUE)
    /\ UNCHANGED <<active, ever, token, done, woken, named, serverBound, seeded, given>>

Fill(old, new) == IF old = NoDevice THEN new ELSE old

(* Slip: the device that registers gives the row its name.                 *)
Rename(old, new) == new

KeepName(old, new) == Fill(old, new)

CommitKnown(o) ==
    LET d == op[o].device IN
    /\ op[o].kind = "register" /\ op[o].seen # <<>>
    /\ \E t \in DOMAIN op[o].seen :
          LET was == op[o].seen[t] IN
          /\ row' = [row EXCEPT ![t] =
                [status |-> Written(was.status, @.status, "ONLINE"),
                 no     |-> IF was.no = 0 THEN op[o].no ELSE @.no,
                 uid    |-> Written(was.uid, @.uid, Fill(was.uid, d)),
                 name   |-> Written(was.name, @.name, KeepName(was.name, d)),
                 addr   |-> Written(was.addr, @.addr, d)]]
          /\ Finish(o, {t}, TRUE)
    /\ UNCHANGED <<active, ever, token, done, woken, named, serverBound, seeded, given>>

Given(old, u) == IF u = NoDevice THEN old ELSE u

(* register-tag: an operator gives a tag its id, and may say which device  *)
(* it is.                                                                  *)
RegisterTag(t, u) ==
    /\ row' = [row EXCEPT ![t] = IF Exists(t) THEN [@ EXCEPT !.uid = Given(row[t].uid, u)]
                                 ELSE [NoRow EXCEPT !.status = "IDLE", !.uid = u]]
    /\ given' = IF u = NoDevice THEN given ELSE given \union {t}
    /\ AtOnce({t}, TRUE)
    /\ UNCHANGED <<active, ever, token, woken, named, serverBound, seeded, overlapped>>

(* A scan finds device d, and its row, which may be known by its address.  *)
ScanTags(d) ==
    /\ Authorized
    /\ \E t \in TagId :
          /\ Exists(t) /\ d \in {row[t].name, row[t].uid, row[t].addr}
          /\ row' = [row EXCEPT ![t].addr = d]
          /\ AtOnce({t}, FALSE)
    /\ UNCHANGED <<active, ever, token, woken, named, serverBound, seeded, given, overlapped>>

-----------------------------------------------------------------------------
(* Commands over Bluetooth, from the local API *)

SendCommand(o, t, goal) ==
    /\ Authorized
    /\ Exists(t) /\ row[t].addr # NoDevice
    /\ Start(o, [Free EXCEPT !.kind = "ble", !.seen = Read({t}), !.goal = goal])
    /\ UNCHANGED <<row, active, ever, token, named, serverBound, seeded, given, overlapped>>

ConnectTag(o, t) == SendCommand(o, t, "ONLINE") /\ UNCHANGED woken

WakeTag(o, t) == SendCommand(o, t, "RUNNING") /\ woken' = woken \union {t}

StopTag(o, t) == SendCommand(o, t, "ONLINE") /\ UNCHANGED woken

ReadTagStatus(o, t) == SendCommand(o, t, "ONLINE") /\ UNCHANGED woken

(* The tag has answered, or could not be reached.                          *)
Outcome(goal) == {goal, "ERROR"}

ApplyBleResult(o) ==
    /\ op[o].kind = "ble"
    /\ \E status \in Outcome(op[o].goal) : SetStatus(o, status)
    /\ Finish(o, DOMAIN op[o].seen, FALSE)
    /\ UNCHANGED <<active, ever, token, done, woken, named, serverBound, seeded, given>>

(* report-tag-exception                                                    *)
ReportTagException(t) ==
    /\ Exists(t)
    /\ row' = [row EXCEPT ![t].status = "ERROR"]
    /\ AtOnce({t}, FALSE)
    /\ UNCHANGED <<active, ever, token, woken, named, serverBound, seeded, given, overlapped>>

-----------------------------------------------------------------------------
(* Bindings *)

Tags(pairs)   == {b[2] : b \in pairs}
BindingsOf(p) == {b \in active : b[1] = p}

(* bind-tag finds no ACTIVE binding of the two.  A tag without a row is    *)
(* refused, or registered first, where the configuration allows it.        *)
BindTag(o, p, t) ==
    /\ <<p, t>> \notin active
    /\ row' = [row EXCEPT ![t] = IF Exists(t) THEN @ ELSE [NoRow EXCEPT !.status = "IDLE"]]
    /\ Start(o, [Free EXCEPT !.kind = "bind", !.parcel = {p},
                             !.seen = [u \in {t} |-> row'[t]]])
    /\ named' = named \union {<<p, t>>}
    /\ UNCHANGED <<active, ever, token, woken, serverBound, seeded, given, overlapped>>

(* Slip: the tag's status is left to the wake.                             *)
CommitBindOnly(o) ==
    LET new == op[o].parcel \X DOMAIN op[o].seen IN
    /\ op[o].kind = "bind"
    /\ active' = active \union new /\ ever' = ever \union new
    /\ UNCHANGED row
    /\ Finish(o, DOMAIN op[o].seen, FALSE)
    /\ UNCHANGED <<token, done, woken, named, serverBound, seeded, given>>

CommitBind(o) ==
    LET new == op[o].parcel \X DOMAIN op[o].seen IN
    /\ op[o].kind = "bind"
    /\ active' = active \union new /\ ever' = ever \union new
    /\ SetStatus(o, "RUNNING")
    /\ Finish(o, DOMAIN op[o].seen, FALSE)
    /\ UNCHANGED <<token, done, woken, named, serverBound, seeded, given>>

(* release-tag, for one parcel or for all: the tag is IDLE afterwards in   *)
(* any case.                                                               *)
ReleaseTag(o, t) ==
    /\ Exists(t)
    /\ \E only \in {Parcel} \union {{p} : p \in Parcel} :
          /\ Start(o, [Free EXCEPT !.kind = "release", !.seen = Read({t}),
                                   !.release = active \cap (only \X {t})])
          /\ named' = IF only = Parcel THEN named ELSE named \union (only \X {t})
    /\ UNCHANGED <<row, active, ever, token, woken, serverBound, seeded, given, overlapped>>

(* confirm-pickup releases the ACTIVE bindings of the parcel.              *)
ConfirmPickup(o, p) ==
    /\ Start(o, [Free EXCEPT !.kind = "release", !.release = BindingsOf(p),
                             !.seen = Read(Tags(BindingsOf(p)))])
    /\ UNCHANGED <<row, active, ever, token, woken, named, serverBound, seeded, given, overlapped>>

(* PARCEL_PICKUP_CONFIRMED goes through all of its bindings, the released  *)
(* ones too, and stops each ACTIVE tag over Bluetooth first.               *)
ApplyPickup(o, p) ==
    LET all == {b \in ever : b[1] = p} IN
    /\ Start(o, [Free EXCEPT !.kind = "release", !.release = all,
                             !.seen = Read({t \in Tags(all) : Exists(t)})])
    /\ UNCHANGED <<row, active, ever, token, woken, named, serverBound, seeded, given, overlapped>>

(* Slip: the tag is free only when a binding has been found.               *)
CommitFound(o) ==
    /\ op[o].kind = "release"
    /\ active' = active \ op[o].release
    /\ IF op[o].release = {} THEN UNCHANGED row ELSE SetStatus(o, "IDLE")
    /\ woken' = woken \ DOMAIN op[o].seen
    /\ Finish(o, DOMAIN op[o].seen, FALSE)
    /\ UNCHANGED <<ever, token, done, named, serverBound, seeded, given>>

CommitRelease(o) ==
    /\ op[o].kind = "release"
    /\ active' = active \ op[o].release
    /\ SetStatus(o, "IDLE")
    /\ woken' = woken \ DOMAIN op[o].seen
    /\ Finish(o, DOMAIN op[o].seen, FALSE)
    /\ UNCHANGED <<ever, token, done, named, serverBound, seeded, given>>

(* PARCEL_TAG_BINDING_UPSERT: a row without a number for a tag that has    *)
(* none, and no change of status for one that has.                         *)
ApplyBinding(p, t) ==
    /\ row' = [row EXCEPT ![t] = IF Exists(t) THEN @ ELSE [NoRow EXCEPT !.status = "IDLE"]]
    /\ active' = active \union {<<p, t>>} /\ ever' = ever \union {<<p, t>>}
    /\ serverBound' = serverBound \union {t} /\ named' = named \union {<<p, t>>}
    /\ AtOnce({t}, TRUE)
    /\ UNCHANGED <<token, woken, seeded, given, overlapped>>

(* seed-demo-gate: a binding, if the parcel has never had one, and the tag, *)
(* IDLE if it is new and as it was if it is not.                           *)
SeedDemoGate(p, t) ==
    LET new == IF \E b \in ever : b[1] = p THEN {} ELSE {<<p, t>>} IN
    /\ row' = [row EXCEPT ![t] = IF Exists(t) THEN @ ELSE [NoRow EXCEPT !.status = "IDLE"]]
    /\ active' = active \union new /\ ever' = ever \union new
    /\ seeded' = seeded \union new /\ named' = named \union {<<p, t>>}
    /\ AtOnce({t}, TRUE)
    /\ UNCHANGED <<token, woken, serverBound, given, overlapped>>

-----------------------------------------------------------------------------
Next ==
    \/ IssueToken \/ EndToken
    \/ \E o \in Op, d \in Device : RegisterFromBle(o, d)
    \/ \E d \in Device : ScanTags(d)
    \/ \E t \in TagId : ReportTagException(t) \/ \E u \in MaybeDevice : RegisterTag(t, u)
    \/ \E o \in Op, t \in TagId :
          \/ ConnectTag(o, t) \/ WakeTag(o, t) \/ StopTag(o, t) \/ ReadTagStatus(o, t)
          \/ ReleaseTag(o, t)
          \/ \E p \in Parcel : BindTag(o, p, t)
    \/ \E o \in Op, p \in Parcel : ConfirmPickup(o, p) \/ ApplyPickup(o, p)
    \/ \E o \in Op : \/ CommitNew(o) \/ CommitKnown(o) \/ ApplyBleResult(o)
                     \/ CommitBind(o) \/ CommitRelease(o)
    \/ \E p \in Parcel, t \in TagId : ApplyBinding(p, t) \/ SeedDemoGate(p, t)

Spec == Init /\ [][Next]_vars

-----------------------------------------------------------------------------
TypeOK ==
    /\ row \in [TagId -> Row]
    /\ active \subseteq ever /\ ever \subseteq Parcel \X TagId
    /\ token \in {"none", "valid"}
    /\ \A o \in Op : /\ DOMAIN op[o].seen \subseteq TagId
                     /\ op[o].release \subseteq ever
                     /\ \A t \in DOMAIN op[o].seen : Exists(t) /\ op[o].seen[t].status # "NONE"
    /\ done \in 0..MaxDone
    /\ named \subseteq Parcel \X TagId /\ seeded \subseteq ever
    /\ woken \subseteq TagId /\ serverBound \subseteq TagId
    /\ given \subseteq TagId /\ overlapped \subseteq TagId

(* The number on a tag is its own: two rows have the same local_no only if *)
(* the registrations that numbered them overlapped (register_from_ble      *)
(* reads the largest number long before it commits; the column is not      *)
(* unique).                                                                *)
NumbersDiffer ==
    \A t, u \in TagId :
        t # u /\ row[t].no # 0 /\ row[t].no = row[u].no => {t, u} \cap overlapped # {}

(* A device is registered once: two rows carry its Bluetooth name only if  *)
(* they were written by operations that overlapped, an operator gave one   *)
(* of them a uid by hand, or one has an id that is the device's old name.  *)
DeviceNamedOnce ==
    \A t, u \in TagId :
        t # u /\ row[t].name # NoDevice /\ row[t].name = row[u].name =>
            {t, u} \cap (overlapped \union given \union {Legacy[row[t].name]}) # {}

(* A tag is reached at the address of the device it is registered for,     *)
(* unless an operator gave it a uid by hand, or another device still has   *)
(* the tag's id as its name.                                               *)
AddressIsOwn ==
    \A t \in TagId :
        row[t].name # NoDevice /\ row[t].addr # row[t].name =>
            \/ t \in given \union overlapped
            \/ \E d \in Device \ {row[t].name} : Legacy[d] = t

(* A tag on a parcel is not reported IDLE, ready for the next one, unless  *)
(* the server or seed-demo-gate bound it, commands named more than one     *)
(* parcel for it, or operations on it overlapped.                          *)
BoundNotIdle ==
    \A t \in TagId : row[t].status = "IDLE" /\ t \in Tags(active) =>
        \/ t \in serverBound \union Tags(active \cap seeded) \union overlapped
        \/ \E b, c \in named : b[2] = t /\ c[2] = t /\ b[1] # c[1]

(* A tag is reported RUNNING only while it is on a parcel, or since an     *)
(* operator has woken it, unless operations on it overlapped: a wake whose *)
(* answer comes after the release writes RUNNING over it.                  *)
RunningHasReason ==
    \A t \in TagId : row[t].status = "RUNNING" =>
        t \in Tags(active) \union woken \union overlapped
=============================================================================
