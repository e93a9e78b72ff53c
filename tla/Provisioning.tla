---------------------------- MODULE Provisioning ----------------------------
(***************************************************************************)
(* Registering a gateway: the server's registration tokens, gateway rows   *)
(* and factory devices, and the one physical gateway that is being bound,  *)
(* with its provisioning API, its commands and its run loop.               *)
(*                                                                         *)
(* Server: each request reads its rows without a lock and writes at its    *)
(* commit only the columns whose value differs from the one it has read,   *)
(* so that an operation is a Check (or Read) and a Commit.                 *)
(*                                                                         *)
(* Gateway: the provisioning API runs on one event loop; a bind request    *)
(* lets others run only while its body is read, and blocks the loop while  *)
(* it talks to the server.  Commands are processes of their own.           *)
(***************************************************************************)
EXTENDS Naturals, FiniteSets

CONSTANTS
    Device,       \* factory codes
    Barred,       \* those an operator has disabled in the database
    NoDevice,     \* no factory code
    Code,         \* gateway codes
    NoCode,       \* no gateway code
    Token,        \* bound: registration tokens
    Request,      \* bound: activation requests that may overlap
    MaxSecret,    \* bound: secrets, numbered in the order they are stored
    Bind,         \* bound: bind requests of the phone
    Nobody,       \* sender of a request whose client has given up
    MaxTrouble    \* bound: faults and interventions, of all kinds together

Client == {"api", "cli", "outside"}

ASSUME ConstantsOK ==
    /\ Barred \subseteq Device
    /\ NoDevice \notin Device
    /\ NoCode \notin Code
    /\ MaxSecret \in Nat
    /\ MaxTrouble \in Nat
    /\ Nobody \notin Client \union {"start", "run"}

Secret == 0..MaxSecret          \* 0: none
MaybeDevice == Device \union {NoDevice}
MaybeCode == Code \union {NoCode}

TokenStatus   == {"NONE", "PENDING", "USED", "EXPIRED", "REVOKED"}

(* A gateway's status is a string of the administrator's choice.  DISABLED *)
(* stands for every one that no code compares with.                        *)
Requested     == {"ACTIVE", "ONLINE", "BOUND", "DISABLED"}
GatewayStatus == {"NONE"} \union Requested
FactoryStatus == {"NONE", "PENDING_BIND", "BOUND", "ONLINE", "DISABLED"}

TokenRow   == [status : TokenStatus, code : MaybeCode, device : MaybeDevice]
GatewayRow == [status : GatewayStatus, secret : Secret, device : MaybeDevice]
FactoryRow == [status : FactoryStatus, gateway : MaybeCode]

NoToken   == [status |-> "NONE", code |-> NoCode, device |-> NoDevice]
NoGateway == [status |-> "NONE", secret |-> 0, device |-> NoDevice]
NoFactory == [status |-> "NONE", gateway |-> NoCode]

(* What .env says: BINDING_STATUS, GATEWAY_CODE, GATEWAY_SECRET.           *)
Settings == [bound : BOOLEAN, code : MaybeCode, secret : Secret]
Unbound  == [bound |-> FALSE, code |-> NoCode, secret |-> 0]

VARIABLES
    token,       \* server: registration tokens
    overdue,     \* tokens past expires_at
    ending,      \* status that a revocation or a listing is about to write over
                 \* a token it has read as PENDING
    gateway,     \* server: gateway rows, by code
    factory,     \* server: factory devices
    issued,      \* number of secrets stored so far
    register,    \* the register request in progress, with the row it has read
    req,         \* activation requests, with the rows they have read
    beat,        \* the heartbeat in progress, likewise
    env,         \* gateway: the .env file
    proc,        \* gateway: the process that runs
    held,        \* gateway: the settings that process has loaded
    cfg,         \* gateway: gateway_config.binding_status in SQLite
    bind,        \* bind requests: how far each has got
    session,     \* gateway: their gateway_binding_sessions
    troubles,    \* number of faults and interventions so far
    uses,        \* history: activations committed with a token
    doubled,     \* history: tokens two requests had found PENDING at once
    latest,      \* history: the device each code was last activated with, if
                 \* nobody else had changed the row meanwhile
    heard,       \* history: secrets a heartbeat was accepted with
    spoken,      \* history: devices whose gateway's heartbeat was accepted
    declared,    \* history: secrets an administrator registered as ONLINE
    crossed,     \* history: secrets stored while the row was being changed
    disturbed    \* history: codes whose latest secret did not come to this
                 \* gateway, or came while another was on its way

tokenVars == <<token, overdue, ending>>
rowVars   == <<gateway, factory, issued>>
envVars   == <<env, proc, held, cfg>>
bindVars  == <<bind, session>>
history   == <<uses, doubled, latest, heard, spoken, declared, crossed>>
vars == <<tokenVars, rowVars, register, req, beat, envVars, bindVars, history, disturbed, troubles>>

NoRequest  == [phase |-> "free", from |-> Nobody, token |-> "none",
               device |-> NoDevice, secret |-> 0, row |-> NoGateway, dev |-> NoFactory]
NoBeat     == [phase |-> "free", from |-> Nobody, code |-> NoCode, secret |-> 0,
               row |-> NoGateway, dev |-> NoFactory]
NoRegister == [code |-> NoCode, status |-> "ACTIVE", row |-> NoGateway]

Init ==
    /\ token = [t \in Token |-> NoToken]
    /\ overdue = {}
    /\ ending = [t \in Token |-> "PENDING"]
    /\ gateway = [c \in Code |-> NoGateway]
    /\ factory = [d \in Device |->
                    IF d \in Barred THEN [NoFactory EXCEPT !.status = "DISABLED"] ELSE NoFactory]
    /\ issued = 0
    /\ register = NoRegister
    /\ req = [r \in Request |-> NoRequest]
    /\ beat = NoBeat
    /\ env = Unbound /\ proc = "off" /\ held = Unbound /\ cfg = "UNBOUND"
    /\ bind = [b \in Bind |-> "idle"]
    /\ session = [b \in Bind |-> "NONE"]
    /\ troubles = 0
    /\ uses = [t \in Token |-> 0]
    /\ latest = [c \in Code |-> NoDevice]
    /\ doubled = {} /\ heard = {} /\ spoken = {} /\ declared = {} /\ crossed = {} /\ disturbed = {}

-----------------------------------------------------------------------------
(* Server: tokens *)

Trouble == troubles < MaxTrouble /\ troubles' = troubles + 1

Live(c) == gateway[c].status \in {"ACTIVE", "ONLINE"}

NewToken(t, c, d) ==
    /\ token[t].status = "NONE"
    /\ token' = [token EXCEPT ![t] = [status |-> "PENDING", code |-> c, device |-> d]]

(* The administrator asks for a token.                                     *)
CreateToken(t, c) ==
    /\ NewToken(t, c, NoDevice)
    /\ UNCHANGED <<overdue, ending, rowVars, register, req, beat, envVars, bindVars, history, disturbed, troubles>>

(* A member of staff has scanned the factory code.  A gateway code in use  *)
(* gets a random suffix: some other code that is not in use.  The device   *)
(* is made PENDING_BIND in the transaction of the token; the next one sets *)
(* the status it has loaded again, which writes nothing.                   *)
PrepareProvisioning(d, c, t) ==
    /\ factory[d].status \in {"NONE", "PENDING_BIND"}
    /\ \E x \in Code :
          /\ IF Live(c) THEN ~ Live(x) ELSE x = c
          /\ NewToken(t, x, d)
    /\ factory' = [factory EXCEPT ![d].status = "PENDING_BIND"]
    /\ UNCHANGED <<overdue, ending, gateway, issued, register, req, beat, envVars, bindVars,
                   history, disturbed, troubles>>

PassExpiry(t) ==
    /\ token[t].status = "PENDING"
    /\ overdue' = overdue \union {t}
    /\ Trouble
    /\ UNCHANGED <<token, ending, rowVars, register, req, beat, envVars, bindVars, history, disturbed>>

(* Revoking a token, and listing the tokens, look for PENDING ones ...     *)
ReadForRevoke(t) ==
    /\ token[t].status = "PENDING"
    /\ ending' = [ending EXCEPT ![t] = "REVOKED"]
    /\ Trouble
    /\ UNCHANGED <<token, overdue, rowVars, register, req, beat, envVars, bindVars, history, disturbed>>

ReadForListing(t) ==
    /\ token[t].status = "PENDING"
    /\ t \in overdue
    /\ ending' = [ending EXCEPT ![t] = "EXPIRED"]
    /\ UNCHANGED <<token, overdue, rowVars, register, req, beat, envVars, bindVars, history, disturbed, troubles>>

(* ... and write their status later, whatever it has become.               *)
CommitEnding(t) ==
    /\ ending[t] # "PENDING"
    /\ token' = [token EXCEPT ![t].status = ending[t]]
    /\ ending' = [ending EXCEPT ![t] = "PENDING"]
    /\ UNCHANGED <<overdue, rowVars, register, req, beat, envVars, bindVars, history, disturbed, troubles>>

-----------------------------------------------------------------------------
(* Server: storing a secret *)

(* A column is written when the value set differs from the value loaded.   *)
Written(current, loaded, value) == IF value # loaded THEN value ELSE current

CodeOf(r) == token[req[r].token].code

(* Slip: the factory code is set when the row is inserted only.            *)
StoreSecretAlone(c, status, seen, device) ==
    /\ issued < MaxSecret
    /\ issued' = issued + 1
    /\ gateway' = [gateway EXCEPT ![c] =
                     [status |-> Written(@.status, seen.status, status),
                      secret |-> issued + 1,
                      device |-> IF seen.status = "NONE" THEN device ELSE @.device]]
    /\ crossed' = IF gateway[c] # seen \/ (beat.phase = "checked" /\ beat.code = c)
                   THEN crossed \union {issued + 1} ELSE crossed

(* The next secret becomes that of c.  It is crossed when somebody else    *)
(* has changed the row since it was read, or a heartbeat has read it.      *)
StoreSecret(c, status, seen, device) ==
    /\ issued < MaxSecret
    /\ issued' = issued + 1
    /\ gateway' = [gateway EXCEPT ![c] =
                     [status |-> Written(@.status, seen.status, status),
                      secret |-> issued + 1,
                      device |-> Written(@.device, seen.device, device)]]
    /\ crossed' = IF gateway[c] # seen \/ (beat.phase = "checked" /\ beat.code = c)
                   THEN crossed \union {issued + 1} ELSE crossed

ReadForRegister(c, status) ==
    /\ register.code = NoCode
    /\ register' = [code |-> c, status |-> status, row |-> gateway[c]]
    /\ Trouble
    /\ UNCHANGED <<tokenVars, rowVars, req, beat, envVars, bindVars, history, disturbed>>

(* The administrator's own secret; a row inserted meanwhile makes it fail. *)
RegisterGateway ==
    LET c == register.code IN
    /\ c # NoCode
    /\ register' = NoRegister
    /\ IF register.row.status = "NONE" /\ gateway[c].status # "NONE"
       THEN UNCHANGED <<rowVars, declared, crossed, disturbed>>
       ELSE /\ StoreSecret(c, register.status, register.row, register.row.device)
            /\ declared' = IF register.status = "ONLINE" THEN declared \union {issued + 1} ELSE declared
            /\ disturbed' = disturbed \union {c}
            /\ UNCHANGED factory
    /\ UNCHANGED <<tokenVars, req, beat, envVars, bindVars, uses, doubled, latest, heard, spoken, troubles>>

-----------------------------------------------------------------------------
(* Server: bootstrap/activate *)

(* Nobody waits for an answer, or the caller has no part in this model.    *)
Answer(r, a) ==
    IF req[r].from \in {"api", "cli"} THEN [req EXCEPT ![r].phase = a]
                                      ELSE [req EXCEPT ![r] = NoRequest]

(* Slip: a token that has been used may be used again.                     *)
PendingOrUsed(t) == token[t].status \in {"PENDING", "USED"} /\ t \notin overdue

(* The factory code the token or the caller's device_info gives.           *)
Effective(r) == IF token[req[r].token].device # NoDevice THEN token[req[r].token].device
                                                        ELSE req[r].device

Activatable(t) == token[t].status = "PENDING" /\ t \notin overdue

(* A token made for a device needs that device's code in device_info.      *)
DeviceMatches(r) == token[req[r].token].device \in {NoDevice, req[r].device}

Permitted(r) ==
    /\ Activatable(req[r].token)
    /\ DeviceMatches(r)
    /\ Effective(r) # NoDevice => factory[Effective(r)].status # "DISABLED"

CheckActivation(r) ==
    /\ req[r].phase = "sent"
    /\ Permitted(r)
    /\ req' = [req EXCEPT ![r].phase = "checked",
                          ![r].row = gateway[CodeOf(r)],
                          ![r].dev = IF Effective(r) = NoDevice THEN NoFactory
                                     ELSE factory[Effective(r)]]
    /\ doubled' = IF \E q \in Request \ {r} : req[q].phase = "checked" /\ req[q].token = req[r].token
                   THEN doubled \union {req[r].token} ELSE doubled
    /\ UNCHANGED <<tokenVars, rowVars, register, beat, envVars, bindVars,
                   uses, latest, heard, spoken, declared, crossed, disturbed, troubles>>

(* Answered 401; a PENDING token found too old becomes EXPIRED.            *)
RefuseActivation(r) ==
    /\ req[r].phase = "sent"
    /\ ~ Permitted(r)
    /\ req' = Answer(r, "error")
    /\ token' = IF token[req[r].token].status = "PENDING" /\ req[r].token \in overdue
                 THEN [token EXCEPT ![req[r].token].status = "EXPIRED"] ELSE token
    /\ UNCHANGED <<overdue, ending, rowVars, register, beat, envVars, bindVars, history, disturbed, troubles>>

(* gateway_code and gateway_factory_code are unique in gateways.           *)
ActivationConflict(r) ==
    \/ req[r].row.status = "NONE" /\ gateway[CodeOf(r)].status # "NONE"
    \/ /\ Effective(r) \notin {NoDevice, req[r].row.device}
       /\ \E x \in Code \ {CodeOf(r)} : gateway[x].device = Effective(r)

FailActivation(r) ==
    /\ req[r].phase = "checked"
    /\ ActivationConflict(r)
    /\ req' = Answer(r, "error")
    /\ UNCHANGED <<tokenVars, rowVars, register, beat, envVars, bindVars, history, disturbed, troubles>>

(* An answer for this gateway that it has not stored yet.                  *)
Underway(c) == \E r \in Request : req[r].phase = "ok" /\ CodeOf(r) = c

(* The gateway, the device and the token in one transaction, then the      *)
(* answer with the secret.                                                 *)
CommitActivation(r) ==
    LET t == req[r].token
        c == CodeOf(r)
        d == Effective(r) IN
    /\ req[r].phase = "checked"
    /\ ~ ActivationConflict(r)
    /\ StoreSecret(c, "ACTIVE", req[r].row, d)
    /\ factory' = IF req[r].dev.status = "NONE" THEN factory
                   ELSE [factory EXCEPT
                           ![d].status = Written(@, req[r].dev.status, "BOUND"),
                           ![d].gateway = Written(@, req[r].dev.gateway, c)]
    /\ token' = [token EXCEPT ![t].status = "USED"]
    /\ req' = [Answer(r, "ok") EXCEPT ![r].secret = IF req[r].from \in {"api", "cli"} THEN issued + 1 ELSE 0]
    /\ uses' = [uses EXCEPT ![t] = @ + 1]
    /\ latest' = [latest EXCEPT ![c] = IF gateway[c] = req[r].row THEN d ELSE NoDevice]
    /\ disturbed' = IF req[r].from \in {"api", "cli"} /\ ~ Underway(c)
                     THEN disturbed \ {c} ELSE disturbed \union {c}
    /\ UNCHANGED <<overdue, ending, register, beat, envVars, bindVars, doubled, heard, spoken, declared, troubles>>

-----------------------------------------------------------------------------
(* Server: heartbeat *)

(* Slip: the signature is not checked.                                     *)
KnownAndLive(c, s) == Live(c)

(* verify_gateway_request: the row is there, in use, and its secret signed *)
(* the request.                                                            *)
Authenticated(c, s) == Live(c) /\ gateway[c].secret = s

CheckBeat ==
    /\ beat.phase = "sent"
    /\ Authenticated(beat.code, beat.secret)
    /\ beat' = [beat EXCEPT !.phase = "checked",
                            !.row = gateway[beat.code],
                            !.dev = IF gateway[beat.code].device = NoDevice THEN NoFactory
                                    ELSE factory[gateway[beat.code].device]]
    /\ UNCHANGED <<tokenVars, rowVars, register, req, envVars, bindVars, history, disturbed, troubles>>

(* gateway_config in SQLite follows the settings.                          *)
SyncConfig(status) == cfg' = status

(* The first heartbeat of a process ends its start-up, whatever comes of   *)
(* it; one that succeeds is noted in gateway_config.                       *)
BeatEnds(succeeds) ==
    /\ beat' = NoBeat
    /\ proc' = IF beat.from = "start" THEN "run" ELSE proc
    /\ cfg' = IF succeeds /\ beat.from \in {"api", "start"} THEN "ONLINE" ELSE cfg
    /\ UNCHANGED <<env, held>>

RefuseBeat ==
    /\ beat.phase = "sent"
    /\ ~ Authenticated(beat.code, beat.secret)
    /\ BeatEnds(FALSE)
    /\ UNCHANGED <<tokenVars, rowVars, register, req, bindVars, history, disturbed, troubles>>

LoseBeat ==
    /\ beat.phase = "sent"
    /\ BeatEnds(FALSE)
    /\ Trouble
    /\ UNCHANGED <<tokenVars, rowVars, register, req, bindVars, history, disturbed>>

(* The nonce is inserted, which locks the gateway's row until the commit.  *)
(* The answer may be lost.                                                 *)
CommitBeat(arrives) ==
    LET c == beat.code
        d == beat.row.device IN
    /\ beat.phase = "checked"
    /\ gateway' = [gateway EXCEPT ![c].status = Written(@, beat.row.status, "ONLINE")]
    /\ factory' = IF beat.dev.status = "NONE" THEN factory
                   ELSE [factory EXCEPT
                           ![d].status = Written(@, beat.dev.status, "ONLINE"),
                           ![d].gateway = Written(@, beat.dev.gateway, c)]
    /\ heard' = heard \union {beat.secret}
    /\ spoken' = IF beat.dev.status = "NONE" THEN spoken ELSE spoken \union {d}
    /\ BeatEnds(arrives)
    /\ UNCHANGED <<tokenVars, issued, register, req, bindVars, uses, doubled, latest, declared, crossed, disturbed, troubles>>

-----------------------------------------------------------------------------
(* Gateway *)

(* A request in the gateway's name, signed with its secret                 *)
Signed(from, key) ==
    [NoBeat EXCEPT !.phase = "sent", !.from = from, !.code = key.code, !.secret = key.secret]

SendBeat(from, key) == beat.phase = "free" /\ beat' = Signed(from, key)

SendActivation(r, t, d, from) ==
    /\ req[r].phase = "free"
    /\ \A q \in Request : req[q].from # from
    /\ token[t].status # "NONE"
    /\ req' = [req EXCEPT ![r] = [NoRequest EXCEPT
                 !.phase = "sent", !.from = from, !.token = t, !.device = d]]

(* The client stops waiting, or has no use for the answer.                 *)
Abandon(r) ==
    /\ req' = [req EXCEPT ![r] = IF @.phase \in {"sent", "checked"} THEN [@ EXCEPT !.from = Nobody]
                                 ELSE NoRequest]
    /\ disturbed' = IF req[r].phase = "ok" THEN disturbed \union {CodeOf(r)} ELSE disturbed

Blocked == \E b \in Bind : bind[b] \in {"activating", "stored", "verifying"}

(* run or provisioning on an unbound gateway                               *)
StartProvisioning ==
    /\ proc = "off" /\ ~ env.bound
    /\ proc' = "api" /\ held' = env /\ SyncConfig("UNBOUND")
    /\ UNCHANGED <<env, tokenVars, rowVars, register, req, beat, bindVars, history, disturbed, troubles>>

(* run on a bound gateway: the settings are read once.                     *)
StartRun ==
    /\ proc = "off" /\ env.bound
    /\ proc' = "start" /\ held' = env /\ SyncConfig("BOUND")
    /\ UNCHANGED <<env, tokenVars, rowVars, register, req, beat, bindVars, history, disturbed, troubles>>

RunBeat ==
    /\ proc \in {"start", "run"}
    /\ SendBeat(proc, held)
    /\ UNCHANGED <<tokenVars, rowVars, register, req, envVars, bindVars, history, disturbed, troubles>>

(* Whoever else has come by the secret of a gateway may use it.            *)
OutsideBeat(c) ==
    /\ c \in disturbed /\ gateway[c].secret # 0
    /\ SendBeat(Nobody, [code |-> c, secret |-> gateway[c].secret])
    /\ UNCHANGED <<tokenVars, rowVars, register, req, envVars, bindVars, history, disturbed, troubles>>

(* The process stops, or crashes, at any point.                            *)
Stop ==
    /\ proc # "off"
    /\ proc' = "off" /\ held' = Unbound
    /\ bind' = [b \in Bind |-> IF bind[b] = "idle" THEN "idle" ELSE "done"]
    /\ IF \E r \in Request : req[r].from = "api"
       THEN \E r \in Request : req[r].from = "api" /\ Abandon(r)
       ELSE UNCHANGED <<req, disturbed>>
    /\ beat' = [beat EXCEPT !.from = Nobody]
    /\ Trouble
    /\ UNCHANGED <<env, cfg, tokenVars, rowVars, register, session, history>>

(* A bind request is let in while the settings in memory are unbound ...   *)
AdmitBind(b) ==
    /\ proc = "api" /\ ~ Blocked
    /\ bind[b] = "idle"
    /\ ~ held.bound
    /\ bind' = [bind EXCEPT ![b] = "admitted"]
    /\ UNCHANGED <<tokenVars, rowVars, register, req, beat, envVars, session, history, disturbed, troubles>>

(* ... and goes on when its body is there: a bad one is refused, a good    *)
(* one is recorded and sent on, without the factory code.                  *)
RejectBody(b) ==
    /\ ~ Blocked
    /\ bind[b] = "admitted"
    /\ bind' = [bind EXCEPT ![b] = "done"]
    /\ Trouble
    /\ UNCHANGED <<tokenVars, rowVars, register, req, beat, envVars, session, history, disturbed>>

ForwardBind(b, t, r) ==
    /\ ~ Blocked
    /\ bind[b] = "admitted"
    /\ SendActivation(r, t, NoDevice, "api")
    /\ bind' = [bind EXCEPT ![b] = "activating"]
    /\ session' = [session EXCEPT ![b] = "PENDING"]
    /\ UNCHANGED <<tokenVars, rowVars, register, beat, envVars, history, disturbed, troubles>>

(* Slip: a secret that .env has already is kept.                           *)
KeepsSecret(r) ==
    [bound |-> TRUE, code |-> CodeOf(r), secret |-> IF env.bound THEN env.secret ELSE req[r].secret]

(* Slip: the session gets a status of its own.                             *)
BindGivenUp(b, r) ==
    /\ bind[b] = "activating"
    /\ req[r].from = "api"
    /\ Abandon(r)
    /\ bind' = [bind EXCEPT ![b] = "done"]
    /\ session' = [session EXCEPT ![b] = "TIMEOUT"]
    /\ IF req[r].phase = "error" THEN UNCHANGED troubles ELSE Trouble
    /\ UNCHANGED <<tokenVars, rowVars, register, beat, envVars, history>>

(* 4xx, 5xx, or no answer within 15 s                                      *)
BindFails(b, r) ==
    /\ bind[b] = "activating"
    /\ req[r].from = "api"
    /\ Abandon(r)
    /\ bind' = [bind EXCEPT ![b] = "done"]
    /\ session' = [session EXCEPT ![b] = "FAILED"]
    /\ IF req[r].phase = "error" THEN UNCHANGED troubles ELSE Trouble
    /\ UNCHANGED <<tokenVars, rowVars, register, beat, envVars, history>>

NewEnv(r) == [bound |-> TRUE, code |-> CodeOf(r), secret |-> req[r].secret]

WriteEnv(r) == env' = NewEnv(r)

(* The secret goes to .env, into memory and the configuration table.       *)
StoreConfig(b, r) ==
    /\ bind[b] = "activating"
    /\ req[r].from = "api" /\ req[r].phase = "ok"
    /\ WriteEnv(r) /\ held' = NewEnv(r) /\ SyncConfig("BOUND")
    /\ req' = [req EXCEPT ![r] = NoRequest]
    /\ bind' = [bind EXCEPT ![b] = "stored"]
    /\ UNCHANGED <<proc, tokenVars, rowVars, register, beat, session, history, disturbed, troubles>>

(* .env cannot be written: the session stays PENDING.                      *)
StoreFails(b, r) ==
    /\ bind[b] = "activating"
    /\ req[r].from = "api" /\ req[r].phase = "ok"
    /\ Abandon(r)
    /\ bind' = [bind EXCEPT ![b] = "done"]
    /\ Trouble
    /\ UNCHANGED <<tokenVars, rowVars, register, beat, envVars, session, history>>

VerifyBind(b) ==
    /\ bind[b] = "stored"
    /\ SendBeat("api", held)
    /\ bind' = [bind EXCEPT ![b] = "verifying"]
    /\ UNCHANGED <<tokenVars, rowVars, register, req, envVars, session, history, disturbed, troubles>>

(* The bind is COMPLETED whatever came of the heartbeat.                   *)
CompleteBind(b) ==
    /\ bind[b] = "verifying"
    /\ beat.from # "api"
    /\ bind' = [bind EXCEPT ![b] = "done"]
    /\ session' = [session EXCEPT ![b] = "COMPLETED"]
    /\ UNCHANGED <<tokenVars, rowVars, register, req, beat, envVars, history, disturbed, troubles>>

(* The bootstrap-activate command, beside whatever runs                    *)
CliActivate(t, r) ==
    /\ SendActivation(r, t, NoDevice, "cli")
    /\ UNCHANGED <<tokenVars, rowVars, register, beat, envVars, bindVars, history, disturbed, troubles>>

CliStores(r) ==
    /\ req[r].from = "cli" /\ req[r].phase = "ok"
    /\ WriteEnv(r)
    /\ req' = [req EXCEPT ![r] = NoRequest]
    /\ UNCHANGED <<proc, held, cfg, tokenVars, rowVars, register, beat, bindVars, history, disturbed, troubles>>

(* Refused, given up, or run with --no-write-env                           *)
CliFails(r) ==
    /\ req[r].from = "cli"
    /\ Abandon(r)
    /\ IF req[r].phase = "error" THEN UNCHANGED troubles ELSE Trouble
    /\ UNCHANGED <<tokenVars, rowVars, register, beat, envVars, bindVars, history>>

(* Any other caller of the end point, with or without a factory code       *)
OutsideActivate(t, r, d) ==
    /\ SendActivation(r, t, d, "outside")
    /\ Trouble
    /\ UNCHANGED <<tokenVars, rowVars, register, beat, envVars, bindVars, history, disturbed>>

-----------------------------------------------------------------------------
TokenStep(t) ==
    \/ PassExpiry(t) \/ ReadForRevoke(t) \/ ReadForListing(t) \/ CommitEnding(t)
    \/ \E c \in Code : CreateToken(t, c) \/ \E d \in Device : PrepareProvisioning(d, c, t)

RegisterStep ==
    \/ \E c \in Code, status \in Requested : ReadForRegister(c, status)
    \/ RegisterGateway

ActivationStep(r) ==
    CheckActivation(r) \/ RefuseActivation(r) \/ FailActivation(r) \/ CommitActivation(r)

BeatStep == CheckBeat \/ RefuseBeat \/ \E arrives \in BOOLEAN : CommitBeat(arrives)

BindStep(b) ==
    \/ RejectBody(b) \/ VerifyBind(b) \/ CompleteBind(b)
    \/ \E r \in Request : BindFails(b, r) \/ StoreConfig(b, r)

Next ==
    \/ \E t \in Token : TokenStep(t)
    \/ RegisterStep
    \/ \E r \in Request : ActivationStep(r) \/ CliStores(r) \/ CliFails(r)
    \/ \E t \in Token, r \in Request :
          \/ CliActivate(t, r)
          \/ \E d \in MaybeDevice : OutsideActivate(t, r, d)
          \/ \E b \in Bind : ForwardBind(b, t, r)
    \/ \E b \in Bind : AdmitBind(b) \/ BindStep(b) \/ \E r \in Request : StoreFails(b, r)
    \/ BeatStep \/ LoseBeat \/ \E c \in Code : OutsideBeat(c)
    \/ StartProvisioning \/ StartRun \/ RunBeat \/ Stop

Spec == Init /\ [][Next]_vars

-----------------------------------------------------------------------------
(* Properties *)

(* Every variable holds values of its kind.                                *)
TypeOK ==
    /\ token \in [Token -> TokenRow]
    /\ overdue \subseteq Token
    /\ ending \in [Token -> {"PENDING", "REVOKED", "EXPIRED"}]
    /\ gateway \in [Code -> GatewayRow]
    /\ factory \in [Device -> FactoryRow]
    /\ issued \in Secret
    /\ register \in [code : MaybeCode, status : Requested, row : GatewayRow]
    /\ req \in [Request -> [phase : {"free", "sent", "checked", "ok", "error"},
                            from : Client \union {Nobody}, token : Token \union {"none"}, device : MaybeDevice,
                            secret : Secret, row : GatewayRow, dev : FactoryRow]]
    /\ beat \in [phase : {"free", "sent", "checked"}, from : {"api", "start", "run", Nobody},
                 code : MaybeCode, secret : Secret, row : GatewayRow, dev : FactoryRow]
    /\ env \in Settings
    /\ held \in Settings
    /\ proc \in {"off", "api", "start", "run"}
    /\ cfg \in {"UNBOUND", "BOUND", "ONLINE"}
    /\ bind \in [Bind -> {"idle", "admitted", "activating", "stored", "verifying", "done"}]
    /\ session \in [Bind -> {"NONE", "PENDING", "FAILED", "COMPLETED"}]
    /\ troubles \in 0..MaxTrouble
    /\ uses \in [Token -> Nat]
    /\ doubled \subseteq Token
    /\ latest \in [Code -> MaybeDevice]
    /\ heard \subseteq Secret
    /\ spoken \subseteq Device
    /\ declared \subseteq Secret
    /\ crossed \subseteq Secret
    /\ disturbed \subseteq Code

(* A registration token binds a gateway once, unless two requests were let *)
(* through before either was committed: a revocation or a listing that     *)
(* writes over USED does not open it again.                                *)
TokenBindsOnce ==
    \A t \in Token : uses[t] > 1 => t \in doubled

(* The secret in the gateway's .env is the one the server checks, however  *)
(* many binds, commands and retries there were, unless the latest secret   *)
(* is still on its way, was lost with its answer, went to somebody else or *)
(* overtook another one.                                                   *)
StoredSecretIsCurrent ==
    env.bound =>
        \/ env.secret = gateway[env.code].secret
        \/ Underway(env.code)
        \/ env.code \in disturbed

(* A factory device that counts as bound belongs to a gateway that says so *)
(* too, unless that gateway was activated since without this device's      *)
(* factory code, or by two requests at once.                               *)
BoundDeviceHasGateway ==
    \A d \in Device :
        factory[d].status \in {"BOUND", "ONLINE"} =>
            LET c == factory[d].gateway IN
            /\ c # NoCode
            /\ gateway[c].device = d \/ latest[c] # d

(* What provisioning/confirm answers                                       *)
ConfirmAnswer(d, c) ==
    IF factory[d].status = "NONE" THEN "UNKNOWN"
    ELSE IF gateway[c].status = "NONE" THEN factory[d].status
    ELSE IF gateway[c].status \in {"ACTIVE", "BOUND"} THEN "BOUND"
    ELSE gateway[c].status

(* Staff is told ONLINE only when a heartbeat was accepted: one signed with *)
(* the gateway's present secret, unless that secret was registered as      *)
(* ONLINE or stored while a heartbeat with the one before was being        *)
(* handled; or, of a code that no gateway has, one of the device's own.    *)
ConfirmedOnlineWasHeard ==
    \A d \in Device, c \in Code :
        ConfirmAnswer(d, c) = "ONLINE" =>
            IF gateway[c].status = "NONE" THEN d \in spoken
            ELSE gateway[c].secret \in heard \union declared \union crossed

(* docs/gateway_provisioning_flow.md: the parameters the server has made   *)
(* for a device bind that device.  The server refuses no bind of a token   *)
(* that is pending and in time.                                            *)
PreparedBindAccepted ==
    [][\A r \in Request :
          /\ req[r].from = "api" /\ req[r].phase = "sent" /\ req'[r].phase = "error"
          /\ token[req[r].token].device \notin Barred
          => ~ Activatable(req[r].token)]_vars
=============================================================================
