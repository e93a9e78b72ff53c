------------------------- MODULE Provisioning_proofs -------------------------
(***************************************************************************)
(* Proofs about the registration of gateways, for any number of devices,   *)
(* codes, tokens and overlapping requests, and any number of faults.       *)
(***************************************************************************)
EXTENDS Provisioning, TLAPS

Req  == [phase : {"free", "sent", "checked", "ok", "error"},
         from : Client \union {Nobody}, token : Token \union {"none"}, device : MaybeDevice,
         secret : Secret, row : GatewayRow, dev : FactoryRow]

Beat == [phase : {"free", "sent", "checked"}, from : {"api", "start", "run", Nobody},
         code : MaybeCode, secret : Secret, row : GatewayRow, dev : FactoryRow]

Step == {"idle", "admitted", "activating", "stored", "verifying", "done"}

(* TypeOK in three parts *)
ServerTypes ==
    /\ token \in [Token -> TokenRow]
    /\ overdue \subseteq Token
    /\ ending \in [Token -> {"PENDING", "REVOKED", "EXPIRED"}]
    /\ gateway \in [Code -> GatewayRow]
    /\ factory \in [Device -> FactoryRow]
    /\ issued \in Secret
    /\ register \in [code : MaybeCode, status : Requested, row : GatewayRow]

GatewayTypes ==
    /\ req \in [Request -> Req]
    /\ beat \in Beat
    /\ env \in Settings /\ held \in Settings
    /\ proc \in {"off", "api", "start", "run"}
    /\ cfg \in {"UNBOUND", "BOUND", "ONLINE"}
    /\ bind \in [Bind -> Step]
    /\ session \in [Bind -> {"NONE", "PENDING", "FAILED", "COMPLETED"}]

HistoryTypes ==
    /\ troubles \in 0..MaxTrouble
    /\ uses \in [Token -> Nat]
    /\ doubled \subseteq Token
    /\ latest \in [Code -> MaybeDevice]
    /\ heard \subseteq Secret
    /\ spoken \subseteq Device
    /\ declared \subseteq Secret
    /\ crossed \subseteq Secret
    /\ disturbed \subseteq Code

(* A token that has been made names a code, and only such a one is ended;  *)
(* a request that has been sent uses a token that has been made.           *)
CodesNamed == \A t \in Token : token[t].status # "NONE" => token[t].code \in Code

NoneEnds == \A t \in Token : token[t].status = "NONE" => ending[t] = "PENDING"

TokensNameCodes == CodesNamed /\ NoneEnds

RequestsHaveTokens ==
    \A r \in Request : req[r].phase # "free" =>
        req[r].token \in Token /\ token[req[r].token].status # "NONE"

(* A heartbeat is in the name of a code: it is sent by a process that has  *)
(* loaded the settings of a bound gateway.                                 *)
Bound(settings) == settings.bound => settings.code \in Code

BeatsNameCodes ==
    /\ beat.phase # "free" => beat.code \in Code
    /\ beat.phase = "checked" /\ beat.dev.status # "NONE" => beat.row.device \in Device
    /\ beat.from = "start" => proc = "start"
    /\ Bound(env) /\ Bound(held)
    /\ proc \in {"start", "run"} => held.bound
    /\ \A b \in Bind : /\ bind[b] \in {"stored", "verifying"} => held.bound
                       /\ proc = "off" => bind[b] \in {"idle", "done"}

TypeInv == ServerTypes /\ GatewayTypes /\ HistoryTypes /\ TokensNameCodes /\ RequestsHaveTokens
              /\ BeatsNameCodes

LEMMA TypeOKHolds == TypeInv => TypeOK
  BY DEF TypeInv, ServerTypes, GatewayTypes, HistoryTypes, TypeOK, Req, Beat, Step

LEMMA Nothing ==
    /\ NoToken \in TokenRow /\ NoGateway \in GatewayRow /\ NoFactory \in FactoryRow
    /\ NoRequest \in Req /\ NoBeat \in Beat /\ Unbound \in Settings
    /\ NoRegister \in [code : MaybeCode, status : Requested, row : GatewayRow]
<1>1. 0 \in Secret
  BY ConstantsOK DEF Secret
<1> QED
  BY <1>1 DEF NoToken, NoGateway, NoFactory, NoRequest, NoBeat, NoRegister, Unbound, TokenRow, GatewayRow,
     FactoryRow, TokenStatus, GatewayStatus, Requested, FactoryStatus, MaybeCode, MaybeDevice, Settings, Req, Beat

LEMMA TypeInit == Init => TypeInv
<1> SUFFICES ASSUME Init PROVE TypeInv
  OBVIOUS
<1>1. 0 \in Secret /\ 0 \in 0..MaxTrouble
  BY ConstantsOK DEF Secret
<1>2. [NoFactory EXCEPT !.status = "DISABLED"] \in FactoryRow
  BY Nothing DEF FactoryRow, FactoryStatus
<1>3. ServerTypes
  BY <1>1, <1>2, Nothing DEF Init, ServerTypes
<1>4. GatewayTypes
  BY Nothing DEF Init, GatewayTypes, Step
<1>5. HistoryTypes
  BY <1>1 DEF Init, HistoryTypes, MaybeDevice
<1>6. TokensNameCodes /\ RequestsHaveTokens
  BY DEF Init, TokensNameCodes, CodesNamed, NoneEnds, RequestsHaveTokens, NoToken, NoRequest
<1>7. BeatsNameCodes
  BY ConstantsOK DEF Init, BeatsNameCodes, NoBeat, Unbound, Bound, Client
<1> QED
  BY <1>3, <1>4, <1>5, <1>6, <1>7 DEF TypeInv

-----------------------------------------------------------------------------
(* Tokens and requests *)

(* A token keeps its code and its device.                                  *)
TokensStay ==
    \A t \in Token : token[t].status # "NONE" =>
        token'[t].status # "NONE" /\ token'[t].code = token[t].code /\ token'[t].device = token[t].device

LEMMA NewTokenEffect ==
    ASSUME ServerTypes, TokensNameCodes, NEW t \in Token, NEW c \in Code, NEW d \in MaybeDevice, NewToken(t, c, d),
           UNCHANGED ending
    PROVE  token' \in [Token -> TokenRow] /\ TokensStay /\ TokensNameCodes'
<1>1. [status |-> "PENDING", code |-> c, device |-> d] \in TokenRow
  BY DEF TokenRow, TokenStatus, MaybeCode
<1> QED
  BY <1>1 DEF NewToken, ServerTypes, TokensNameCodes, CodesNamed, NoneEnds, TokensStay

LEMMA TokenStatusEffect ==
    ASSUME ServerTypes, TokensNameCodes, NEW t \in Token, NEW s \in TokenStatus \ {"NONE"},
           token[t].status # "NONE", token' = [token EXCEPT ![t].status = s],
           UNCHANGED ending \/ ending' = [ending EXCEPT ![t] = "PENDING"]
    PROVE  token' \in [Token -> TokenRow] /\ TokensStay /\ TokensNameCodes'
  BY DEF ServerTypes, TokensNameCodes, CodesNamed, NoneEnds, TokensStay, TokenRow

LEMMA RequestsKeepTokens ==
    ASSUME RequestsHaveTokens, TokensStay,
           \A r \in Request : \/ req'[r].phase = "free"
                              \/ req'[r].token = req[r].token /\ req[r].phase # "free"
                              \/ req'[r].token \in Token /\ token'[req'[r].token].status # "NONE"
    PROVE  RequestsHaveTokens'
  BY DEF RequestsHaveTokens, TokensStay

LEMMA AnswerEffect ==
    ASSUME GatewayTypes, NEW r \in Request, NEW a \in {"ok", "error"}
    PROVE  /\ Answer(r, a) \in [Request -> Req]
           /\ \A q \in Request \ {r} : Answer(r, a)[q] = req[q]
           /\ Answer(r, a)[r] = IF req[r].from \in {"api", "cli"} THEN [req[r] EXCEPT !.phase = a] ELSE NoRequest
  BY Nothing DEF Answer, GatewayTypes, Req

LEMMA CommittedAnswer ==
    ASSUME GatewayTypes, NEW r \in Request, NEW n,
           req' = [Answer(r, "ok") EXCEPT ![r].secret = IF req[r].from \in {"api", "cli"} THEN n ELSE 0]
    PROVE  /\ \A q \in Request \ {r} : req'[q] = req[q]
           /\ req[r].from \in {"api", "cli"} =>
                 req'[r].phase = "ok" /\ req'[r].token = req[r].token /\ req'[r].secret = n
           /\ req[r].from \notin {"api", "cli"} => req'[r].phase = "free"
<1> DEFINE a == Answer(r, "ok")
           s == IF req[r].from \in {"api", "cli"} THEN n ELSE 0
<1>1. /\ a \in [Request -> Req] /\ \A q \in Request \ {r} : a[q] = req[q]
      /\ a[r] = IF req[r].from \in {"api", "cli"} THEN [req[r] EXCEPT !.phase = "ok"] ELSE NoRequest
  BY AnswerEffect
<1>2. req[r] \in Req
  BY DEF GatewayTypes
<1>3. /\ req[r].from \in {"api", "cli"} => a[r].phase = "ok" /\ a[r].token = req[r].token
      /\ req[r].from \notin {"api", "cli"} => a[r].phase = "free"
  BY <1>1, <1>2 DEF Req, NoRequest
<1>4. req' = [a EXCEPT ![r].secret = s]
  OBVIOUS
<1>5. req[r].from \in {"api", "cli"} => s = n
  OBVIOUS
<1> HIDE DEF a, s
<1>6. (\A q \in Request \ {r} : req'[q] = a[q]) /\ req'[r] = [a[r] EXCEPT !.secret = s] /\ a[r] \in Req
  BY <1>1, <1>4
<1>7. req'[r].phase = a[r].phase /\ req'[r].token = a[r].token /\ req'[r].secret = s
  BY <1>6 DEF Req
<1> QED
  BY <1>1, <1>3, <1>5, <1>6, <1>7

(* A request is given up: it goes on without its client, or is forgotten.  *)
GivenUp(r) ==
    /\ \A q \in Request \ {r} : req'[q] = req[q]
    /\ req'[r] \in {NoRequest, [req[r] EXCEPT !.from = Nobody]}
    /\ req[r].phase \in {"free", "ok", "error"} => req'[r] = NoRequest

LEMMA AbandonEffect ==
    ASSUME GatewayTypes, HistoryTypes, TokensNameCodes, RequestsHaveTokens, NEW r \in Request, Abandon(r)
    PROVE  /\ req' \in [Request -> Req]
           /\ disturbed' \subseteq Code /\ disturbed \subseteq disturbed'
           /\ GivenUp(r)
           /\ req[r].phase = "ok" => CodeOf(r) \in disturbed'
<1>1. /\ req' = [req EXCEPT ![r] = IF req[r].phase \in {"sent", "checked"}
                                    THEN [req[r] EXCEPT !.from = Nobody] ELSE NoRequest]
      /\ disturbed' = IF req[r].phase = "ok" THEN disturbed \union {CodeOf(r)} ELSE disturbed
  BY DEF Abandon
<1>2. [req[r] EXCEPT !.from = Nobody] \in Req
  BY DEF GatewayTypes, Req
<1>3. req[r].phase = "ok" => CodeOf(r) \in Code
  BY DEF CodeOf, TokensNameCodes, CodesNamed, NoneEnds, RequestsHaveTokens
<1> QED
  BY <1>1, <1>2, <1>3, Nothing DEF GatewayTypes, HistoryTypes, GivenUp, Req

LEMMA SendEffect ==
    ASSUME GatewayTypes, RequestsHaveTokens, NEW r \in Request, NEW t \in Token, NEW d \in MaybeDevice,
           NEW from \in Client, SendActivation(r, t, d, from), UNCHANGED token
    PROVE  /\ req' \in [Request -> Req]
           /\ \A q \in Request \ {r} : req'[q] = req[q]
           /\ req[r].phase = "free" /\ req'[r].phase = "sent" /\ req'[r].token = t
           /\ RequestsHaveTokens'
<1>1. [NoRequest EXCEPT !.phase = "sent", !.from = from, !.token = t, !.device = d] \in Req
  BY Nothing DEF Req
<1> QED
  BY <1>1 DEF SendActivation, GatewayTypes, RequestsHaveTokens, NoRequest

LEMMA TroubleCounts == troubles \in 0..MaxTrouble /\ Trouble => troubles' \in 0..MaxTrouble
  BY ConstantsOK DEF Trouble

LEMMA StoreEffect ==
    ASSUME ServerTypes, HistoryTypes, NEW c \in Code, NEW status \in Requested, NEW seen \in GatewayRow,
           NEW d \in MaybeDevice, StoreSecret(c, status, seen, d)
    PROVE  /\ issued' \in Secret /\ issued' = issued + 1
           /\ gateway' \in [Code -> GatewayRow]
           /\ \A x \in Code \ {c} : gateway'[x] = gateway[x]
           /\ gateway'[c] = [status |-> Written(gateway[c].status, seen.status, status), secret |-> issued + 1,
                             device |-> Written(gateway[c].device, seen.device, d)]
           /\ crossed' \subseteq Secret /\ crossed \subseteq crossed'
           /\ gateway[c] # seen \/ (beat.phase = "checked" /\ beat.code = c) => issued + 1 \in crossed'
<1> DEFINE new == [status |-> Written(gateway[c].status, seen.status, status), secret |-> issued + 1,
                   device |-> Written(gateway[c].device, seen.device, d)]
<1>1. /\ issued < MaxSecret /\ issued' = issued + 1
      /\ gateway' = [gateway EXCEPT ![c] = new]
      /\ crossed' = IF gateway[c] # seen \/ (beat.phase = "checked" /\ beat.code = c)
                     THEN crossed \union {issued + 1} ELSE crossed
  BY DEF StoreSecret
<1>2. issued + 1 \in Secret
  BY <1>1, ConstantsOK DEF ServerTypes, Secret
<1>3. new \in GatewayRow
  BY <1>2 DEF GatewayRow, GatewayStatus, Written, ServerTypes
<1> HIDE DEF new
<1>4. gateway' \in [Code -> GatewayRow] /\ gateway'[c] = new /\ \A x \in Code \ {c} : gateway'[x] = gateway[x]
  BY <1>1, <1>3 DEF ServerTypes
<1> QED
  BY <1>1, <1>2, <1>4 DEF HistoryTypes, new

-----------------------------------------------------------------------------
(* Most steps leave alone what the properties are about: they store no     *)
(* secret, read no row and change none of a device.  A request they answer *)
(* is no longer about to commit; if its answer had a secret, it is lost.   *)
QuietRequest(r) ==
    \/ req'[r] = req[r]
    \/ req'[r].phase \notin {"checked", "ok"} /\ (req[r].phase = "ok" => CodeOf(r) \in disturbed')
    \/ req[r].phase = "checked" /\ req'[r] = [req[r] EXCEPT !.from = Nobody]

QuietBeat ==
    beat'.phase = "checked" =>
        /\ beat.phase = "checked" /\ beat'.code = beat.code /\ beat'.secret = beat.secret
        /\ beat'.row = beat.row /\ beat'.dev = beat.dev

EndedStay ==
    \A t \in Token : token[t].status \notin {"NONE", "PENDING"} => token'[t].status \notin {"NONE", "PENDING"}

Quiet ==
    /\ TokensStay /\ EndedStay
    /\ UNCHANGED <<gateway, factory, latest, uses, doubled, heard, spoken, declared, crossed, env>>
    /\ disturbed \subseteq disturbed'
    /\ \A r \in Request : QuietRequest(r)
    /\ QuietBeat

(* The steps that do more                                                  *)
Loud ==
    \/ \E t \in Token, c \in Code, d \in Device : PrepareProvisioning(d, c, t)
    \/ RegisterGateway
    \/ \E r \in Request : CheckActivation(r) \/ CommitActivation(r) \/ CliStores(r)
    \/ \E b \in Bind, r \in Request : StoreConfig(b, r)
    \/ CheckBeat \/ \E arrives \in BOOLEAN : CommitBeat(arrives)

LEMMA SameTokens == UNCHANGED token => TokensStay /\ EndedStay
  BY DEF TokensStay, EndedStay

(* Steps of the server alone *)
LEMMA ServerStep ==
    ASSUME TypeInv, UNCHANGED <<req, beat, envVars, bindVars>>, ServerTypes', HistoryTypes', TokensNameCodes',
           TokensStay
    PROVE  TypeInv'
<1>1. GatewayTypes' /\ BeatsNameCodes'
  BY DEF TypeInv, GatewayTypes, BeatsNameCodes, Bound, envVars, bindVars
<1>2. RequestsHaveTokens'
  BY RequestsKeepTokens DEF TypeInv, RequestsHaveTokens
<1> QED
  BY <1>1, <1>2 DEF TypeInv

(* Steps that leave the server's rows alone *)
LEMMA RequestStep ==
    ASSUME TypeInv, UNCHANGED <<rowVars, register, tokenVars, latest, uses, doubled, heard, spoken, declared, crossed>>,
           troubles' \in 0..MaxTrouble, disturbed' \subseteq Code, GatewayTypes', RequestsHaveTokens',
           BeatsNameCodes'
    PROVE  TypeInv'
  BY DEF TypeInv, ServerTypes, HistoryTypes, TokensNameCodes, CodesNamed, NoneEnds, rowVars, tokenVars

LEMMA TokenSteps ==
    ASSUME TypeInv, NEW t \in Token, TokenStep(t)
    PROVE  TypeInv' /\ (Quiet \/ Loud)
<1> USE DEF TypeInv, rowVars, tokenVars, history
<1>0. \A r \in Request : req' = req => QuietRequest(r)
  BY DEF QuietRequest
<1>1. CASE PassExpiry(t)
  <2>1. HistoryTypes' /\ ServerTypes' /\ TokensNameCodes' /\ TokensStay /\ EndedStay
    BY <1>1, TroubleCounts, SameTokens DEF PassExpiry, HistoryTypes, ServerTypes, TokensNameCodes, CodesNamed, NoneEnds
  <2> QED
    BY <1>0, <1>1, <2>1, ServerStep DEF PassExpiry, Quiet, QuietBeat, envVars
<1>2. CASE ReadForRevoke(t)
  <2>1. HistoryTypes' /\ ServerTypes' /\ TokensNameCodes' /\ TokensStay /\ EndedStay
    BY <1>2, TroubleCounts, SameTokens DEF ReadForRevoke, HistoryTypes, ServerTypes, TokensNameCodes, CodesNamed, NoneEnds
  <2> QED
    BY <1>0, <1>2, <2>1, ServerStep DEF ReadForRevoke, Quiet, QuietBeat, envVars
<1>3. CASE ReadForListing(t)
  <2>1. HistoryTypes' /\ ServerTypes' /\ TokensNameCodes' /\ TokensStay /\ EndedStay
    BY <1>3, SameTokens DEF ReadForListing, HistoryTypes, ServerTypes, TokensNameCodes, CodesNamed, NoneEnds
  <2> QED
    BY <1>0, <1>3, <2>1, ServerStep DEF ReadForListing, Quiet, QuietBeat, envVars
<1>4. CASE CommitEnding(t)
  <2>1. /\ ending[t] \in {"REVOKED", "EXPIRED"} /\ token[t].status # "NONE"
        /\ token' = [token EXCEPT ![t].status = ending[t]] /\ ending' = [ending EXCEPT ![t] = "PENDING"]
    BY <1>4 DEF CommitEnding, ServerTypes, TokensNameCodes, CodesNamed, NoneEnds
  <2>2. token' \in [Token -> TokenRow] /\ TokensStay /\ TokensNameCodes'
    BY <2>1, TokenStatusEffect DEF TokenStatus
  <2>3. EndedStay
    BY <2>1, <2>2 DEF EndedStay, ServerTypes
  <2>4. HistoryTypes' /\ ServerTypes'
    BY <1>4, <2>1, <2>2 DEF CommitEnding, HistoryTypes, ServerTypes
  <2> QED
    BY <1>0, <1>4, <2>2, <2>3, <2>4, ServerStep DEF CommitEnding, Quiet, QuietBeat, envVars
<1>5. ASSUME NEW c \in Code, CreateToken(t, c) PROVE TypeInv' /\ Quiet
  <2>1. NewToken(t, c, NoDevice) /\ UNCHANGED <<overdue, ending, rowVars, register, req, beat, envVars, bindVars, history, disturbed, troubles>>
    BY <1>5 DEF CreateToken
  <2>2. token' \in [Token -> TokenRow] /\ TokensStay /\ TokensNameCodes'
    BY <2>1, NewTokenEffect DEF MaybeDevice
  <2>3. EndedStay
    BY <2>1 DEF EndedStay, NewToken, ServerTypes
  <2>4. HistoryTypes' /\ ServerTypes'
    BY <2>1, <2>2 DEF HistoryTypes, ServerTypes
  <2> QED
    BY <1>0, <2>1, <2>2, <2>3, <2>4, ServerStep DEF Quiet, QuietBeat, envVars
<1>6. ASSUME NEW c \in Code, NEW d \in Device, PrepareProvisioning(d, c, t) PROVE TypeInv' /\ Loud
  <2>1. PICK x \in Code : NewToken(t, x, d)
    BY <1>6 DEF PrepareProvisioning
  <2>2. /\ factory' = [factory EXCEPT ![d].status = "PENDING_BIND"]
        /\ UNCHANGED <<overdue, ending, gateway, issued, register, req, beat, envVars, bindVars, history, disturbed, troubles>>
    BY <1>6 DEF PrepareProvisioning
  <2>3. token' \in [Token -> TokenRow] /\ TokensStay /\ TokensNameCodes'
    BY <2>1, <2>2, NewTokenEffect DEF MaybeDevice
  <2>4. factory' \in [Device -> FactoryRow]
    BY <2>2 DEF ServerTypes, FactoryRow, FactoryStatus
  <2>5. HistoryTypes' /\ ServerTypes'
    BY <2>2, <2>3, <2>4 DEF HistoryTypes, ServerTypes
  <2> QED
    BY <1>6, <2>2, <2>3, <2>5, ServerStep DEF Loud
<1> QED
  BY <1>1, <1>2, <1>3, <1>4, <1>5, <1>6 DEF TokenStep

LEMMA RegisterSteps ==
    ASSUME TypeInv, RegisterStep
    PROVE  TypeInv' /\ (Quiet \/ Loud)
<1> USE DEF TypeInv, rowVars, tokenVars, history
<1>1. ASSUME NEW c \in Code, NEW status \in Requested, ReadForRegister(c, status)
      PROVE  TypeInv' /\ Quiet
  <2>1. HistoryTypes' /\ ServerTypes' /\ TokensNameCodes' /\ TokensStay /\ EndedStay
    BY <1>1, TroubleCounts, SameTokens DEF ReadForRegister, HistoryTypes, ServerTypes, TokensNameCodes, CodesNamed, NoneEnds, MaybeCode
  <2>2. \A r \in Request : QuietRequest(r)
    BY <1>1 DEF ReadForRegister, QuietRequest
  <2> QED
    BY <1>1, <2>1, <2>2, ServerStep DEF ReadForRegister, Quiet, QuietBeat, envVars
<1>2. CASE RegisterGateway
  <2> DEFINE c == register.code
  <2>1. c \in Code /\ register.row \in GatewayRow /\ register.row.device \in MaybeDevice
        /\ register.status \in Requested
    BY <1>2 DEF RegisterGateway, ServerTypes, MaybeCode, GatewayRow
  <2>2. register' = NoRegister /\ UNCHANGED <<tokenVars, req, beat, envVars, bindVars, uses, doubled, latest, heard, spoken, troubles>>
    BY <1>2 DEF RegisterGateway
  <2>3. \/ UNCHANGED <<rowVars, declared, crossed, disturbed>>
        \/ /\ StoreSecret(c, register.status, register.row, register.row.device)
           /\ declared' \subseteq declared \union {issued + 1}
           /\ disturbed' = disturbed \union {c} /\ UNCHANGED factory
    BY <1>2 DEF RegisterGateway
  <2>4. HistoryTypes' /\ ServerTypes'
    <3>1. CASE UNCHANGED <<rowVars, declared, crossed, disturbed>>
      BY <2>2, <3>1, Nothing DEF HistoryTypes, ServerTypes
    <3>2. CASE /\ StoreSecret(c, register.status, register.row, register.row.device)
               /\ declared' \subseteq declared \union {issued + 1}
               /\ disturbed' = disturbed \union {c} /\ UNCHANGED factory
      <4>1. issued' \in Secret /\ issued' = issued + 1 /\ gateway' \in [Code -> GatewayRow] /\ crossed' \subseteq Secret
        BY <2>1, <3>2, StoreEffect
      <4> QED
        BY <2>1, <2>2, <3>2, <4>1, Nothing DEF HistoryTypes, ServerTypes
    <3> QED
      BY <2>3, <3>1, <3>2
  <2>5. TokensNameCodes' /\ TokensStay
    BY <2>2, SameTokens DEF TokensNameCodes, CodesNamed, NoneEnds
  <2> QED
    BY <1>2, <2>2, <2>4, <2>5, ServerStep DEF Loud
<1> QED
  BY <1>1, <1>2 DEF RegisterStep

LEMMA SentOn ==
    ASSUME TypeInv, NEW r \in Request, req[r].phase \in {"sent", "checked"}
    PROVE  /\ req[r].token \in Token /\ CodeOf(r) \in Code
           /\ Effective(r) \in MaybeDevice
           /\ token[req[r].token].status # "NONE"
  BY DEF TypeInv, RequestsHaveTokens, TokensNameCodes, CodesNamed, NoneEnds, CodeOf, Effective, ServerTypes, GatewayTypes, TokenRow, Req

LEMMA BeatsStay ==
    ASSUME BeatsNameCodes, UNCHANGED <<beat, envVars, bind>>
    PROVE  BeatsNameCodes'
  BY DEF BeatsNameCodes, Bound, envVars

LEMMA ActivationSteps ==
    ASSUME TypeInv, NEW r \in Request, ActivationStep(r)
    PROVE  TypeInv' /\ (Quiet \/ Loud)
<1> USE DEF TypeInv, rowVars, tokenVars, history, bindVars
<1>1. CASE CheckActivation(r)
  <2> DEFINE new == [req[r] EXCEPT !.phase = "checked", !.row = gateway[CodeOf(r)],
                                   !.dev = IF Effective(r) = NoDevice THEN NoFactory ELSE factory[Effective(r)]]
  <2>1. /\ req[r].phase = "sent" /\ req' = [req EXCEPT ![r] = new] /\ doubled' \subseteq doubled \union {req[r].token}
        /\ UNCHANGED <<tokenVars, rowVars, register, beat, envVars, bindVars, uses, latest, heard, spoken, declared, crossed, disturbed, troubles>>
    BY <1>1 DEF CheckActivation
  <2>2. req[r].token \in Token /\ CodeOf(r) \in Code /\ Effective(r) \in MaybeDevice
    BY <2>1, SentOn
  <2>3. new \in Req /\ new.token = req[r].token
    BY <2>2, Nothing DEF Req, ServerTypes, GatewayTypes, MaybeDevice
  <2> HIDE DEF new
  <2>4. GatewayTypes' /\ RequestsHaveTokens'
    BY <2>1, <2>3 DEF GatewayTypes, RequestsHaveTokens, envVars
  <2>5. ServerTypes' /\ HistoryTypes' /\ TokensNameCodes'
    BY <2>1, <2>2 DEF ServerTypes, HistoryTypes, TokensNameCodes, CodesNamed, NoneEnds
  <2> QED
    BY <1>1, <2>1, <2>4, <2>5, BeatsStay DEF Loud
<1>2. ASSUME RefuseActivation(r) \/ FailActivation(r) PROVE TypeInv' /\ Quiet
  <2>1. /\ req[r].phase \in {"sent", "checked"} /\ req' = Answer(r, "error")
        /\ UNCHANGED <<overdue, ending, rowVars, register, beat, envVars, bindVars, history, disturbed, troubles>>
    BY <1>2 DEF RefuseActivation, FailActivation
  <2>2. \/ UNCHANGED token
        \/ token[req[r].token].status # "NONE" /\ token' = [token EXCEPT ![req[r].token].status = "EXPIRED"]
    BY <1>2 DEF RefuseActivation, FailActivation
  <2>3. req[r].token \in Token
    BY <2>1, SentOn
  <2>4. token' \in [Token -> TokenRow] /\ TokensStay /\ TokensNameCodes' /\ EndedStay
    <3>1. CASE UNCHANGED token
      BY <2>1, <3>1, SameTokens DEF ServerTypes, TokensNameCodes, CodesNamed, NoneEnds
    <3>2. CASE token[req[r].token].status # "NONE" /\ token' = [token EXCEPT ![req[r].token].status = "EXPIRED"]
      <4>1. token' \in [Token -> TokenRow] /\ TokensStay /\ TokensNameCodes'
        <5>1. PICK t \in Token : t = req[r].token
          BY <2>3
        <5>2. token[t].status # "NONE" /\ token' = [token EXCEPT ![t].status = "EXPIRED"] /\ UNCHANGED ending
          BY <2>1, <3>2, <5>1
        <5>3. "EXPIRED" \in TokenStatus \ {"NONE"} /\ ServerTypes /\ TokensNameCodes
          BY DEF TokenStatus
        <5> QED
          BY <5>2, <5>3, TokenStatusEffect
      <4> QED
        BY <2>3, <3>2, <4>1 DEF EndedStay, ServerTypes
    <3> QED
      BY <2>2, <3>1, <3>2
  <2>5. /\ req' \in [Request -> Req] /\ \A q \in Request \ {r} : req'[q] = req[q]
        /\ req'[r] = NoRequest \/ req'[r] = [req[r] EXCEPT !.phase = "error"]
    BY <2>1, AnswerEffect
  <2>6. req'[r].phase \in {"free", "error"} /\ (req'[r].phase = "free" \/ req'[r].token = req[r].token)
    BY <2>5 DEF GatewayTypes, Req, NoRequest
  <2>7. RequestsHaveTokens'
    BY <2>1, <2>4, <2>5, <2>6 DEF RequestsHaveTokens, TokensStay
  <2>8. \A q \in Request : QuietRequest(q)
    BY <2>1, <2>5, <2>6 DEF QuietRequest
  <2>9. ServerTypes' /\ HistoryTypes' /\ GatewayTypes'
    BY <2>1, <2>4, <2>5 DEF ServerTypes, HistoryTypes, GatewayTypes, envVars
  <2> QED
    BY <2>1, <2>4, <2>7, <2>8, <2>9, BeatsStay DEF Quiet, QuietBeat, envVars
<1>3. CASE CommitActivation(r)
  <2> DEFINE t == req[r].token
             c == CodeOf(r)
             d == Effective(r)
  <2>1. /\ req[r].phase = "checked" /\ StoreSecret(c, "ACTIVE", req[r].row, d)
        /\ factory' = IF req[r].dev.status = "NONE" THEN factory
                       ELSE [factory EXCEPT ![d].status = Written(@, req[r].dev.status, "BOUND"),
                                            ![d].gateway = Written(@, req[r].dev.gateway, c)]
        /\ token' = [token EXCEPT ![t].status = "USED"]
        /\ req' = [Answer(r, "ok") EXCEPT ![r].secret = IF req[r].from \in {"api", "cli"} THEN issued + 1 ELSE 0]
        /\ uses' = [uses EXCEPT ![t] = @ + 1]
        /\ latest' = [latest EXCEPT ![c] = IF gateway[c] = req[r].row THEN d ELSE NoDevice]
        /\ disturbed' \subseteq disturbed \union {c}
        /\ UNCHANGED <<overdue, ending, register, beat, envVars, bindVars, doubled, heard, spoken, declared, troubles>>
    BY <1>3 DEF CommitActivation
  <2>2. t \in Token /\ c \in Code /\ d \in MaybeDevice /\ token[t].status # "NONE" /\ req[r].row \in GatewayRow
    BY <2>1, SentOn DEF GatewayTypes, Req
  <2>3. issued' \in Secret /\ issued' = issued + 1 /\ gateway' \in [Code -> GatewayRow] /\ crossed' \subseteq Secret
    BY <2>1, <2>2, StoreEffect DEF Requested
  <2>4. token' \in [Token -> TokenRow] /\ TokensStay /\ TokensNameCodes'
    BY <2>1, <2>2, TokenStatusEffect DEF TokenStatus
  <2>5. factory' \in [Device -> FactoryRow]
    <3> DEFINE s == Written(factory[d].status, req[r].dev.status, "BOUND")
               g == Written(factory[d].gateway, req[r].dev.gateway, c)
    <3>1. factory' = factory \/ factory' = [factory EXCEPT ![d].status = s, ![d].gateway = g]
      BY <2>1
    <3>2. ASSUME d \in Device PROVE s \in FactoryStatus /\ g \in MaybeCode
      BY <2>2, <3>2 DEF ServerTypes, FactoryRow, FactoryStatus, MaybeCode, Written
    <3> HIDE DEF s, g, d
    <3> QED
      BY <3>1, <3>2 DEF ServerTypes, FactoryRow
  <2>6. latest' \in [Code -> MaybeDevice] /\ uses' \in [Token -> Nat]
    <3> HIDE DEF d, c, t
    <3> QED
      BY <2>1, <2>2 DEF HistoryTypes, MaybeDevice
  <2>7. HistoryTypes' /\ ServerTypes'
    BY <2>1, <2>2, <2>3, <2>4, <2>5, <2>6 DEF HistoryTypes, ServerTypes
  <2>8. /\ req' \in [Request -> Req] /\ \A q \in Request \ {r} : req'[q] = req[q]
        /\ req'[r].phase = "free" \/ req'[r].token = t
    <3>1. /\ Answer(r, "ok") \in [Request -> Req] /\ \A q \in Request \ {r} : Answer(r, "ok")[q] = req[q]
          /\ Answer(r, "ok")[r] = IF req[r].from \in {"api", "cli"} THEN [req[r] EXCEPT !.phase = "ok"] ELSE NoRequest
      BY AnswerEffect
    <3> DEFINE s == IF req[r].from \in {"api", "cli"} THEN issued + 1 ELSE 0
               a == Answer(r, "ok")
    <3>2. s \in Secret
      BY <2>3, ConstantsOK DEF Secret
    <3>3. a[r].phase = "free" \/ a[r].token = t
      BY <3>1 DEF Req, GatewayTypes, NoRequest
    <3>4. req' = [a EXCEPT ![r].secret = s]
      BY <2>1
    <3> HIDE DEF s, a
    <3>5. a \in [Request -> Req] /\ \A q \in Request \ {r} : a[q] = req[q]
      BY <3>1 DEF a
    <3> QED
      BY <3>2, <3>3, <3>4, <3>5 DEF Req
  <2>9. RequestsHaveTokens' /\ GatewayTypes'
    BY <2>1, <2>2, <2>4, <2>8 DEF RequestsHaveTokens, TokensStay, GatewayTypes, envVars
  <2> QED
    BY <1>3, <2>1, <2>4, <2>7, <2>9, BeatsStay DEF Loud
<1> QED
  BY <1>1, <1>2, <1>3 DEF ActivationStep

LEMMA BeatEndsEffect ==
    ASSUME GatewayTypes, BeatsNameCodes, NEW succeeds \in BOOLEAN, BeatEnds(succeeds), UNCHANGED <<req, bindVars>>
    PROVE  GatewayTypes' /\ BeatsNameCodes' /\ beat'.phase = "free" /\ env' = env
<1>1. /\ beat' = NoBeat /\ env' = env /\ held' = held /\ cfg' \in {cfg, "ONLINE"}
      /\ proc' = IF beat.from = "start" THEN "run" ELSE proc
  BY DEF BeatEnds
<1>2. NoBeat.phase = "free" /\ NoBeat.from # "start"
  BY ConstantsOK DEF NoBeat
<1> QED
  BY <1>1, <1>2, Nothing DEF GatewayTypes, BeatsNameCodes, Bound, bindVars

LEMMA BeatSteps ==
    ASSUME TypeInv, BeatStep \/ LoseBeat
    PROVE  TypeInv' /\ (Quiet \/ Loud)
<1> USE DEF TypeInv, rowVars, tokenVars, history
<1>0. /\ UNCHANGED req => \A r \in Request : QuietRequest(r)
      /\ UNCHANGED req /\ UNCHANGED token => RequestsHaveTokens'
  BY DEF QuietRequest, RequestsHaveTokens
<1>1. CASE CheckBeat
  <2> DEFINE new == [beat EXCEPT !.phase = "checked", !.row = gateway[beat.code],
                                 !.dev = IF gateway[beat.code].device = NoDevice THEN NoFactory
                                         ELSE factory[gateway[beat.code].device]]
  <2>1. /\ beat.phase = "sent" /\ beat' = new
        /\ UNCHANGED <<tokenVars, rowVars, register, req, envVars, bindVars, history, disturbed, troubles>>
    BY <1>1 DEF CheckBeat
  <2>2. beat.code \in Code
    BY <2>1 DEF BeatsNameCodes
  <2>3. gateway[beat.code] \in GatewayRow /\ gateway[beat.code].device \in MaybeDevice
    BY <2>2 DEF ServerTypes, GatewayRow
  <2>4. /\ new \in Beat /\ new.code = beat.code /\ new.from = beat.from
        /\ new.dev.status # "NONE" => new.row.device \in Device
    <3>1. new.row = gateway[beat.code] /\ (gateway[beat.code].device = NoDevice => new.dev = NoFactory)
      BY DEF Beat, GatewayTypes
    <3> QED
      BY <2>3, <3>1, Nothing DEF Beat, ServerTypes, GatewayTypes, MaybeDevice, NoFactory
  <2> HIDE DEF new
  <2>5. GatewayTypes' /\ BeatsNameCodes'
    BY <2>1, <2>2, <2>4 DEF GatewayTypes, BeatsNameCodes, Bound, envVars, bindVars
  <2> QED
    BY <1>0, <1>1, <2>1, <2>5, RequestStep DEF Loud, ServerTypes, HistoryTypes
<1>2. ASSUME RefuseBeat \/ LoseBeat PROVE TypeInv' /\ Quiet
  <2>1. /\ BeatEnds(FALSE) /\ UNCHANGED <<tokenVars, rowVars, register, req, bindVars, history, disturbed>>
        /\ troubles' \in 0..MaxTrouble
    BY <1>2, TroubleCounts DEF RefuseBeat, LoseBeat, HistoryTypes
  <2>2. GatewayTypes' /\ BeatsNameCodes' /\ beat'.phase = "free" /\ env' = env
    BY <2>1, BeatEndsEffect
  <2>3. TypeInv'
    BY <1>0, <2>1, <2>2, RequestStep DEF HistoryTypes
  <2> QED
    BY <1>0, <2>1, <2>2, <2>3, SameTokens DEF Quiet, QuietBeat
<1>3. ASSUME NEW arrives \in BOOLEAN, CommitBeat(arrives) PROVE TypeInv' /\ Loud
  <2> DEFINE c == beat.code
             d == beat.row.device
  <2>1. /\ beat.phase = "checked"
        /\ gateway' = [gateway EXCEPT ![c].status = Written(@, beat.row.status, "ONLINE")]
        /\ factory' = IF beat.dev.status = "NONE" THEN factory
                       ELSE [factory EXCEPT ![d].status = Written(@, beat.dev.status, "ONLINE"),
                                            ![d].gateway = Written(@, beat.dev.gateway, c)]
        /\ heard' = heard \union {beat.secret}
        /\ spoken' = IF beat.dev.status = "NONE" THEN spoken ELSE spoken \union {d}
        /\ BeatEnds(arrives)
        /\ UNCHANGED <<tokenVars, issued, register, req, bindVars, uses, doubled, latest, declared, crossed, disturbed, troubles>>
    BY <1>3 DEF CommitBeat
  <2>2. /\ c \in Code /\ beat.secret \in Secret
        /\ beat.dev.status # "NONE" => d \in Device
    BY <2>1 DEF BeatsNameCodes, GatewayTypes, Beat
  <2>3. gateway' \in [Code -> GatewayRow]
    <3> DEFINE s == Written(gateway[c].status, beat.row.status, "ONLINE")
    <3>1. gateway' = [gateway EXCEPT ![c].status = s]
      BY <2>1
    <3>2. s \in GatewayStatus
      BY <2>2 DEF ServerTypes, GatewayRow, GatewayStatus, Requested, Written
    <3> HIDE DEF s
    <3> QED
      BY <3>1, <3>2 DEF ServerTypes, GatewayRow
  <2>4. factory' \in [Device -> FactoryRow]
    <3> DEFINE s == Written(factory[d].status, beat.dev.status, "ONLINE")
               g == Written(factory[d].gateway, beat.dev.gateway, c)
    <3>1. factory' = factory \/ factory' = [factory EXCEPT ![d].status = s, ![d].gateway = g]
      BY <2>1
    <3>2. ASSUME d \in Device PROVE s \in FactoryStatus /\ g \in MaybeCode
      BY <2>2, <3>2 DEF ServerTypes, FactoryRow, FactoryStatus, MaybeCode, Written
    <3> HIDE DEF s, g, d
    <3> QED
      BY <3>1, <3>2 DEF ServerTypes, FactoryRow
  <2>5. ServerTypes' /\ HistoryTypes' /\ TokensNameCodes'
    BY <2>1, <2>2, <2>3, <2>4 DEF ServerTypes, HistoryTypes, TokensNameCodes, CodesNamed, NoneEnds
  <2>6. GatewayTypes' /\ BeatsNameCodes'
    BY <2>1, BeatEndsEffect
  <2> QED
    BY <1>0, <1>3, <2>1, <2>5, <2>6 DEF Loud
<1> QED
  BY <1>1, <1>2, <1>3 DEF BeatStep

(* A beat that is sent is not yet checked.                                 *)
LEMMA SendBeatEffect ==
    ASSUME GatewayTypes, NEW from \in {"api", "start", "run", Nobody}, NEW c \in Code, NEW key,
           key.code = c, key.secret \in Secret, SendBeat(from, key)
    PROVE  /\ beat' \in Beat /\ beat'.phase = "sent" /\ beat'.code = c /\ beat'.from = from
<1>1. [NoBeat EXCEPT !.phase = "sent", !.from = from, !.code = key.code, !.secret = key.secret] \in Beat
  BY Nothing DEF Beat, MaybeCode
<1> QED
  BY <1>1 DEF SendBeat, Signed, NoBeat

LEMMA SendBeatSteps ==
    ASSUME TypeInv, RunBeat \/ (\E c \in Code : OutsideBeat(c)) \/ \E b \in Bind : VerifyBind(b)
    PROVE  TypeInv' /\ Quiet
<1> USE DEF TypeInv, rowVars, tokenVars, history
<1>1. /\ UNCHANGED <<tokenVars, rowVars, register, req, envVars, session, history, disturbed, troubles>>
      /\ \/ bind' = bind
         \/ \E b \in Bind : bind[b] = "stored" /\ bind' = [bind EXCEPT ![b] = "verifying"]
  BY DEF RunBeat, OutsideBeat, VerifyBind, bindVars
<1> DEFINE Sent == /\ beat' \in Beat /\ beat'.phase = "sent" /\ beat'.code \in Code
                   /\ beat'.from = "start" => proc = "start"
<1>2. Sent
  <2>1. CASE RunBeat
    <3>1. proc \in {"start", "run"} /\ SendBeat(proc, held)
      BY <2>1 DEF RunBeat
    <3>2. held.code \in Code /\ held.secret \in Secret
      BY <3>1 DEF BeatsNameCodes, Bound, GatewayTypes, Settings
    <3> QED
      BY <3>1, <3>2, SendBeatEffect
  <2>2. ASSUME NEW c \in Code, OutsideBeat(c) PROVE Sent
    <3> DEFINE key == [code |-> c, secret |-> gateway[c].secret]
    <3>1. SendBeat(Nobody, key)
      BY <2>2 DEF OutsideBeat
    <3>2. key.code = c /\ key.secret \in Secret
      BY DEF ServerTypes, GatewayRow
    <3> HIDE DEF key
    <3>3. beat' \in Beat /\ beat'.phase = "sent" /\ beat'.code = c /\ beat'.from = Nobody
      BY <3>1, <3>2, SendBeatEffect
    <3> QED
      BY <3>3, ConstantsOK
  <2>3. ASSUME NEW b \in Bind, VerifyBind(b) PROVE Sent
    <3>1. SendBeat("api", held) /\ bind[b] = "stored"
      BY <2>3 DEF VerifyBind
    <3>2. held.code \in Code /\ held.secret \in Secret
      BY <3>1 DEF BeatsNameCodes, Bound, GatewayTypes, Settings
    <3>3. beat' \in Beat /\ beat'.phase = "sent" /\ beat'.code = held.code /\ beat'.from = "api"
      BY <3>1, <3>2, SendBeatEffect
    <3> QED
      BY <3>2, <3>3
  <2> QED
    BY <2>1, <2>2, <2>3
<1>3. GatewayTypes' /\ BeatsNameCodes'
  BY <1>1, <1>2 DEF GatewayTypes, BeatsNameCodes, Bound, envVars, Step
<1>4. TypeInv'
  BY <1>1, <1>3, RequestStep DEF HistoryTypes, RequestsHaveTokens
<1> QED
  BY <1>1, <1>2, <1>4, SameTokens DEF Quiet, QuietRequest, QuietBeat, envVars

(* Steps that do nothing to a request but send it or give it up *)
LEMMA SendQuiet ==
    ASSUME TypeInv, NEW r \in Request, \A q \in Request \ {r} : req'[q] = req[q], req[r].phase = "free",
           req'[r].phase = "sent"
    PROVE  \A q \in Request : QuietRequest(q)
  BY DEF QuietRequest

LEMMA GiveUpQuiet ==
    ASSUME TypeInv, NEW r \in Request, GivenUp(r), req[r].phase = "ok" => CodeOf(r) \in disturbed'
    PROVE  /\ \A q \in Request : QuietRequest(q)
           /\ UNCHANGED token => RequestsHaveTokens'
<1>1. req[r] \in Req /\ NoRequest.phase = "free"
  BY DEF TypeInv, GatewayTypes, NoRequest
<1>2. /\ QuietRequest(r)
      /\ \/ req'[r].phase = "free"
         \/ req'[r].token = req[r].token /\ req'[r].phase = req[r].phase
  BY <1>1 DEF GivenUp, QuietRequest, Req
<1> QED
  BY <1>2 DEF GivenUp, QuietRequest, TypeInv, RequestsHaveTokens

LEMMA SendSteps ==
    ASSUME TypeInv, NEW r \in Request, NEW t \in Token,
           \/ CliActivate(t, r)
           \/ \E d \in MaybeDevice : OutsideActivate(t, r, d)
           \/ \E b \in Bind : ForwardBind(b, t, r)
    PROVE  TypeInv' /\ Quiet
<1> USE DEF TypeInv, rowVars, tokenVars, history
<1>1. \E d \in MaybeDevice, from \in Client : SendActivation(r, t, d, from)
  BY DEF CliActivate, OutsideActivate, ForwardBind, MaybeDevice, Client
<1>2. /\ UNCHANGED <<tokenVars, rowVars, register, beat, envVars, history, disturbed>>
      /\ troubles' \in 0..MaxTrouble
      /\ \/ UNCHANGED bindVars
         \/ \E b \in Bind : /\ bind[b] = "admitted" /\ bind' = [bind EXCEPT ![b] = "activating"]
                            /\ session' = [session EXCEPT ![b] = "PENDING"]
  BY TroubleCounts DEF CliActivate, OutsideActivate, ForwardBind, HistoryTypes
<1>3. /\ req' \in [Request -> Req]
      /\ \A q \in Request \ {r} : req'[q] = req[q]
      /\ req[r].phase = "free" /\ req'[r].phase = "sent" /\ req'[r].token = t
      /\ RequestsHaveTokens'
  BY <1>1, <1>2, SendEffect
<1>4. GatewayTypes' /\ BeatsNameCodes'
  BY <1>2, <1>3 DEF GatewayTypes, BeatsNameCodes, Bound, envVars, bindVars, Step
<1>5. TypeInv'
  BY <1>2, <1>3, <1>4, RequestStep DEF HistoryTypes
<1>6. \A q \in Request : QuietRequest(q)
  BY <1>3, SendQuiet
<1> QED
  BY <1>2, <1>5, <1>6, SameTokens DEF Quiet, QuietBeat, envVars

LEMMA GiveUpSteps ==
    ASSUME TypeInv, NEW r \in Request,
           CliFails(r) \/ \E b \in Bind : BindFails(b, r) \/ StoreFails(b, r)
    PROVE  TypeInv' /\ Quiet
<1> USE DEF TypeInv, rowVars, tokenVars, history
<1>1. /\ Abandon(r) /\ UNCHANGED <<tokenVars, rowVars, register, beat, envVars, history>>
      /\ troubles' \in 0..MaxTrouble
      /\ \/ UNCHANGED bindVars
         \/ \E b \in Bind : /\ bind' = [bind EXCEPT ![b] = "done"]
                            /\ session' \in {session, [session EXCEPT ![b] = "FAILED"]}
  BY TroubleCounts DEF CliFails, BindFails, StoreFails, HistoryTypes, bindVars
<1>2. /\ req' \in [Request -> Req] /\ GivenUp(r)
      /\ disturbed' \subseteq Code /\ disturbed \subseteq disturbed'
      /\ req[r].phase = "ok" => CodeOf(r) \in disturbed'
  BY <1>1, AbandonEffect
<1>3. GatewayTypes' /\ BeatsNameCodes'
  BY <1>1, <1>2 DEF GatewayTypes, BeatsNameCodes, Bound, envVars, bindVars, Step
<1>4. RequestsHaveTokens' /\ \A q \in Request : QuietRequest(q)
  BY <1>1, <1>2, GiveUpQuiet
<1>5. TypeInv'
  BY <1>1, <1>2, <1>3, <1>4, RequestStep
<1> QED
  BY <1>1, <1>2, <1>4, <1>5, SameTokens DEF Quiet, QuietBeat, envVars

LEMMA StopStep ==
    ASSUME TypeInv, Stop
    PROVE  TypeInv' /\ Quiet
<1> USE DEF TypeInv, rowVars, tokenVars, history
<1>1. /\ proc' = "off" /\ held' = Unbound
      /\ bind' = [b \in Bind |-> IF bind[b] = "idle" THEN "idle" ELSE "done"]
      /\ beat' = [beat EXCEPT !.from = Nobody]
      /\ troubles' \in 0..MaxTrouble
      /\ UNCHANGED <<env, cfg, tokenVars, rowVars, register, session, history>>
  BY TroubleCounts DEF Stop, HistoryTypes
<1>2. (UNCHANGED <<req, disturbed>>) \/ \E r \in Request : Abandon(r)
  BY DEF Stop
<1> DEFINE Goal == /\ req' \in [Request -> Req]
                   /\ disturbed' \subseteq Code /\ disturbed \subseteq disturbed'
                   /\ RequestsHaveTokens' /\ \A q \in Request : QuietRequest(q)
<1>3. Goal
  <2>1. CASE UNCHANGED <<req, disturbed>>
    BY <1>1, <2>1 DEF GatewayTypes, HistoryTypes, RequestsHaveTokens, QuietRequest
  <2>2. ASSUME NEW r \in Request, Abandon(r) PROVE Goal
    <3>1. /\ req' \in [Request -> Req] /\ GivenUp(r)
          /\ disturbed' \subseteq Code /\ disturbed \subseteq disturbed'
          /\ req[r].phase = "ok" => CodeOf(r) \in disturbed'
      BY <2>2, AbandonEffect
    <3> QED
      BY <1>1, <3>1, GiveUpQuiet
  <2> QED
    BY <1>2, <2>1, <2>2
<1>4. /\ beat' \in Beat /\ beat'.from = Nobody /\ beat'.phase = beat.phase /\ beat'.code = beat.code
      /\ beat'.secret = beat.secret /\ beat'.row = beat.row /\ beat'.dev = beat.dev
  BY <1>1 DEF GatewayTypes, Beat
<1>5. GatewayTypes'
  BY <1>1, <1>3, <1>4, Nothing DEF GatewayTypes, Step
<1>6. BeatsNameCodes'
  BY <1>1, <1>4, ConstantsOK DEF BeatsNameCodes, Bound, Unbound
<1>7. TypeInv'
  BY <1>1, <1>3, <1>5, <1>6, RequestStep
<1> QED
  BY <1>1, <1>3, <1>4, <1>7, SameTokens DEF Quiet, QuietBeat

(* The other steps of the gateway that only it takes part in *)
LEMMA LocalSteps ==
    ASSUME TypeInv,
           \/ StartProvisioning \/ StartRun
           \/ \E b \in Bind : AdmitBind(b) \/ RejectBody(b) \/ CompleteBind(b)
    PROVE  TypeInv' /\ Quiet
<1> USE DEF TypeInv, rowVars, tokenVars, history, SyncConfig
<1>1. /\ UNCHANGED <<tokenVars, rowVars, register, req, beat, env, history, disturbed>>
      /\ troubles' \in 0..MaxTrouble
  BY TroubleCounts DEF StartProvisioning, StartRun, AdmitBind, RejectBody, CompleteBind, HistoryTypes, envVars
<1>2. GatewayTypes'
  BY <1>1 DEF StartProvisioning, StartRun, AdmitBind, RejectBody, CompleteBind, GatewayTypes, envVars, bindVars, Step
<1>3. BeatsNameCodes'
  <2>1. CASE StartProvisioning
    BY <2>1 DEF StartProvisioning, BeatsNameCodes, Bound, bindVars
  <2>2. CASE StartRun
    BY <2>2 DEF StartRun, BeatsNameCodes, Bound, bindVars
  <2>3. ASSUME NEW b \in Bind, AdmitBind(b) \/ RejectBody(b) \/ CompleteBind(b) PROVE BeatsNameCodes'
    <3>1. /\ \/ bind' = [bind EXCEPT ![b] = "admitted"] /\ proc = "api"
             \/ bind' = [bind EXCEPT ![b] = "done"]
          /\ UNCHANGED <<beat, envVars>>
      BY <2>3 DEF AdmitBind, RejectBody, CompleteBind
    <3> QED
      BY <3>1 DEF BeatsNameCodes, Bound, GatewayTypes, envVars
  <2> QED
    BY <2>1, <2>2, <2>3
<1>4. TypeInv'
  BY <1>1, <1>2, <1>3, RequestStep DEF RequestsHaveTokens, HistoryTypes
<1> QED
  BY <1>1, <1>4, SameTokens DEF Quiet, QuietBeat, QuietRequest

LEMMA StoreSteps ==
    ASSUME TypeInv, NEW r \in Request, CliStores(r) \/ \E b \in Bind : StoreConfig(b, r)
    PROVE  TypeInv' /\ Loud
<1> USE DEF TypeInv, rowVars, tokenVars, history, SyncConfig
<1>1. /\ req[r].phase = "ok" /\ env' = NewEnv(r) /\ req' = [req EXCEPT ![r] = NoRequest]
      /\ UNCHANGED <<proc, tokenVars, rowVars, register, beat, session, history, disturbed, troubles>>
      /\ \/ UNCHANGED <<held, cfg, bind>>
         \/ /\ held' = NewEnv(r) /\ cfg' = "BOUND"
            /\ \E b \in Bind : bind[b] = "activating" /\ bind' = [bind EXCEPT ![b] = "stored"]
  BY DEF CliStores, StoreConfig, WriteEnv, bindVars
<1>2. CodeOf(r) \in Code
  BY <1>1 DEF RequestsHaveTokens, CodesNamed, TokensNameCodes, CodeOf
<1>3. NewEnv(r) \in Settings /\ NewEnv(r).bound /\ NewEnv(r).code \in Code
  BY <1>2 DEF NewEnv, Settings, GatewayTypes, Req, MaybeCode
<1>4. GatewayTypes'
  BY <1>1, <1>3, Nothing DEF GatewayTypes, Step
<1>5. BeatsNameCodes'
  BY <1>1, <1>3 DEF BeatsNameCodes, Bound, GatewayTypes
<1>6. RequestsHaveTokens'
  BY <1>1 DEF RequestsHaveTokens, GatewayTypes, NoRequest
<1>7. TypeInv'
  BY <1>1, <1>4, <1>5, <1>6, RequestStep DEF HistoryTypes
<1> QED
  BY <1>7 DEF Loud

LEMMA StepKinds == TypeInv /\ [Next]_vars => TypeInv' /\ (Quiet \/ Loud)
<1> SUFFICES ASSUME TypeInv, [Next]_vars PROVE TypeInv' /\ (Quiet \/ Loud)
  OBVIOUS
<1>1. CASE UNCHANGED vars
  <2>1. TypeInv'
    BY <1>1 DEF vars, rowVars, tokenVars, history, envVars, bindVars, TypeInv, ServerTypes, GatewayTypes, HistoryTypes,
       TokensNameCodes, CodesNamed, NoneEnds, RequestsHaveTokens, BeatsNameCodes, Bound
  <2> QED
    BY <1>1, <2>1, SameTokens DEF vars, rowVars, tokenVars, history, envVars, Quiet, QuietRequest, QuietBeat
<1>2. CASE Next
  BY <1>2, TokenSteps, RegisterSteps, ActivationSteps, BeatSteps, SendBeatSteps, SendSteps, GiveUpSteps, StopStep,
     LocalSteps, StoreSteps DEF Next, BindStep
<1> QED
  BY <1>1, <1>2

-----------------------------------------------------------------------------
(* A token that two requests have not found PENDING at once: at most one   *)
(* request is about to use it, and none that could follows its use.        *)
Checked(r, t) == req[r].phase = "checked" /\ req[r].token = t

OneUse(t) ==
    t \notin doubled =>
        /\ uses[t] <= 1
        /\ uses[t] # 0 => token[t].status \notin {"NONE", "PENDING"}
        /\ \A r \in Request : Checked(r, t) => uses[t] = 0
        /\ \A r, q \in Request : Checked(r, t) /\ Checked(q, t) => r = q

TokenInv == \A t \in Token : OneUse(t)

LEMMA TokenInvKept ==
    ASSUME TypeInv, TokenInv, UNCHANGED <<uses, doubled>>, EndedStay,
           \A r \in Request, t \in Token : Checked(r, t)' => Checked(r, t)
    PROVE  TokenInv'
  BY DEF TokenInv, OneUse, EndedStay

LEMMA NewTokenEnds ==
    ASSUME TypeInv, NEW t \in Token, NEW c, NEW d, NewToken(t, c, d)
    PROVE  EndedStay
  BY DEF NewToken, EndedStay, TypeInv, ServerTypes

LEMMA TokenInvStep == TypeInv /\ TypeInv' /\ TokenInv /\ (Quiet \/ Loud) => TokenInv'
<1> SUFFICES ASSUME TypeInv, TypeInv', TokenInv, Quiet \/ Loud PROVE TokenInv'
  OBVIOUS
<1> USE DEF rowVars, tokenVars, history
<1>0. (UNCHANGED req) => \A r \in Request, t \in Token : Checked(r, t)' => Checked(r, t)
  BY DEF Checked
<1>1. CASE Quiet
  <2>1. \A r \in Request, t \in Token : Checked(r, t)' => Checked(r, t)
    BY <1>1 DEF Quiet, QuietRequest, Checked, TypeInv, GatewayTypes, Req
  <2> QED
    BY <1>1, <2>1, TokenInvKept DEF Quiet
<1>2. ASSUME NEW t \in Token, NEW c \in Code, NEW d \in Device, PrepareProvisioning(d, c, t) PROVE TokenInv'
  <2>1. EndedStay /\ UNCHANGED <<uses, doubled, req>>
    BY <1>2, NewTokenEnds DEF PrepareProvisioning
  <2> QED
    BY <1>0, <2>1, TokenInvKept
<1>3. CASE RegisterGateway \/ CheckBeat \/ \E arrives \in BOOLEAN : CommitBeat(arrives)
  <2>1. UNCHANGED <<token, uses, doubled, req>>
    BY <1>3 DEF RegisterGateway, CheckBeat, CommitBeat
  <2> QED
    BY <1>0, <2>1, SameTokens, TokenInvKept
<1>4. ASSUME NEW r \in Request, CliStores(r) \/ \E b \in Bind : StoreConfig(b, r) PROVE TokenInv'
  <2>1. UNCHANGED <<token, uses, doubled>> /\ req' = [req EXCEPT ![r] = NoRequest]
    BY <1>4 DEF CliStores, StoreConfig
  <2>2. \A q \in Request, t \in Token : Checked(q, t)' => Checked(q, t)
    BY <2>1 DEF Checked, TypeInv, GatewayTypes, NoRequest
  <2> QED
    BY <2>1, <2>2, SameTokens, TokenInvKept
<1>5. ASSUME NEW r \in Request, CheckActivation(r) PROVE TokenInv'
  <2>1. /\ req[r].phase = "sent" /\ token[req[r].token].status = "PENDING"
        /\ UNCHANGED <<token, uses>>
        /\ doubled' = IF \E q \in Request \ {r} : req[q].phase = "checked" /\ req[q].token = req[r].token
                       THEN doubled \union {req[r].token} ELSE doubled
    BY <1>5 DEF CheckActivation, Permitted, Activatable
  <2>2. /\ \A q \in Request \ {r} : req'[q] = req[q]
        /\ req'[r].token = req[r].token
    BY <1>5 DEF CheckActivation, TypeInv, GatewayTypes, Req
  <2>3. ASSUME NEW t \in Token, t \notin doubled' PROVE OneUse(t)'
    <3>1. t \notin doubled /\ (t = req[r].token => \A q \in Request \ {r} : ~ Checked(q, t))
      BY <2>1, <2>3 DEF Checked
    <3>2. OneUse(t) /\ uses[t] \in Nat
      BY DEF TokenInv, TypeInv, HistoryTypes
    <3>3. \A q \in Request : Checked(q, t)' => Checked(q, t) \/ (q = r /\ t = req[r].token)
      BY <2>2 DEF Checked
    <3>4. t = req[r].token => uses[t] = 0
      BY <2>1, <3>1, <3>2 DEF OneUse
    <3> QED
      BY <2>1, <3>1, <3>2, <3>3, <3>4 DEF OneUse
  <2> QED
    BY <2>3 DEF TokenInv, OneUse
<1>6. ASSUME NEW r \in Request, CommitActivation(r) PROVE TokenInv'
  <2> PICK u : u = req[r].token
    OBVIOUS
  <2>1. /\ Checked(r, u) /\ token' = [token EXCEPT ![u].status = "USED"]
        /\ uses' = [uses EXCEPT ![u] = @ + 1] /\ UNCHANGED doubled
        /\ req' = [Answer(r, "ok") EXCEPT ![r].secret = IF req[r].from \in {"api", "cli"} THEN issued + 1 ELSE 0]
    BY <1>6 DEF CommitActivation, Checked
  <2>2. u \in Token
    BY <2>1, SentOn DEF Checked
  <2>3. /\ \A q \in Request \ {r} : req'[q] = req[q]
        /\ req'[r].phase # "checked"
    <3>1. GatewayTypes
      BY DEF TypeInv
    <3> QED
      BY <2>1, <3>1, CommittedAnswer
  <2>4. ASSUME NEW t \in Token, t \notin doubled PROVE OneUse(t)'
    <3>1. OneUse(t) /\ uses[t] \in Nat
      BY DEF TokenInv, TypeInv, HistoryTypes
    <3>2. CASE t = u
      <4>1. uses[t] = 0 /\ \A q \in Request : ~ Checked(q, t)'
        BY <2>1, <2>3, <2>4, <3>1, <3>2 DEF OneUse, Checked
      <4>2. uses'[t] = 1 /\ token'[t].status = "USED"
        BY <2>1, <2>2, <3>2, <4>1 DEF TypeInv, HistoryTypes, ServerTypes, TokenRow
      <4> QED
        BY <4>1, <4>2 DEF OneUse
    <3>3. CASE t # u
      <4>1. uses'[t] = uses[t] /\ token'[t] = token[t]
        BY <2>1, <2>2, <3>3 DEF TypeInv, HistoryTypes, ServerTypes
      <4>2. \A q \in Request : Checked(q, t)' => Checked(q, t)
        BY <2>3 DEF Checked
      <4> QED
        BY <2>4, <3>1, <4>1, <4>2 DEF OneUse
    <3> QED
      BY <3>2, <3>3
  <2> QED
    BY <2>1, <2>4 DEF TokenInv, OneUse
<1> QED
  BY <1>1, <1>2, <1>3, <1>4, <1>5, <1>6 DEF Loud

-----------------------------------------------------------------------------
(* The secret of .env, and one that is on its way there, is the server's,  *)
(* or the code is disturbed; so it is when two are on their way.           *)
Agrees(c, secret) == secret = gateway[c].secret \/ c \in disturbed

SecretInv ==
    /\ env.bound => Agrees(env.code, env.secret) \/ Underway(env.code)
    /\ \A r \in Request : req[r].phase = "ok" => Agrees(CodeOf(r), req[r].secret)
    /\ \A r, q \in Request : req[r].phase = "ok" /\ req[q].phase = "ok" /\ r # q /\ CodeOf(r) = CodeOf(q) =>
          CodeOf(r) \in disturbed

(* An answer stays as it is, or its code is disturbed.                     *)
QuietAnswer(r) ==
    \/ req'[r] = req[r]
    \/ req'[r].phase # "ok" /\ (req[r].phase = "ok" => CodeOf(r) \in disturbed')

LEMMA CodesStay ==
    ASSUME TypeInv, TokensStay
    PROVE  \A r \in Request : req[r].phase # "free" =>
              /\ CodeOf(r) \in Code
              /\ req'[r].token = req[r].token => CodeOf(r)' = CodeOf(r)
  BY DEF TypeInv, TokensStay, RequestsHaveTokens, TokensNameCodes, CodesNamed, CodeOf

LEMMA SecretInvKept ==
    ASSUME TypeInv, SecretInv, UNCHANGED env, disturbed \subseteq disturbed', TokensStay,
           \A c \in Code : gateway'[c].secret = gateway[c].secret \/ c \in disturbed',
           \A r \in Request : QuietAnswer(r)
    PROVE  SecretInv'
<1>1. \A r \in Request : req'[r].phase = "ok" =>
         /\ req[r].phase = "ok" /\ req'[r] = req[r] /\ CodeOf(r)' = CodeOf(r) /\ CodeOf(r) \in Code
  BY CodesStay DEF QuietAnswer
<1>2. \A c \in Code, secret \in Secret : Agrees(c, secret) => Agrees(c, secret)'
  BY DEF Agrees
<1>3. ASSUME env.bound PROVE Agrees(env.code, env.secret)' \/ Underway(env.code)'
  <2>1. env.code \in Code /\ env.secret \in Secret
    BY <1>3 DEF TypeInv, BeatsNameCodes, Bound, GatewayTypes, Settings
  <2>2. CASE Agrees(env.code, env.secret)
    BY <2>1, <2>2 DEF Agrees
  <2>3. ASSUME NEW r \in Request, req[r].phase = "ok", CodeOf(r) = env.code
        PROVE  Agrees(env.code, env.secret)' \/ Underway(env.code)'
    <3>1. CASE req'[r] = req[r]
      <4>1. CodeOf(r)' = env.code
        BY <2>3, <3>1, CodesStay
      <4> QED
        BY <2>3, <3>1, <4>1 DEF Underway
    <3>2. CASE CodeOf(r) \in disturbed'
      BY <2>3, <3>2 DEF Agrees
    <3> QED
      BY <2>3, <3>1, <3>2 DEF QuietAnswer
  <2> QED
    BY <1>3, <2>2, <2>3 DEF SecretInv, Underway
<1>4. ASSUME NEW r \in Request, req'[r].phase = "ok" PROVE Agrees(CodeOf(r), req[r].secret)'
  BY <1>1, <1>4 DEF SecretInv, Agrees
<1>5. ASSUME NEW r \in Request, NEW q \in Request, req'[r].phase = "ok", req'[q].phase = "ok", r # q,
             CodeOf(r)' = CodeOf(q)'
      PROVE  CodeOf(r)' \in disturbed'
  BY <1>1, <1>5 DEF SecretInv
<1> QED
  BY <1>3, <1>4, <1>5 DEF SecretInv

LEMMA SecretStep == TypeInv /\ TypeInv' /\ SecretInv /\ (Quiet \/ Loud) => SecretInv'
<1> SUFFICES ASSUME TypeInv, TypeInv', SecretInv, Quiet \/ Loud PROVE SecretInv'
  OBVIOUS
<1> USE DEF rowVars, tokenVars, history
<1>0. (UNCHANGED req) => \A r \in Request : QuietAnswer(r)
  BY DEF QuietAnswer
<1>1. CASE Quiet
  <2>1. \A r \in Request : QuietAnswer(r)
    BY <1>1 DEF Quiet, QuietRequest, QuietAnswer, TypeInv, GatewayTypes, Req
  <2> QED
    BY <1>1, <2>1, SecretInvKept DEF Quiet
<1>2. ASSUME NEW t \in Token, NEW c \in Code, NEW d \in Device, PrepareProvisioning(d, c, t) PROVE SecretInv'
  <2>1. UNCHANGED <<ending, gateway, req, env, disturbed>> /\ \E x \in Code : NewToken(t, x, d)
    BY <1>2 DEF PrepareProvisioning, envVars
  <2>2. TokensStay
    BY <2>1, NewTokenEffect DEF TypeInv, MaybeDevice
  <2> QED
    BY <1>0, <2>1, <2>2, SecretInvKept
<1>3. CASE RegisterGateway
  <2>1. UNCHANGED <<token, env, req>> /\ disturbed \subseteq disturbed'
    BY <1>3 DEF RegisterGateway, envVars
  <2>2. ASSUME NEW c \in Code PROVE gateway'[c].secret = gateway[c].secret \/ c \in disturbed'
    <3>1. \/ gateway' = gateway
          \/ /\ StoreSecret(register.code, register.status, register.row, register.row.device)
             /\ register.code \in disturbed'
      BY <1>3 DEF RegisterGateway
    <3>2. register.code \in Code /\ register.row \in GatewayRow /\ register.row.device \in MaybeDevice
          /\ register.status \in Requested
      BY <1>3 DEF RegisterGateway, TypeInv, ServerTypes, MaybeCode, GatewayRow
    <3>3. StoreSecret(register.code, register.status, register.row, register.row.device) =>
             \A x \in Code \ {register.code} : gateway'[x] = gateway[x]
      BY <3>2, StoreEffect DEF TypeInv
    <3> QED
      BY <3>1, <3>3
  <2> QED
    BY <1>0, <2>1, <2>2, SameTokens, SecretInvKept
<1>4. CASE CheckBeat \/ \E arrives \in BOOLEAN : CommitBeat(arrives)
  <2>1. UNCHANGED <<token, env, req, disturbed>>
    BY <1>4 DEF CheckBeat, CommitBeat, BeatEnds, envVars
  <2>2. ASSUME NEW c \in Code PROVE gateway'[c].secret = gateway[c].secret
    BY <1>4 DEF CheckBeat, CommitBeat, TypeInv, ServerTypes, GatewayRow
  <2> QED
    BY <1>0, <2>1, <2>2, SameTokens, SecretInvKept
<1>5. ASSUME NEW r \in Request, CheckActivation(r) PROVE SecretInv'
  <2>1. UNCHANGED <<token, gateway, env, disturbed>> /\ req[r].phase = "sent"
    BY <1>5 DEF CheckActivation, envVars
  <2>2. \A q \in Request : QuietAnswer(q)
    BY <1>5, <2>1 DEF CheckActivation, QuietAnswer, TypeInv, GatewayTypes, Req
  <2> QED
    BY <2>1, <2>2, SameTokens, SecretInvKept
<1>6. ASSUME NEW r \in Request, CliStores(r) \/ \E b \in Bind : StoreConfig(b, r) PROVE SecretInv'
  <2>1. /\ UNCHANGED <<token, gateway, disturbed>> /\ env' = NewEnv(r) /\ req[r].phase = "ok"
        /\ req' = [req EXCEPT ![r] = NoRequest]
    BY <1>6 DEF CliStores, StoreConfig, WriteEnv
  <2>2. \A q \in Request \ {r} : req'[q] = req[q] /\ CodeOf(q)' = CodeOf(q)
    BY <2>1 DEF TypeInv, GatewayTypes, CodeOf
  <2>3. req'[r].phase # "ok"
    BY <2>1 DEF TypeInv, GatewayTypes, NoRequest
  <2>4. Agrees(env.code, env.secret)'
    BY <2>1 DEF SecretInv, Agrees, NewEnv
  <2> QED
    BY <2>1, <2>2, <2>3, <2>4 DEF SecretInv, Agrees
<1>7. ASSUME NEW r \in Request, CommitActivation(r) PROVE SecretInv'
  <2> PICK c : c = CodeOf(r)
    OBVIOUS
  <2>1. /\ req[r].phase = "checked" /\ StoreSecret(c, "ACTIVE", req[r].row, Effective(r)) /\ UNCHANGED <<env, ending>>
        /\ token' = [token EXCEPT ![req[r].token].status = "USED"]
        /\ req' = [Answer(r, "ok") EXCEPT ![r].secret = IF req[r].from \in {"api", "cli"} THEN issued + 1 ELSE 0]
        /\ disturbed' = IF req[r].from \in {"api", "cli"} /\ ~ Underway(c)
                         THEN disturbed \ {c} ELSE disturbed \union {c}
    BY <1>7 DEF CommitActivation, envVars
  <2>2. c \in Code /\ req[r].row \in GatewayRow /\ Effective(r) \in MaybeDevice /\ req[r].token \in Token
        /\ token[req[r].token].status # "NONE"
    BY <2>1, SentOn DEF TypeInv, GatewayTypes, Req
  <2>3. /\ \A x \in Code \ {c} : gateway'[x] = gateway[x]
        /\ gateway'[c].secret = issued + 1
    <3>1. ServerTypes /\ HistoryTypes /\ "ACTIVE" \in Requested
      BY DEF TypeInv, Requested
    <3>2. PICK seen \in GatewayRow, d \in MaybeDevice : StoreSecret(c, "ACTIVE", seen, d)
      BY <2>1, <2>2
    <3>3. gateway'[c] = [status |-> Written(gateway[c].status, seen.status, "ACTIVE"), secret |-> issued + 1,
                         device |-> Written(gateway[c].device, seen.device, d)]
      BY <2>2, <3>1, <3>2, StoreEffect
    <3>4. \A x \in Code \ {c} : gateway'[x] = gateway[x]
      BY <2>2, <3>1, <3>2, StoreEffect
    <3> QED
      BY <3>3, <3>4
  <2>4. TokensStay
    <3>1. PICK t \in Token : t = req[r].token
      BY <2>2
    <3> QED
      BY <2>1, <2>2, <3>1, TokenStatusEffect DEF TypeInv, TokenStatus
  <2>5. /\ \A q \in Request \ {r} : req'[q] = req[q]
        /\ req'[r].phase = "ok" => req[r].from \in {"api", "cli"} /\ req'[r].secret = issued + 1
        /\ req[r].from \in {"api", "cli"} => req'[r].phase = "ok" /\ req'[r].token = req[r].token
    <3>1. GatewayTypes
      BY DEF TypeInv
    <3> QED
      BY <2>1, <3>1, CommittedAnswer
  <2>6. \A q \in Request \ {r} : req'[q].phase = "ok" => CodeOf(q)' = CodeOf(q) /\ CodeOf(q) \in Code
    BY <2>4, <2>5, CodesStay
  <2>7. req[r].from \in {"api", "cli"} => CodeOf(r)' = c
    BY <2>1, <2>4, <2>5, CodesStay
  <2>8. ASSUME NEW q \in Request, q # r, req'[q].phase = "ok", CodeOf(q) = c PROVE c \in disturbed'
    BY <2>1, <2>5, <2>8 DEF Underway
  <2>9. \A x \in Code \ {c} : x \in disturbed' <=> x \in disturbed
    BY <2>1
  <2>10. ASSUME NEW q \in Request, req'[q].phase = "ok" PROVE Agrees(CodeOf(q), req[q].secret)'
    <3>1. CASE q = r
      BY <2>3, <2>5, <2>7, <2>10, <3>1 DEF Agrees
    <3>2. CASE q # r /\ CodeOf(q) = c
      BY <2>6, <2>8, <2>10, <3>2 DEF Agrees
    <3>3. CASE q # r /\ CodeOf(q) # c
      BY <2>3, <2>5, <2>6, <2>9, <2>10, <3>3 DEF Agrees, SecretInv
    <3> QED
      BY <3>1, <3>2, <3>3
  <2>11. ASSUME NEW p \in Request, NEW q \in Request, req'[p].phase = "ok", req'[q].phase = "ok", p # q,
                CodeOf(p)' = CodeOf(q)'
         PROVE  CodeOf(p)' \in disturbed'
    <3>1. CASE p = r \/ q = r
      BY <2>5, <2>6, <2>7, <2>8, <2>11, <3>1
    <3>2. CASE p # r /\ q # r
      <4>1. CodeOf(p)' = CodeOf(p) /\ CodeOf(q)' = CodeOf(q) /\ CodeOf(p) \in Code /\ CodeOf(p) \in disturbed
        BY <2>5, <2>6, <2>11, <3>2 DEF SecretInv
      <4> QED
        BY <2>8, <2>9, <2>11, <3>2, <4>1
    <3> QED
      BY <3>1, <3>2
  <2>12. ASSUME env.bound PROVE Agrees(env.code, env.secret)' \/ Underway(env.code)'
    <3>1. env.code \in Code
      BY <2>12 DEF TypeInv, BeatsNameCodes, Bound
    <3>2. CASE env.code = c
      <4>1. req[r].from \in {"api", "cli"} => Underway(c)'
        BY <2>5, <2>7 DEF Underway
      <4> QED
        BY <2>1, <3>2, <4>1 DEF Agrees
    <3>3. CASE env.code # c
      <4>1. Agrees(env.code, env.secret) => Agrees(env.code, env.secret)'
        BY <2>1, <2>3, <2>9, <3>1, <3>3 DEF Agrees
      <4>2. ASSUME NEW q \in Request, req[q].phase = "ok", CodeOf(q) = env.code PROVE Underway(env.code)'
        <5>1. q # r /\ req'[q].phase = "ok" /\ CodeOf(q)' = env.code
          BY <2>1, <2>5, <2>6, <4>2
        <5> QED
          BY <2>1, <5>1 DEF Underway
      <4> QED
        BY <2>12, <4>1, <4>2 DEF SecretInv, Underway
    <3> QED
      BY <3>2, <3>3
  <2> QED
    BY <2>1, <2>10, <2>11, <2>12 DEF SecretInv
<1> QED
  BY <1>1, <1>2, <1>3, <1>4, <1>5, <1>6, <1>7 DEF Loud

-----------------------------------------------------------------------------
(* A code's latest device is the one in its row, a device that is bound    *)
(* has a gateway, and it keeps one from the moment a request has read it.  *)
HasGateway(d) == d \in Device /\ factory[d].gateway # NoCode

DeviceInv ==
    /\ \A c \in Code : latest[c] \in {NoDevice, gateway[c].device}
    /\ \A d \in Device : factory[d].status \in {"BOUND", "ONLINE"} => HasGateway(d)
    /\ \A r \in Request : req[r].phase = "checked" /\ req[r].dev.gateway # NoCode => HasGateway(Effective(r))
    /\ beat.phase = "checked" /\ beat.dev.gateway # NoCode => HasGateway(beat.row.device)

GatewaysStay == \A d \in Device : HasGateway(d) => HasGateway(d)'

(* What a request that is about to commit has read                         *)
SameReading(r) ==
    req'[r].phase = "checked" =>
        /\ req[r].phase = "checked" /\ req'[r].token = req[r].token /\ req'[r].device = req[r].device
        /\ req'[r].dev = req[r].dev

LEMMA EffectiveStays ==
    ASSUME TypeInv, TokensStay, NEW r \in Request, req[r].phase # "free",
           req'[r].token = req[r].token, req'[r].device = req[r].device
    PROVE  Effective(r)' = Effective(r)
  BY DEF TypeInv, RequestsHaveTokens, TokensStay, Effective

LEMMA DeviceInvKept ==
    ASSUME TypeInv, DeviceInv, TokensStay, GatewaysStay, QuietBeat,
           \A c \in Code : latest'[c] \in {NoDevice, gateway'[c].device},
           \A d \in Device : factory'[d].status \in {"BOUND", "ONLINE"} => HasGateway(d)',
           \A r \in Request : SameReading(r)
    PROVE  DeviceInv'
<1>1. ASSUME NEW r \in Request, req'[r].phase = "checked", req'[r].dev.gateway # NoCode
      PROVE  HasGateway(Effective(r))'
  <2>1. req[r].phase = "checked" /\ req[r].dev.gateway # NoCode /\ Effective(r)' = Effective(r)
    BY <1>1, EffectiveStays DEF SameReading
  <2>2. PICK d \in Device : d = Effective(r) /\ HasGateway(d)
    BY <2>1 DEF DeviceInv, HasGateway
  <2>3. HasGateway(d)' /\ d = Effective(r)'
    BY <2>1, <2>2 DEF GatewaysStay
  <2> QED
    BY <2>3 DEF HasGateway
<1>2. ASSUME beat'.phase = "checked", beat'.dev.gateway # NoCode
      PROVE  HasGateway(beat.row.device)'
  <2>1. PICK d \in Device : d = beat.row.device /\ HasGateway(d)
    BY <1>2 DEF DeviceInv, HasGateway, QuietBeat
  <2>2. HasGateway(d)' /\ d = beat'.row.device
    BY <1>2, <2>1 DEF GatewaysStay, QuietBeat
  <2> QED
    BY <2>2 DEF HasGateway
<1> QED
  BY <1>1, <1>2 DEF DeviceInv

(* A device gets a gateway with its status.                                *)
LEMMA FactoryWritten ==
    ASSUME factory \in [Device -> FactoryRow], NEW d, NEW w, NEW g,
           factory' = factory \/ factory' = [factory EXCEPT ![d].status = w, ![d].gateway = g],
           d \in Device => g # NoCode,
           \A x \in Device : factory[x].status \in {"BOUND", "ONLINE"} => HasGateway(x)
    PROVE  /\ GatewaysStay
           /\ \A x \in Device : factory'[x].status \in {"BOUND", "ONLINE"} => HasGateway(x)'
<1>1. CASE factory' = factory
  BY <1>1 DEF GatewaysStay, HasGateway
<1>2. CASE factory' = [factory EXCEPT ![d].status = w, ![d].gateway = g]
  <2>1. \A x \in Device : x # d => factory'[x] = factory[x]
    BY <1>2
  <2>2. d \in Device => factory'[d].gateway = g
    BY <1>2 DEF FactoryRow
  <2> QED
    BY <2>1, <2>2 DEF GatewaysStay, HasGateway
<1> QED
  BY <1>1, <1>2

LEMMA DeviceStep == TypeInv /\ TypeInv' /\ DeviceInv /\ (Quiet \/ Loud) => DeviceInv'
<1> SUFFICES ASSUME TypeInv, TypeInv', DeviceInv, Quiet \/ Loud PROVE DeviceInv'
  OBVIOUS
<1> USE DEF rowVars, tokenVars, history
<1>0. /\ (UNCHANGED req) => \A r \in Request : SameReading(r)
      /\ (UNCHANGED beat) => QuietBeat
      /\ (UNCHANGED factory) =>
            GatewaysStay /\ \A d \in Device : factory'[d].status \in {"BOUND", "ONLINE"} => HasGateway(d)'
  BY DEF SameReading, QuietBeat, GatewaysStay, HasGateway, DeviceInv
<1>00. (UNCHANGED <<latest, gateway>>) => \A c \in Code : latest'[c] \in {NoDevice, gateway'[c].device}
  BY DEF DeviceInv
<1>1. CASE Quiet
  <2>1. \A r \in Request : SameReading(r)
    BY <1>1 DEF Quiet, QuietRequest, SameReading, TypeInv, GatewayTypes, Req
  <2> QED
    BY <1>0, <1>00, <1>1, <2>1, DeviceInvKept DEF Quiet
<1>2. ASSUME NEW t \in Token, NEW c \in Code, NEW d \in Device, PrepareProvisioning(d, c, t) PROVE DeviceInv'
  <2>1. /\ UNCHANGED <<ending, gateway, req, beat, latest>> /\ \E x \in Code : NewToken(t, x, d)
        /\ factory' = [factory EXCEPT ![d].status = "PENDING_BIND"]
    BY <1>2 DEF PrepareProvisioning
  <2>2. TokensStay
    BY <2>1, NewTokenEffect DEF TypeInv, MaybeDevice
  <2>3. GatewaysStay /\ \A x \in Device : factory'[x].status \in {"BOUND", "ONLINE"} => HasGateway(x)'
    <3>1. /\ \A x \in Device : factory'[x].gateway = factory[x].gateway
          /\ \A x \in Device \ {d} : factory'[x] = factory[x]
          /\ factory'[d].status = "PENDING_BIND"
      BY <2>1 DEF TypeInv, ServerTypes, FactoryRow
    <3> QED
      BY <3>1 DEF GatewaysStay, HasGateway, DeviceInv
  <2> QED
    BY <1>0, <1>00, <2>1, <2>2, <2>3, DeviceInvKept
<1>3. CASE RegisterGateway
  <2>1. UNCHANGED <<token, req, beat, factory, latest>>
    BY <1>3 DEF RegisterGateway
  <2>2. ASSUME NEW x \in Code PROVE gateway'[x].device = gateway[x].device
    <3>1. gateway' = gateway \/ StoreSecret(register.code, register.status, register.row, register.row.device)
      BY <1>3 DEF RegisterGateway
    <3>2. register.code \in Code /\ register.row \in GatewayRow /\ register.row.device \in MaybeDevice
          /\ register.status \in Requested
      BY <1>3 DEF RegisterGateway, TypeInv, ServerTypes, MaybeCode, GatewayRow
    <3>3. CASE StoreSecret(register.code, register.status, register.row, register.row.device)
      <4> PICK c, status, seen : c = register.code /\ status = register.status /\ seen = register.row
        OBVIOUS
      <4>1. ServerTypes /\ HistoryTypes
        BY DEF TypeInv
      <4>2. /\ \A y \in Code \ {c} : gateway'[y] = gateway[y]
            /\ gateway'[c] = [status |-> Written(gateway[c].status, seen.status, status), secret |-> issued + 1,
                              device |-> Written(gateway[c].device, seen.device, seen.device)]
        BY <3>2, <3>3, <4>1, StoreEffect
      <4> QED
        BY <4>2 DEF Written
    <3> QED
      BY <3>1, <3>3
  <2>3. \A x \in Code : latest'[x] \in {NoDevice, gateway'[x].device}
    BY <2>1, <2>2 DEF DeviceInv
  <2> QED
    BY <1>0, <2>1, <2>3, SameTokens, DeviceInvKept
<1>4. ASSUME NEW r \in Request, CliStores(r) \/ \E b \in Bind : StoreConfig(b, r) PROVE DeviceInv'
  <2>1. UNCHANGED <<token, gateway, factory, beat, latest>> /\ req' = [req EXCEPT ![r] = NoRequest]
    BY <1>4 DEF CliStores, StoreConfig
  <2>2. \A q \in Request : SameReading(q)
    BY <2>1 DEF SameReading, TypeInv, GatewayTypes, NoRequest
  <2> QED
    BY <1>0, <1>00, <2>1, <2>2, SameTokens, DeviceInvKept
<1>5. ASSUME NEW r \in Request, CheckActivation(r) PROVE DeviceInv'
  <2>1. UNCHANGED <<token, gateway, factory, beat, latest>>
    BY <1>5 DEF CheckActivation
  <2>2. /\ \A q \in Request \ {r} : req'[q] = req[q]
        /\ req'[r].token = req[r].token /\ req'[r].device = req[r].device
        /\ req'[r].dev = IF Effective(r) = NoDevice THEN NoFactory ELSE factory[Effective(r)]
        /\ req[r].phase = "sent"
    BY <1>5 DEF CheckActivation, TypeInv, GatewayTypes, Req
  <2>3. Effective(r)' = Effective(r) /\ Effective(r) \in MaybeDevice
    BY <2>1, <2>2, SameTokens, EffectiveStays, SentOn
  <2>4. req'[r].dev.gateway # NoCode => HasGateway(Effective(r))
    BY <2>2, <2>3 DEF HasGateway, NoFactory, MaybeDevice
  <2>5. ASSUME NEW q \in Request \ {r}, req'[q].phase = "checked" PROVE Effective(q)' = Effective(q)
    BY <2>1, <2>2, <2>5, SameTokens, EffectiveStays
  <2>6. \A d : HasGateway(d)' <=> HasGateway(d)
    BY <2>1 DEF HasGateway
  <2>7. \A q \in Request : req'[q].phase = "checked" /\ req'[q].dev.gateway # NoCode => HasGateway(Effective(q)')
    BY <2>2, <2>3, <2>4, <2>5 DEF DeviceInv
  <2>8. \A q \in Request : HasGateway(Effective(q)') => HasGateway(Effective(q))'
    BY <2>1 DEF HasGateway
  <2> QED
    BY <2>1, <2>6, <2>7, <2>8 DEF DeviceInv, HasGateway
<1>6. ASSUME NEW r \in Request, CommitActivation(r) PROVE DeviceInv'
  <2> PICK c, d, seen, dev : c = CodeOf(r) /\ d = Effective(r) /\ seen = req[r].row /\ dev = req[r].dev
    OBVIOUS
  <2>1. /\ req[r].phase = "checked" /\ StoreSecret(c, "ACTIVE", seen, d)
        /\ factory' = IF dev.status = "NONE" THEN factory
                       ELSE [factory EXCEPT ![d].status = Written(@, dev.status, "BOUND"),
                                            ![d].gateway = Written(@, dev.gateway, c)]
        /\ token' = [token EXCEPT ![req[r].token].status = "USED"]
        /\ req' = [Answer(r, "ok") EXCEPT ![r].secret = IF req[r].from \in {"api", "cli"} THEN issued + 1 ELSE 0]
        /\ latest' = [latest EXCEPT ![c] = IF gateway[c] = seen THEN d ELSE NoDevice]
        /\ UNCHANGED <<ending, beat>>
    BY <1>6 DEF CommitActivation
  <2>2. c \in Code /\ seen \in GatewayRow /\ d \in MaybeDevice /\ req[r].token \in Token
        /\ token[req[r].token].status # "NONE"
    BY <2>1, SentOn DEF TypeInv, GatewayTypes, Req
  <2>3. TokensStay
    <3>1. PICK t \in Token : t = req[r].token
      BY <2>2
    <3> QED
      BY <2>1, <2>2, <3>1, TokenStatusEffect DEF TypeInv, TokenStatus
  <2>4. (\A q \in Request \ {r} : req'[q] = req[q]) /\ req'[r].phase # "checked"
    <3>1. GatewayTypes
      BY DEF TypeInv
    <3> QED
      BY <2>1, <3>1, CommittedAnswer
  <2>5. \A q \in Request : SameReading(q)
    BY <2>4 DEF SameReading
  <2>6. GatewaysStay /\ \A x \in Device : factory'[x].status \in {"BOUND", "ONLINE"} => HasGateway(x)'
    <3> DEFINE w == Written(factory[d].status, dev.status, "BOUND")
               g == Written(factory[d].gateway, dev.gateway, c)
    <3>1. /\ factory \in [Device -> FactoryRow] /\ (dev.gateway # NoCode => HasGateway(d))
          /\ \A x \in Device : factory[x].status \in {"BOUND", "ONLINE"} => HasGateway(x)
      BY <2>1 DEF TypeInv, ServerTypes, DeviceInv
    <3>2. factory' = factory \/ factory' = [factory EXCEPT ![d].status = w, ![d].gateway = g]
      BY <2>1
    <3>3. d \in Device => g # NoCode
      BY <2>2, <3>1, ConstantsOK DEF Written, HasGateway
    <3> HIDE DEF w, g
    <3> QED
      BY <3>1, <3>2, <3>3, FactoryWritten
  <2>7. ASSUME NEW x \in Code PROVE latest'[x] \in {NoDevice, gateway'[x].device}
    <3>1. ServerTypes /\ HistoryTypes /\ "ACTIVE" \in Requested
      BY DEF TypeInv, Requested
    <3>2. /\ \A y \in Code \ {c} : gateway'[y] = gateway[y]
          /\ gateway'[c] = [status |-> Written(gateway[c].status, seen.status, "ACTIVE"), secret |-> issued + 1,
                            device |-> Written(gateway[c].device, seen.device, d)]
      BY <2>1, <2>2, <3>1, StoreEffect
    <3>3. CASE x = c
      <4>1. latest'[c] = IF gateway[c] = seen THEN d ELSE NoDevice
        BY <2>1, <2>2, <3>1 DEF HistoryTypes
      <4>2. gateway[c] = seen => gateway'[c].device = d
        BY <3>2 DEF Written
      <4> QED
        BY <3>3, <4>1, <4>2
    <3>4. CASE x # c
      <4>1. latest'[x] = latest[x] /\ gateway'[x] = gateway[x]
        BY <2>1, <2>2, <3>1, <3>2, <3>4 DEF HistoryTypes
      <4> QED
        BY <4>1 DEF DeviceInv
    <3> QED
      BY <3>3, <3>4
  <2> QED
    BY <1>0, <2>1, <2>3, <2>5, <2>6, <2>7, DeviceInvKept
<1>7. CASE CheckBeat
  <2>1. UNCHANGED <<token, gateway, factory, req, latest>>
    BY <1>7 DEF CheckBeat
  <2>2. /\ beat'.row = gateway[beat.code]
        /\ beat'.dev = IF gateway[beat.code].device = NoDevice THEN NoFactory
                        ELSE factory[gateway[beat.code].device]
        /\ beat.phase = "sent"
    BY <1>7 DEF CheckBeat, TypeInv, GatewayTypes, Beat
  <2>3. gateway[beat.code].device \in MaybeDevice
    BY <2>2 DEF TypeInv, BeatsNameCodes, ServerTypes, GatewayRow
  <2>4. beat'.dev.gateway # NoCode => HasGateway(beat'.row.device)
    BY <2>2, <2>3 DEF HasGateway, NoFactory, MaybeDevice
  <2>5. HasGateway(beat'.row.device) => HasGateway(beat.row.device)'
    BY <2>1 DEF HasGateway
  <2>6. \A q \in Request : Effective(q)' = Effective(q) /\ (HasGateway(Effective(q)) => HasGateway(Effective(q))')
    BY <2>1 DEF HasGateway, Effective
  <2> QED
    BY <2>1, <2>4, <2>5, <2>6 DEF DeviceInv, HasGateway
<1>8. ASSUME NEW arrives \in BOOLEAN, CommitBeat(arrives) PROVE DeviceInv'
  <2> PICK c, d, dev : c = beat.code /\ d = beat.row.device /\ dev = beat.dev
    OBVIOUS
  <2>1. /\ beat.phase = "checked"
        /\ gateway' = [gateway EXCEPT ![c].status = Written(@, beat.row.status, "ONLINE")]
        /\ factory' = IF dev.status = "NONE" THEN factory
                       ELSE [factory EXCEPT ![d].status = Written(@, dev.status, "ONLINE"),
                                            ![d].gateway = Written(@, dev.gateway, c)]
        /\ BeatEnds(arrives)
        /\ UNCHANGED <<token, req, latest>>
    BY <1>8 DEF CommitBeat
  <2>2. c \in Code
    BY <2>1 DEF TypeInv, BeatsNameCodes
  <2>3. QuietBeat
    BY <2>1 DEF BeatEnds, QuietBeat, NoBeat
  <2>4. GatewaysStay /\ \A x \in Device : factory'[x].status \in {"BOUND", "ONLINE"} => HasGateway(x)'
    <3> DEFINE w == Written(factory[d].status, dev.status, "ONLINE")
               g == Written(factory[d].gateway, dev.gateway, c)
    <3>1. /\ factory \in [Device -> FactoryRow] /\ (dev.gateway # NoCode => HasGateway(d))
          /\ \A x \in Device : factory[x].status \in {"BOUND", "ONLINE"} => HasGateway(x)
      BY <2>1 DEF TypeInv, ServerTypes, DeviceInv
    <3>2. factory' = factory \/ factory' = [factory EXCEPT ![d].status = w, ![d].gateway = g]
      BY <2>1
    <3>3. d \in Device => g # NoCode
      BY <2>2, <3>1, ConstantsOK DEF Written, HasGateway
    <3>4. PICK v, h : v = w /\ h = g
      OBVIOUS
    <3> HIDE DEF w, g
    <3>5. factory' = factory \/ factory' = [factory EXCEPT ![d].status = v, ![d].gateway = h]
      BY <3>2, <3>4
    <3>6. CASE factory' = factory
      BY <3>1, <3>6 DEF GatewaysStay, HasGateway
    <3>7. CASE factory' = [factory EXCEPT ![d].status = v, ![d].gateway = h]
      <4>1. \A x \in Device : x # d => factory'[x] = factory[x]
        BY <3>1, <3>7
      <4>2. d \in Device => factory'[d].gateway = h
        BY <3>1, <3>7 DEF FactoryRow
      <4>3. d \in Device => HasGateway(d)'
        BY <3>3, <3>4, <4>2 DEF HasGateway
      <4>4. \A x \in Device : x # d => HasGateway(x)' = HasGateway(x)
        BY <4>1 DEF HasGateway
      <4>5. ASSUME NEW x \in Device
            PROVE  /\ HasGateway(x) => HasGateway(x)'
                   /\ factory'[x].status \in {"BOUND", "ONLINE"} => HasGateway(x)'
        BY <3>1, <4>1, <4>3, <4>4, <4>5
      <4> QED
        BY <4>5 DEF GatewaysStay
    <3> QED
      BY <3>5, <3>6, <3>7
  <2>5. \A x \in Code : gateway'[x].device = gateway[x].device
    BY <2>1, <2>2 DEF TypeInv, ServerTypes, GatewayRow
  <2>6. \A x \in Code : latest'[x] \in {NoDevice, gateway'[x].device}
    BY <2>1, <2>5 DEF DeviceInv
  <2> QED
    BY <1>0, <2>1, <2>3, <2>4, <2>6, SameTokens, DeviceInvKept
<1> QED
  BY <1>1, <1>2, <1>3, <1>4, <1>5, <1>6, <1>7, <1>8 DEF Loud

-----------------------------------------------------------------------------
(* A gateway is ONLINE by an administrator's word or by a heartbeat with    *)
(* its secret, which a heartbeat that is about to commit has been checked  *)
(* against.                                                                *)
Known(secret) == secret \in heard \union declared \union crossed

BeatInv ==
    /\ \A c \in Code : gateway[c].status = "ONLINE" => Known(gateway[c].secret)
    /\ beat.phase = "checked" => gateway[beat.code].secret = beat.secret \/ gateway[beat.code].secret \in crossed

LEMMA BeatInvKept ==
    ASSUME TypeInv, BeatInv, UNCHANGED <<gateway, declared>>, heard \subseteq heard', crossed \subseteq crossed', QuietBeat
    PROVE  BeatInv'
  BY DEF BeatInv, Known, QuietBeat

LEMMA StoreBeatInv ==
    ASSUME TypeInv, BeatInv, UNCHANGED <<heard, beat>>, NEW c \in Code, NEW status \in Requested,
           NEW seen \in GatewayRow, NEW d \in MaybeDevice, StoreSecret(c, status, seen, d),
           declared' = IF status = "ONLINE" THEN declared \union {issued + 1} ELSE declared
    PROVE  BeatInv'
<1>1. ServerTypes /\ HistoryTypes
  BY DEF TypeInv
<1>2. /\ \A x \in Code \ {c} : gateway'[x] = gateway[x]
      /\ gateway'[c] = [status |-> Written(gateway[c].status, seen.status, status), secret |-> issued + 1,
                        device |-> Written(gateway[c].device, seen.device, d)]
      /\ crossed \subseteq crossed'
      /\ gateway[c] # seen \/ (beat.phase = "checked" /\ beat.code = c) => issued + 1 \in crossed'
  BY <1>1, StoreEffect
<1>3. ASSUME gateway'[c].status = "ONLINE" PROVE Known(gateway[c].secret)'
  <2>1. CASE status = "ONLINE"
    BY <1>2, <2>1 DEF Known
  <2>2. CASE status # "ONLINE"
    <3>1. gateway[c].status = "ONLINE" /\ seen.status = status
      BY <1>2, <1>3, <2>2 DEF Written
    <3> QED
      BY <1>2, <2>2, <3>1 DEF Known
  <2> QED
    BY <2>1, <2>2
<1>4. \A x \in Code \ {c} : gateway'[x].status = "ONLINE" => Known(gateway[x].secret)'
  BY <1>2 DEF BeatInv, Known
<1>5. beat.phase = "checked" => gateway'[beat.code].secret = beat.secret \/ gateway'[beat.code].secret \in crossed'
  <2>1. beat.phase = "checked" => beat.code \in Code
    BY DEF TypeInv, BeatsNameCodes
  <2> QED
    BY <1>2, <2>1 DEF BeatInv
<1> QED
  BY <1>3, <1>4, <1>5 DEF BeatInv

LEMMA BeatInvStep == TypeInv /\ TypeInv' /\ BeatInv /\ (Quiet \/ Loud) => BeatInv'
<1> SUFFICES ASSUME TypeInv, TypeInv', BeatInv, Quiet \/ Loud PROVE BeatInv'
  OBVIOUS
<1> USE DEF rowVars, tokenVars, history
<1>1. CASE Quiet
  BY <1>1, BeatInvKept DEF Quiet
<1>2. CASE \/ \E t \in Token, c \in Code, d \in Device : PrepareProvisioning(d, c, t)
           \/ \E r \in Request : CheckActivation(r) \/ CliStores(r) \/ \E b \in Bind : StoreConfig(b, r)
  <2>1. UNCHANGED <<gateway, heard, declared, crossed, beat>>
    BY <1>2 DEF PrepareProvisioning, CheckActivation, CliStores, StoreConfig
  <2> QED
    BY <2>1, BeatInvKept DEF QuietBeat
<1>3. CASE RegisterGateway
  <2>1. UNCHANGED <<heard, beat>>
    BY <1>3 DEF RegisterGateway
  <2>2. \/ UNCHANGED <<gateway, declared, crossed>>
        \/ /\ StoreSecret(register.code, register.status, register.row, register.row.device)
           /\ declared' = IF register.status = "ONLINE" THEN declared \union {issued + 1} ELSE declared
    BY <1>3 DEF RegisterGateway
  <2>3. register.code \in Code /\ register.row \in GatewayRow /\ register.row.device \in MaybeDevice
        /\ register.status \in Requested
    BY <1>3 DEF RegisterGateway, TypeInv, ServerTypes, MaybeCode, GatewayRow
  <2>4. CASE /\ StoreSecret(register.code, register.status, register.row, register.row.device)
             /\ declared' = IF register.status = "ONLINE" THEN declared \union {issued + 1} ELSE declared
    BY <2>1, <2>3, <2>4, StoreBeatInv
  <2>5. CASE UNCHANGED <<gateway, declared, crossed>>
    BY <2>1, <2>5, BeatInvKept DEF QuietBeat
  <2> QED
    BY <2>2, <2>4, <2>5
<1>4. ASSUME NEW r \in Request, CommitActivation(r) PROVE BeatInv'
  <2>1. /\ req[r].phase = "checked" /\ StoreSecret(CodeOf(r), "ACTIVE", req[r].row, Effective(r))
        /\ UNCHANGED <<heard, declared, beat>>
    BY <1>4 DEF CommitActivation
  <2>2. CodeOf(r) \in Code /\ req[r].row \in GatewayRow /\ Effective(r) \in MaybeDevice /\ "ACTIVE" \in Requested
    BY <2>1, SentOn DEF TypeInv, GatewayTypes, Req, Requested
  <2> QED
    BY <2>1, <2>2, StoreBeatInv
<1>5. CASE CheckBeat
  <2>1. /\ gateway[beat.code].secret = beat.secret /\ UNCHANGED <<gateway, heard, declared, crossed>>
        /\ beat'.code = beat.code /\ beat'.secret = beat.secret
    BY <1>5 DEF CheckBeat, Authenticated, TypeInv, GatewayTypes, Beat
  <2> QED
    BY <2>1 DEF BeatInv, Known
<1>6. ASSUME NEW arrives \in BOOLEAN, CommitBeat(arrives) PROVE BeatInv'
  <2> PICK c : c = beat.code
    OBVIOUS
  <2>1. /\ beat.phase = "checked"
        /\ gateway' = [gateway EXCEPT ![c].status = Written(@, beat.row.status, "ONLINE")]
        /\ heard' = heard \union {beat.secret} /\ UNCHANGED <<declared, crossed>>
        /\ BeatEnds(arrives)
    BY <1>6 DEF CommitBeat
  <2>2. /\ \A x \in Code \ {c} : gateway'[x] = gateway[x]
        /\ \A x \in Code : gateway'[x].secret = gateway[x].secret
    BY <2>1 DEF TypeInv, ServerTypes, GatewayRow
  <2>3. Known(gateway[c].secret)'
    <3>1. c \in Code
      BY <2>1 DEF TypeInv, BeatsNameCodes
    <3> QED
      BY <2>1, <2>2, <3>1 DEF BeatInv, Known
  <2>4. beat'.phase # "checked"
    BY <2>1 DEF BeatEnds, NoBeat
  <2> QED
    BY <2>1, <2>2, <2>3, <2>4 DEF BeatInv, Known
<1> QED
  BY <1>1, <1>2, <1>3, <1>4, <1>5, <1>6 DEF Loud

-----------------------------------------------------------------------------
(* A device is ONLINE by a heartbeat of its gateway.                       *)
DeviceOnline == \A d \in Device : factory[d].status = "ONLINE" => d \in spoken

LEMMA DeviceOnlineKept ==
    ASSUME TypeInv, DeviceOnline, spoken \subseteq spoken', NEW d, NEW s, NEW g,
           factory' = factory \/ factory' = [factory EXCEPT ![d].status = s, ![d].gateway = g],
           s = "ONLINE" /\ d \in Device => factory[d].status = "ONLINE" \/ d \in spoken'
    PROVE  DeviceOnline'
  BY DEF DeviceOnline, TypeInv, ServerTypes, FactoryRow

LEMMA DeviceOnlineStep == TypeInv /\ DeviceOnline /\ (Quiet \/ Loud) => DeviceOnline'
<1> SUFFICES ASSUME TypeInv, DeviceOnline, Quiet \/ Loud PROVE DeviceOnline'
  OBVIOUS
<1> USE DEF rowVars, tokenVars, history
<1>1. CASE Quiet \/ RegisterGateway \/ (\E r \in Request : CheckActivation(r) \/ CliStores(r)) \/ CheckBeat
           \/ \E b \in Bind, r \in Request : StoreConfig(b, r)
  <2>1. UNCHANGED <<factory, spoken>>
    BY <1>1 DEF Quiet, RegisterGateway, CheckActivation, CliStores, CheckBeat, StoreConfig
  <2> QED
    BY <2>1 DEF DeviceOnline
<1>2. ASSUME NEW t \in Token, NEW c \in Code, NEW d \in Device, PrepareProvisioning(d, c, t) PROVE DeviceOnline'
  BY <1>2 DEF PrepareProvisioning, DeviceOnline, TypeInv, ServerTypes, FactoryRow
<1>3. ASSUME NEW r \in Request, CommitActivation(r) PROVE DeviceOnline'
  <2> DEFINE d == Effective(r)
             s == Written(factory[d].status, req[r].dev.status, "BOUND")
             g == Written(factory[d].gateway, req[r].dev.gateway, CodeOf(r))
  <2>1. /\ factory' = factory \/ factory' = [factory EXCEPT ![d].status = s, ![d].gateway = g]
        /\ UNCHANGED spoken
    BY <1>3 DEF CommitActivation
  <2>2. s = "ONLINE" => factory[d].status = "ONLINE"
    BY DEF Written
  <2> HIDE DEF s, g, d
  <2> QED
    BY <2>1, <2>2, DeviceOnlineKept
<1>4. ASSUME NEW arrives \in BOOLEAN, CommitBeat(arrives) PROVE DeviceOnline'
  <2> DEFINE d == beat.row.device
             s == Written(factory[d].status, beat.dev.status, "ONLINE")
             g == Written(factory[d].gateway, beat.dev.gateway, beat.code)
  <2>1. /\ beat.dev.status = "NONE" => factory' = factory /\ spoken' = spoken
        /\ beat.dev.status # "NONE" => /\ factory' = [factory EXCEPT ![d].status = s, ![d].gateway = g]
                                        /\ spoken' = spoken \union {d}
    BY <1>4 DEF CommitBeat
  <2> HIDE DEF s, g, d
  <2>2. CASE beat.dev.status = "NONE"
    BY <2>1, <2>2 DEF DeviceOnline
  <2>3. CASE beat.dev.status # "NONE"
    BY <2>1, <2>3, DeviceOnlineKept
  <2> QED
    BY <2>2, <2>3
<1> QED
  BY <1>1, <1>2, <1>3, <1>4 DEF Loud

LEMMA InvInit == Init => TokenInv /\ SecretInv /\ DeviceInv /\ BeatInv /\ DeviceOnline
<1> SUFFICES ASSUME Init PROVE TokenInv /\ SecretInv /\ DeviceInv /\ BeatInv /\ DeviceOnline
  OBVIOUS
<1>1. TokenInv
  BY DEF Init, TokenInv, OneUse, Checked, NoRequest
<1>2. SecretInv
  BY DEF Init, SecretInv, Unbound, NoRequest
<1>3. DeviceInv
  BY DEF Init, DeviceInv, NoRequest, NoBeat, NoFactory
<1>4. BeatInv /\ DeviceOnline
  BY DEF Init, BeatInv, DeviceOnline, NoGateway, NoBeat, NoFactory
<1> QED
  BY <1>1, <1>2, <1>3, <1>4

Inv == TypeInv /\ TokenInv /\ SecretInv /\ DeviceInv /\ BeatInv /\ DeviceOnline

LEMMA Invariant == Spec => []Inv
<1>1. Init => Inv
  BY TypeInit, InvInit DEF Inv
<1>2. Inv /\ [Next]_vars => Inv'
  BY StepKinds, TokenInvStep, SecretStep, DeviceStep, BeatInvStep, DeviceOnlineStep DEF Inv
<1> QED
  BY <1>1, <1>2, PTL DEF Spec

(* Every variable of the registration holds values of its kind.            *)
THEOREM TypeCorrect == Spec => []TypeOK
<1>1. Inv => TypeOK
  BY TypeOKHolds DEF Inv
<1> QED
  BY <1>1, Invariant, PTL

(* A registration token is used once, unless two requests had found it     *)
(* pending before either was committed.                                    *)
THEOREM TokensBindOnce == Spec => []TokenBindsOnce
<1>1. Inv => TokenBindsOnce
  BY DEF Inv, TypeInv, HistoryTypes, TokenInv, OneUse, TokenBindsOnce
<1> QED
  BY <1>1, Invariant, PTL

(* The gateway's stored secret is the one the server checks, unless the    *)
(* latest one is on its way, was lost, went elsewhere or was overtaken.    *)
THEOREM StoredSecretsAreCurrent == Spec => []StoredSecretIsCurrent
<1>1. Inv => StoredSecretIsCurrent
  BY DEF Inv, SecretInv, Agrees, StoredSecretIsCurrent
<1> QED
  BY <1>1, Invariant, PTL

(* A bound device's gateway says so, unless it was activated since for     *)
(* another device.                                                         *)
THEOREM BoundDevicesHaveGateways == Spec => []BoundDeviceHasGateway
<1>1. ASSUME Inv, NEW d \in Device, factory[d].status \in {"BOUND", "ONLINE"}
      PROVE  /\ factory[d].gateway # NoCode
             /\ gateway[factory[d].gateway].device = d \/ latest[factory[d].gateway] # d
  <2>1. factory[d].gateway \in Code /\ factory[d].gateway # NoCode
    BY <1>1 DEF Inv, DeviceInv, HasGateway, TypeInv, ServerTypes, FactoryRow, MaybeCode
  <2>2. latest[factory[d].gateway] \in {NoDevice, gateway[factory[d].gateway].device} /\ d # NoDevice
    BY <1>1, <2>1, ConstantsOK DEF Inv, DeviceInv
  <2> QED
    BY <2>1, <2>2
<1>2. Inv => BoundDeviceHasGateway
  BY <1>1 DEF BoundDeviceHasGateway
<1> QED
  BY <1>2, Invariant, PTL

(* ONLINE is confirmed only if a heartbeat with the gateway's present      *)
(* secret was accepted, or that secret was registered as ONLINE or crossed *)
(* a heartbeat, or, where no gateway has the code, the device's gateway    *)
(* was heard under another.                                                *)
THEOREM ConfirmedGatewaysWereHeard == Spec => []ConfirmedOnlineWasHeard
<1>1. ASSUME Inv, NEW d \in Device, NEW c \in Code, ConfirmAnswer(d, c) = "ONLINE"
      PROVE  IF gateway[c].status = "NONE" THEN d \in spoken ELSE Known(gateway[c].secret)
  <2>1. CASE gateway[c].status = "NONE"
    BY <1>1, <2>1 DEF ConfirmAnswer, Inv, DeviceOnline
  <2>2. CASE gateway[c].status # "NONE"
    BY <1>1, <2>2 DEF ConfirmAnswer, Inv, BeatInv
  <2> QED
    BY <2>1, <2>2
<1>2. Inv => ConfirmedOnlineWasHeard
  BY <1>1 DEF ConfirmedOnlineWasHeard, Known
<1> QED
  BY <1>2, Invariant, PTL

=============================================================================
