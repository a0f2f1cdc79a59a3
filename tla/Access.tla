------------------------------- MODULE Access -------------------------------
(***************************************************************************)
(* Who is let in where: src/src/middleware/auth.js over the settings and   *)
(* the agents, the cross-site, host and path-token guards in front of it   *)
(* (server.js), and the one-time codes that open the panel.                *)
(***************************************************************************)
EXTENDS Settings, Agents, Integers

CONSTANTS Placeholder,  \* a token that is nobody's key
          NoToken,
          CODE_TTL, MaxCodes, MaxClock

ASSUME AccessAssumption ==
  /\ {CODE_TTL, MaxCodes, MaxClock} \subseteq Nat
  /\ NoKey \notin [op : Nat]

VARIABLES codes,     \* panelCodes: of each code minted, when it expires, or Gone
          ticks,     \* Date.now()
          unlocked   \* the codes that were traded for the operator key, in
                     \* order, each with its age

accessVars == <<codes, ticks, unlocked>>

Gone == -1
Surfaces == {"model", "sensor", "control"}
OperatorKeys == [op : 0..MaxKeys-1]
AgentKeys == [agent : 1..MaxAgents]
Presented == {Placeholder, NoToken} \cup OperatorKeys \cup AgentKeys

Operator == LET k == getSettings("gateway").key IN IF k = NoKey THEN NoKey ELSE [op |-> k]

modelKeyRequired ==
  LET s == getSettings("gateway")
  IN s.modelAuth = "required" \/ (s.modelAuth = "unset" /\ s.key # NoKey)

(* The agent a token belongs to, as a set of at most one.                  *)
Matched(token) == IF token \in AgentKeys THEN matchAgentKey(token.agent) ELSE {}

(* Mutant: an agent's key opens any surface but the sensors'.              *)
agentGateWide(surface, agent) ==
  IF ~agent.active THEN 401
  ELSE IF (agent.kind = "sensor") = (surface = "sensor") THEN 200 ELSE 403

agentGate(surface, agent) ==
  IF ~agent.active THEN 401
  ELSE IF (agent.kind = "sensor" /\ surface = "sensor") \/ (agent.kind = "agent" /\ surface = "model")
       THEN 200 ELSE 403

requireGatewayKey(surface, token, loopback) ==
  LET agentKeysRequired == (hasAgentKeys /\ surface = "model") \/ (hasSensorKeys /\ surface = "sensor")
      operator == Operator # NoKey /\ token = Operator
      modelLike == surface # "control"
  IN IF Matched(token) # {} THEN agentGate(surface, CHOOSE agent \in Matched(token) : TRUE)
     ELSE IF Operator = NoKey /\ ~agentKeysRequired
     THEN IF isKeyUnreadable("gateway") THEN 503 ELSE 200
     ELSE IF modelLike /\ ~agentKeysRequired /\ ~modelKeyRequired
     THEN IF operator \/ loopback THEN 200 ELSE 401
     ELSE IF operator THEN 200 ELSE 401

(* The endpoints that write secrets, behind the above.                     *)
requireAuthenticatedOrLocal(loopback) ==
  IF Operator # NoKey \/ loopback THEN 200 ELSE 403

(* A request: the name it was addressed to, whether it may change state,   *)
(* the site of the page that made it, and where it carries a token.        *)
Request(host, safe, page, surface, way, token, loopback) ==
  [host |-> host, safe |-> safe, page |-> page, surface |-> surface, way |-> way,
   token |-> token, loopback |-> loopback]

isAllowedHost(r) == r.host \in {"localhost", "listed"}

(* Sec-Fetch-Site, or without it the Origin; a client that is no browser   *)
(* sends neither.                                                          *)
isCrossSite(r) == r.page \in {"cross-site", "other origin", "null origin"}

(* The token moves from the path to the header, and the rest of the path   *)
(* is under /v1.                                                           *)
rewritePathToken(r) == IF r.way = "path" THEN [r EXCEPT !.surface = "model"] ELSE r

Respond(r) ==
  LET moved == rewritePathToken(r)
  IN IF ~isAllowedHost(r) \/ (~r.safe /\ isCrossSite(r)) THEN 403
     ELSE requireGatewayKey(moved.surface, moved.token, moved.loopback)

-----------------------------------------------------------------------------
AccessInit == codes = <<>> /\ ticks = 0 /\ unlocked = <<>>

(* POST /api/panel/login-code, by a caller with the operator key; codes    *)
(* that have expired are dropped.                                          *)
LoginCode ==
  /\ Len(codes) < MaxCodes
  /\ codes' = Append([c \in DOMAIN codes |-> IF codes[c] < ticks THEN Gone ELSE codes[c]],
                     ticks + CODE_TTL)
  /\ UNCHANGED <<ticks, unlocked>>

(* Mutant: the code is dropped when it has expired, not when it is used.   *)
TradeKept ==
  \E c \in DOMAIN codes :
    /\ codes' = [codes EXCEPT ![c] = IF @ < ticks THEN Gone ELSE @]
    /\ unlocked' = IF codes[c] = Gone \/ codes[c] < ticks \/ Operator = NoKey THEN unlocked
                   ELSE Append(unlocked, [code |-> c, age |-> ticks + CODE_TTL - codes[c]])
    /\ UNCHANGED ticks

(* POST /auth/panel-code: gone first, then looked at.                      *)
Trade ==
  \E c \in DOMAIN codes :
    /\ codes' = [codes EXCEPT ![c] = Gone]
    /\ unlocked' = IF codes[c] = Gone \/ codes[c] < ticks \/ Operator = NoKey THEN unlocked
                   ELSE Append(unlocked, [code |-> c, age |-> ticks + CODE_TTL - codes[c]])
    /\ UNCHANGED ticks

AccessTick == ticks < MaxClock /\ ticks' = ticks + 1 /\ UNCHANGED <<codes, unlocked>>

AccessNext == LoginCode \/ Trade \/ AccessTick

(* Settings are saved, agents come and go and codes are traded, in any     *)
(* order.                                                                  *)
GateInit == SettingsInit /\ AgentsInit /\ AccessInit
GateNext ==
  \/ SettingsNext /\ UNCHANGED <<agentsVars, accessVars>>
  \/ AgentsNext /\ UNCHANGED <<settingsVars, accessVars>>
  \/ AccessNext /\ UNCHANGED <<settingsVars, agentsVars>>
GateSpec == GateInit /\ [][GateNext]_<<settingsVars, agentsVars, accessVars>>

-----------------------------------------------------------------------------
(* The agents that have a key and were not revoked.                        *)
Live(kind) == {a \in DOMAIN issued : /\ issued[a] = kind /\ a \notin revoked
                                     /\ matchAgentKey(a) # {}}

(* Who gets in, of everyone who could call, is decided by what the         *)
(* operator saved and whom he named, and by nothing that a process failed  *)
(* to read: the operator everywhere; an agent on the surface of its kind   *)
(* until it is revoked; nobody else from another machine, on the control   *)
(* plane, or where agents have keys; and while the operator key cannot be  *)
(* decrypted no one but agents (auth.js:46, agents.js:35).                 *)
EachByItsKey ==
  \A surface \in Surfaces, token \in Presented, loopback \in BOOLEAN :
    LET served == Respond(Request("localhost", FALSE, "no browser", surface, "header", token, loopback)) = 200
        operator == wanted.key # NoKey /\ token = [op |-> wanted.key]
        kind == IF surface = "model" THEN "agent" ELSE "sensor"
        named == token \in AgentKeys /\ surface # "control" /\ token.agent \in Live(kind)
    IN /\ operator /\ ~isKeyUnreadable("gateway") => served
       /\ named => served
       /\ served /\ ~operator /\ ~named =>
            /\ agentsFile # Corrupt => ~(token \in AgentKeys /\ token.agent \in revoked)
            /\ ~isKeyUnreadable("gateway")
            /\ surface # "control" \/ wanted.key = NoKey
            /\ surface = "control" \/ Live(kind) = {}
            /\ loopback \/ wanted.key = NoKey
       /\ served /\ surface = "control" /\ requireAuthenticatedOrLocal(loopback) = 200 =>
            operator \/ loopback

(* What a page of another site makes a browser send changes nothing,       *)
(* whatever key it carries.                                                *)
NoPageActs ==
  \A page \in {"cross-site", "other origin", "null origin"}, way \in {"header", "path"} :
    Respond(Request("listed", FALSE, page, "control", way, Operator, TRUE)) # 200

(* Both.                                                                   *)
OnlyTheEntitled == EachByItsKey /\ NoPageActs

(* A link that opens the panel opens it once, and within its minute        *)
(* (server.js:163).                                                        *)
CodeOpensOnce ==
  \A i \in DOMAIN unlocked :
    /\ unlocked[i].age \in 0..CODE_TTL
    /\ \A j \in DOMAIN unlocked : unlocked[j].code = unlocked[i].code => j = i
=============================================================================
