------------------------------- MODULE Capture -------------------------------
(***************************************************************************)
(* The two places that see a tool call before it runs.  The MCP proxy      *)
(* (src/src/audit/mcpProxy.js) makes the call itself, through a hub that   *)
(* connects to the server on first use and is replaced when its            *)
(* configuration changes.  A hook of Claude Code (audit/hooks.js, and the  *)
(* client in bin/tollpike.mjs) is asked by an agent that may not wait for  *)
(* the answer.  One downstream server is modelled; every input is one that *)
(* a rule finds, in the mode that is set at the time.                      *)
(***************************************************************************)
EXTENDS Integers, Sequences, FiniteSets

CONSTANTS ProxyCalls, OpenHooks, ClosedHooks,  \* calls through the proxy, and
                                               \* hooks that fail open or closed
          NoConn, MaxConns, MaxHubs, MaxChanges

ASSUME CaptureAssumption ==
  /\ {MaxConns, MaxHubs} \subseteq Nat \ {0} /\ MaxChanges \in Nat
  /\ ProxyCalls \cap (OpenHooks \cup ClosedHooks) = {} /\ OpenHooks \cap ClosedHooks = {}

VARIABLES auditing, ruleModes, changes,   \* the settings, and how often they changed
          sharedHub,   \* the hub in use
          hubs,        \* of each hub: the entry of `clients`, whether `routes` is filled
          conns,       \* the clients made, each by its hub and state
          calls,       \* of each call: how far it is, in which hub, over which client
          record,      \* what was recorded of it, and of which events the
                       \* append failed
          ran,         \* the calls whose tool ran
          gave         \* what the agent got of it

captureVars == <<auditing, ruleModes, changes, sharedHub, hubs, conns, calls, record, ran, gave>>

HookCalls == OpenHooks \cup ClosedHooks
Modes == {"flag", "ask", "block"}

CaptureInit ==
  /\ auditing \in BOOLEAN /\ changes = 0
  /\ ruleModes \in [request : Modes, result : {"flag", "block"}]
  /\ sharedHub = 1
  /\ hubs = [h \in 1..MaxHubs |-> [entry |-> NoConn, routes |-> FALSE]]
  /\ conns = <<>>
  /\ calls = [c \in ProxyCalls \cup HookCalls |-> [at |-> "new", hub |-> 1, conn |-> NoConn]]
  /\ record = [c \in ProxyCalls \cup HookCalls |->
                 [requested |-> "none", executed |-> "none", lost |-> {}]]
  /\ ran = {} /\ gave = [c \in ProxyCalls \cup HookCalls |-> "nothing"]

-----------------------------------------------------------------------------
(* decide, and what of it this place can enforce.                          *)
enforced(canAsk) ==
  IF ruleModes.request = "block" \/ (ruleModes.request = "ask" /\ canAsk)
  THEN ruleModes.request ELSE "no-objection"

(* An event of a call, which the log may have no room for: once, here.     *)
finish(c, event, value) ==
  \E lost \in BOOLEAN :
    /\ lost => auditing /\ \A d \in DOMAIN record : record[d].lost = {}
    /\ record' = [record EXCEPT ![c] = [record[c] EXCEPT ![event] = IF auditing THEN value ELSE "off",
                                                         !.lost = IF lost THEN @ \cup {event} ELSE @]]

decision(canAsk) == IF auditing THEN enforced(canAsk) ELSE "no-objection"

(* recordToolExecuted: whether a rule on results is in block mode.         *)
withhold(c) == auditing /\ ruleModes.result = "block"

-----------------------------------------------------------------------------
(* A call arrives at the hub, a new one if the configuration was edited;   *)
(* the clients of the old one are closed.                                  *)
gatewayHub(c) ==
  /\ c \in ProxyCalls /\ calls[c].at = "new"
  /\ \E edited \in BOOLEAN :
       /\ edited => sharedHub < MaxHubs
       /\ sharedHub' = IF edited THEN sharedHub + 1 ELSE sharedHub
       /\ calls' = [calls EXCEPT ![c].at = "arrived", ![c].hub = sharedHub']
       /\ LET old == hubs[sharedHub].entry
              close == edited /\ old # NoConn
          IN /\ conns' = IF close THEN [conns EXCEPT ![old].state = "closed"] ELSE conns
             /\ hubs' = IF close THEN [hubs EXCEPT ![sharedHub].entry = NoConn] ELSE hubs
  /\ UNCHANGED <<auditing, ruleModes, changes, record, ran, gave>>

(* connect: the client in the hub's map, or a new one that is not yet in   *)
(* it.                                                                     *)
Connect(c, atOnce, waiting) ==
  LET entry == hubs[calls[c].hub].entry
  IN IF entry # NoConn
     THEN /\ calls' = [calls EXCEPT ![c].at = atOnce, ![c].conn = entry]
          /\ UNCHANGED conns
     ELSE /\ Len(conns) < MaxConns
          /\ conns' = Append(conns, [hub |-> calls[c].hub, state |-> "connecting"])
          /\ calls' = [calls EXCEPT ![c].at = waiting, ![c].conn = Len(conns) + 1]

(* The tools are listed, if this one's name is not known.                  *)
listTools(c) ==
  /\ calls[c].at = "arrived" /\ ~hubs[calls[c].hub].routes
  /\ Connect(c, "listed", "listing")
  /\ UNCHANGED <<auditing, ruleModes, changes, sharedHub, hubs, record, ran, gave>>

(* The client is connected and has listed its tools: it is put in the map, *)
(* over what may be there by now.                                          *)
Connected(c) ==
  /\ calls[c].at \in {"listing", "connecting"}
  /\ conns' = [conns EXCEPT ![calls[c].conn].state = "open"]
  /\ hubs' = [hubs EXCEPT ![calls[c].hub] = [entry |-> calls[c].conn, routes |-> TRUE]]
  /\ calls' = [calls EXCEPT ![c].at = IF @ = "listing" THEN "listed" ELSE "calling"]
  /\ UNCHANGED <<auditing, ruleModes, changes, sharedHub, record, ran, gave>>

(* It cannot be reached in time: a listing goes on without it, a call is   *)
(* recorded as failed.                                                     *)
ConnectFails(c) ==
  /\ calls[c].at \in {"listing", "connecting"}
  /\ conns' = [conns EXCEPT ![calls[c].conn].state = "closed"]
  /\ IF calls[c].at = "listing"
     THEN calls' = [calls EXCEPT ![c].at = "listed"] /\ UNCHANGED <<record, gave>>
     ELSE /\ calls' = [calls EXCEPT ![c].at = "done"]
          /\ finish(c, "executed", "error")
          /\ gave' = [gave EXCEPT ![c] = "error"]
  /\ UNCHANGED <<auditing, ruleModes, changes, sharedHub, hubs, ran>>

UnknownTool(c) ==
  /\ calls[c].at = "listed" /\ ~hubs[calls[c].hub].routes
  /\ calls' = [calls EXCEPT ![c].at = "done"]
  /\ gave' = [gave EXCEPT ![c] = "error"]
  /\ UNCHANGED <<auditing, ruleModes, changes, sharedHub, hubs, conns, record, ran>>

(* recordToolRequest, and then a refusal or a client to call over.         *)
callTool(c) ==
  /\ calls[c].at \in {"arrived", "listed"} /\ hubs[calls[c].hub].routes
  /\ finish(c, "requested", enforced(FALSE))
  /\ IF decision(FALSE) = "block"
     THEN /\ calls' = [calls EXCEPT ![c].at = "done"]
          /\ gave' = [gave EXCEPT ![c] = "refusal"]
          /\ UNCHANGED conns
     ELSE Connect(c, "calling", "connecting") /\ UNCHANGED gave
  /\ UNCHANGED <<auditing, ruleModes, changes, sharedHub, hubs, ran>>

(* A tool that was sent for runs, though nobody may wait for it any more.  *)
ToolRuns(c) ==
  /\ calls[c].at \in {"calling", "gaveUp"} /\ conns[calls[c].conn].state = "open"
  /\ ran' = ran \cup {c}
  /\ UNCHANGED <<auditing, ruleModes, changes, sharedHub, hubs, conns, calls, record, gave>>

Answer(c) ==
  /\ calls[c].at = "calling" /\ c \in ran /\ conns[calls[c].conn].state = "open"
  /\ finish(c, "executed", IF withhold(c) THEN "withheld" ELSE "success")
  /\ gave' = [gave EXCEPT ![c] = IF withhold(c) THEN "notice" ELSE "text"]
  /\ calls' = [calls EXCEPT ![c].at = "done"]
  /\ UNCHANGED <<auditing, ruleModes, changes, sharedHub, hubs, conns, ran>>

(* The call times out, or its client was closed under it.                  *)
CallFails(c) ==
  /\ calls[c].at = "calling"
  /\ finish(c, "executed", "error")
  /\ gave' = [gave EXCEPT ![c] = "error"]
  /\ calls' = [calls EXCEPT ![c].at = "gaveUp"]
  /\ UNCHANGED <<auditing, ruleModes, changes, sharedHub, hubs, conns, ran>>

(* onclose empties the hub's place, whoever holds it.                      *)
ServerExits(k) ==
  /\ conns[k].state = "open"
  /\ conns' = [conns EXCEPT ![k].state = "closed"]
  /\ hubs' = [hubs EXCEPT ![conns[k].hub].entry = NoConn]
  /\ UNCHANGED <<auditing, ruleModes, changes, sharedHub, calls, record, ran, gave>>

-----------------------------------------------------------------------------
(* PreToolUse: the gateway records the call and answers.                   *)
PreToolUse(c) ==
  /\ c \in HookCalls /\ calls[c].at = "new"
  /\ finish(c, "requested", enforced(TRUE))
  /\ calls' = [calls EXCEPT ![c].at = decision(TRUE)]
  /\ UNCHANGED <<auditing, ruleModes, changes, sharedHub, hubs, conns, ran, gave>>

(* The answer reaches the agent, or a person it asks.                      *)
HookAnswers(c) ==
  /\ c \in HookCalls /\ calls[c].at \in {"no-objection", "ask", "block"}
  /\ \/ calls[c].at \in {"no-objection", "ask"} /\ calls' = [calls EXCEPT ![c].at = "allowed"]
     \/ calls[c].at \in {"ask", "block"} /\ calls' = [calls EXCEPT ![c].at = "refused"]
  /\ UNCHANGED <<auditing, ruleModes, changes, sharedHub, hubs, conns, record, ran, gave>>

(* Mutant: a hook that fails closed exits with a code that blocks nothing. *)
refuseNothing(c) ==
  /\ c \in HookCalls /\ calls[c].at \in {"new", "no-objection", "ask", "block"}
  /\ calls' = [calls EXCEPT ![c].at = "unheard"]
  /\ UNCHANGED <<auditing, ruleModes, changes, sharedHub, hubs, conns, record, ran, gave>>

(* The agent does not wait, or the gateway was never reached.              *)
refuse(c) ==
  /\ c \in HookCalls /\ calls[c].at \in {"new", "no-objection", "ask", "block"}
  /\ calls' = [calls EXCEPT ![c].at = IF c \in ClosedHooks THEN "refused" ELSE "unheard"]
  /\ UNCHANGED <<auditing, ruleModes, changes, sharedHub, hubs, conns, record, ran, gave>>

AgentRuns(c) ==
  /\ calls[c].at \in {"allowed", "unheard"} /\ c \notin ran
  /\ ran' = ran \cup {c} /\ gave' = [gave EXCEPT ![c] = "text"]
  /\ UNCHANGED <<auditing, ruleModes, changes, sharedHub, hubs, conns, calls, record>>

(* PostToolUse: the output is in the conversation already.                 *)
PostToolUse(c) ==
  /\ c \in HookCalls /\ c \in ran /\ record[c].executed = "none"
  /\ finish(c, "executed", IF withhold(c) THEN "warned" ELSE "success")
  /\ UNCHANGED <<auditing, ruleModes, changes, sharedHub, hubs, conns, calls, ran, gave>>

(* The settings are changed.                                               *)
ChangeRules ==
  /\ changes < MaxChanges /\ changes' = changes + 1
  /\ auditing' \in BOOLEAN
  /\ ruleModes' \in [request : Modes, result : {"flag", "block"}]
  /\ UNCHANGED <<sharedHub, hubs, conns, calls, record, ran, gave>>

(* The two share the settings only: their calls are looked at apart.       *)
ProxyNext ==
  \/ \E c \in ProxyCalls :
       \/ gatewayHub(c) \/ listTools(c) \/ Connected(c) \/ ConnectFails(c) \/ UnknownTool(c)
       \/ callTool(c) \/ ToolRuns(c) \/ Answer(c) \/ CallFails(c)
  \/ \E k \in DOMAIN conns : ServerExits(k)
  \/ ChangeRules

HookNext ==
  \/ \E c \in HookCalls :
       PreToolUse(c) \/ HookAnswers(c) \/ refuse(c) \/ AgentRuns(c) \/ PostToolUse(c)
  \/ ChangeRules

CaptureSpec == CaptureInit /\ [][ProxyNext \/ HookNext]_captureVars

-----------------------------------------------------------------------------
(* A call the record says was blocked did not run, unless a hook that      *)
(* fails open was not heard; a tool the proxy ran was recorded before; a   *)
(* result it says was withheld was kept from the agent, and any other the  *)
(* agent was given is on record as such; and a hook that fails closed lets *)
(* nothing run that the gateway did not answer for, however late each      *)
(* answer comes and whatever is changed in between (hooks.js:14,           *)
(* mcpProxy.js:196, index.js:566).                                         *)
RecordedIsTrue ==
  \A c \in ProxyCalls \cup HookCalls :
    LET r == record[c]
    IN /\ r.requested = "block" /\ c \in ran => c \in OpenHooks
       /\ c \in ran => r.requested # "none" \/ c \in OpenHooks
       /\ r.executed \in {"success", "warned", "withheld"} => c \in ran
       /\ r.executed = "withheld" => gave[c] = "notice"
       /\ c \in ProxyCalls /\ gave[c] = "text" => r.executed \in {"success", "off"}

(* A server is spawned once, and not once per request: no hub ever holds   *)
(* two connections to it (mcpProxy.js:113).                                *)
SpawnedOnce ==
  \A h \in 1..MaxHubs :
    Cardinality({k \in DOMAIN conns : conns[k].hub = h /\ conns[k].state # "closed"}) <= 1

(* A hook that fails closed refuses a call while the audit cannot be       *)
(* recorded (tollpike.mjs:624).                                            *)
ClosedMeansRecorded ==
  \A c \in ClosedHooks \cap ran : "requested" \notin record[c].lost
==============================================================================
